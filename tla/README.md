# A verification development for ficl

ficl (4.2) is a Forth interpreter written in C, made to be embedded in other
programs. A *system* owns a dictionary of words; *virtual machines* (VMs) of the
system interpret and compile Forth text against that one dictionary; the
multithreaded build runs VMs as *tasks* in pthreads of their own.

This directory holds TLA+ modules of the parts of ficl that decide over its
correctness, the TLC configurations that check them on small instances, and
TLAPS proofs of their most important properties for every instance.
`PROJECT.json` lists, for every definition, the source lines it stands for, and
the hazards of the code, each at its line, with the properties that watch it.

All modules describe a multithreaded build on a 64 bit Unix: `FICL_WANT_MULTITHREADED`
is 1, `FICL_WANT_LOCALS` and `FICL_WANT_FILE` are on, and the checks of the stacks
and of the dictionary are compiled in: `FICL_ROBUST` is 2, the default of
`ficl.h:503`. The `ficllocal.h:8-10` that is shipped sets it to 0; where that is in
force nothing that is said below of a refused stack or a full dictionary holds.

Contents: [1 Inventory](#1-inventory) - [2 Modules](#2-modules) -
[3 Runs](#3-runs-bounds-and-fairness) - [4 Proofs](#4-proofs) -
[5 Disagreements](#5-where-the-code-disagrees-with-what-is-said-of-it) -
[6 Not modelled](#6-what-is-not-modelled)

## 1 Inventory

| part | source | state it keeps | operations | what makes it correct |
|---|---|---|---|---|
| task control | `extras.c`, `user/ficltask.f` | per VM: `threadActive`, `threadWake`, `threadID`, `threadStopMutex`, `threadSignal` | CONSTRUCT, ACTIVATE, STOP, AWAKEN, PAUSE, HALT, TERMINATE, WAIT | no wakeup is lost; a VM is run by one thread; mutexes live while they are used; a thread is joined once |
| dictionary lock | `ficlDictionaryLock` and its callers in `dictionary.c`, `search.c`, `system.c`, `tools.c` | one recursive mutex | lock and unlock around updates | updates exclude each other; the lock is given back |
| dictionary, word lists | `dictionary.c`, `hash.c`, `search.c`, `softcore/marker.fr` | `here`, headers, hash chains, search order, compilation list, `smudge` | CREATE, `:`, `;`, abort, lookups, FORGET, MARKER, search order words | a lookup answers with the newest visible definition; nothing refers to memory given back |
| outer interpreter | `vm.c`, `primitives.c`, `fileaccess.c`, `main.c` | `exceptionHandler`, `ip`, return stack, `tib`, `sourceId`, `restart`, `runningWord`, `state` | ficlVmEvaluate, ExecuteString, ExecuteXT, EVALUATE, INCLUDE-FILE, CATCH, THROW | whatever is thrown, every caller gets back the VM it had |
| control structures | `primitives.c`, branch instructions of `vm.c` | the code of a definition, tagged marks on the data stack | IF ... FALLTHROUGH, `;`, the branch optimizer | every branch leads where the structure says, before and after the optimizer |
| colon compiler, locals | `primitives.c` | `localsCount`, `localsFixup`, the locals' dictionary | locals, `DOES>`, EXIT, TO, literals | frames are linked and unlinked in pairs |
| inner interpreter | `ficlVmInnerLoop` | registers spilled to and refilled from the VM, `spilled` | the instructions of `ficltokens.h` | the registers a longjmp finds are its own; loops run the right number of times |
| stacks | `stack.c` | `top`, `frame` | push, pop, roll, link, unlink | every access is within bounds |
| numbers | `vm.c`, `utility.c`, `primitives.c`, `prefix.c` | `base`, `dpl`, the pictured output buffer | parse, print, `<# # #>`, prefixes | what is printed parses back; BASE is restored |
| arithmetic | `double.c`, `extras.c` | none | double cell operations, ISQRT | agrees with the integers modulo 2^w |
| LZ | `lzcompress.c`, `lzuncompress.c`, `bit.c` | none | compress, uncompress | the round trip is the identity |
| system | `system.c` | list of VMs, parse steps | create, InitVm, DestroyVm, destroy | each VM is in the list once; none is used after it was freed |
| tools | `tools.c`, `word.c` | one breakpoint per system | SEE, DEBUG, WORDS, step | the patched instruction is restored; SEE and the inner loop agree on what is an instruction |
| float | `float.c`, vendored `dtoa.c`, `fdlibm53` | floating point stack | IEEE operations | the stack is kept in bounds |
| files, OS | `fileaccess.c`, `extras.c`, `ficlplatform`, `curterm.c` | `ficlFile` | one library call each; INCLUDE-FILE and LOAD nest the interpreter | see outer interpreter |
| softcore | `softcore/*.fr` | words in the dictionary | MARKER, objects, strings | Forth programs over the above |

How they interact:

* *Shared state.* All VMs of a system share the dictionary, the search order and
  the locals' dictionary. A recursive pthread mutex guards some of the accesses.
  Compiled code is shared and is rewritten in place by the optimizer.
* *Non-local exits.* `ficlVmThrow` longjmps to the handler in
  `vm->exceptionHandler`. C functions that nest (ExecuteString, ExecuteXT, CATCH,
  the inner loop) save and replace the handler; whatever they do not restore by
  hand after the longjmp stays as the thrower left it. Locks are not undone.
* *Callbacks.* A parse step, the xt of TRAVERSE-WORDLIST and every word run by
  ExecuteXT re-enter the interpreter from C.
* *Threads.* ACTIVATE starts a thread on a VM; STOP waits on the VM's condition
  variable; TERMINATE uses `pthread_cancel` and `pthread_join`; cancellation is
  deferred, so it strikes only in cancellation points.

The behaviours that make the system hard are therefore: interleavings of tasks
in the dictionary, in the task words and in shared code; exceptions through
nested C frames and out of locked regions; reclaiming dictionary memory that
chains, orders and definitions in progress refer to; words that are run again
because the line ended in the middle of them. There is no persistence and no
network, so nothing is said of crashes or lost messages.

## 2 Modules

`X.tla` is a component, `MCX.tla` instantiates it for TLC, `X_proof.tla` holds its
theorems. Mutants (forms of a definition with a plausible bug that some property
must refute) stand before the definitions they alter and are named in
`PROJECT.json`.

```
TaskControl, VmList <- MCTaskLife <- TaskControl_proof
TaskControl  <- MCTaskControl
VmList       <- MCVmList
DictLock     <- MCDictLock, DictLock_proof
NameSpace    <= Dictionary <- MCDictionary, Dictionary_proof
Interpreter  <- MCInterpreter, Interpreter_proof
Stacks <- VmWords, CoreWords, FloatWords, SystemWords <- Machine
Machine, Registers, Locals, Loops <- MCMachine <- MCMachine_proof
ControlFlow  <- ControlFlow_proof
Powers       <- Doubles, Lz
Doubles      <- Arithmetic, Numbers
ControlFlow, Memory, Arithmetic, Numbers, Lz, Input, Debugger <- MCSequential
MCSequential <- MCSequential_proof <- Text_proof
                                            (<- used by, <= refined by)
```

### TaskControl

One action per pthread call another thread can observe. `active`, `wake`, `tid`
are the fields of `ficlVm`; `live` says that the mutex and the condition variable
are initialised; `owner` is who holds the mutex; `pc` is where each thread is in
the word it executes, `vm` the VM it runs, `tgt` the VM its word is about.
`user` is the flag ACTIVE that `ficltask.f` keeps beside the C field. STOP's fast
path (`FICL_CAS` without the mutex), its loop, spurious wakeups, the
failures of `pthread_mutex_init`, `pthread_cond_init` and `pthread_create`, and the delivery
of
cancellations in `pthread_cond_wait`, `pthread_testcancel` and input/output are steps of
their own. `awakened` and `stopped` count AWAKENs that raised the flag and STOPs that
consumed it.

ACTIVATE does not test whether the VM is already running. Programs must know; the
constant `Discipline` says how: `terminated` (they TERMINATE it first), `waited`
(the WAIT of `ficltask.f`) or `once` (never activated before, as in `user/pi.f`).
After HALT by the task itself nobody joins the thread, and TERMINATE does nothing.

### DictLock

The recursive mutex (`holder`, `depth`) and the words that use it, each as the
steps before, inside and after the bracket: lookups, locals lookup, search order
words, definitions, `,` (which does not lock), TRAVERSE-WORDLIST (which calls a
program's xt inside the bracket) and errors (which leave by longjmp). The data
are HERE and the search order. One list more than its array holds goes where
`wordlistCount` and `size` are; the model goes on as if there were a cell for it.
`writes`, `got` and `seen` are history.

### Dictionary and NameSpace

`Dictionary` is one VM's view of headers in a growing region: an address per
header, word list or cell of data; `link` and `head` are the chains; `smudged`
and `smudge` hide a definition while it is compiled; `saved` is what a MARKER
remembers. Defining words, `;`, `[` and `]`, errors and QUIT are one step; lookups,
FORGET and MARKER walk the chains link by link (`op`, `path`, `index`, `cursor`).
`NameSpace` is what a user is promised: a set of definitions, a search order, a
question and its answer; `Dictionary` refines it (`NS == INSTANCE NameSpace WITH
defs <- Defs, asked <- Asked, answer <- Answer`).

Programs step into Forth's ambiguous conditions only as far as `Liberties` says:
`nested` (defining or forgetting inside a definition), `forget` (FORGET of a word
older than something another list holds), `marker` (a MARKER that does not know
every word list). The runs and proofs that hold take `Liberties = {}`.

### Interpreter

Every C function that calls `setjmp` is an element of `frames` (a host's line, an
EVALUATE, an INCLUDE-FILE, EXECUTE-PARSING, an xt called from C, a CATCH) with what
it saved; the inner loop it starts passes exceptions on and is part of it. A text
is the number of words left in it; what each word does is chosen when it is
executed. `except` is an exception under way; `Unwind` pops the frames as the C
code after `setjmp` does, in its order, restoring what it restores.

Guards that keep programs away from what the module does not represent:

* a word runs out of text and asks to be run again only in the host's line, or in
  a CATCH (`MayRunDry`). The code has no such guard. `restart` and `runningWord` are
  one pair for all nested texts, so a RESTART out of an EVALUATE runs another word
  again (listed under hazards), and for a RESTART `ficlVmExecuteString` does not pop
  the `ip` that it pushed (`vm.c:3000-3010`, `3397-3400`). The same goes for REFILL in an included
  file, for which there is the flush of `fileaccess.c:304-310`. `Resumes` would fail
  there: it holds by this guard only;
* CATCH is not executed while compiling (`Liberties = {}`): the error inside gives
  back the definition, CATCH restores the compiling state, and
  `DefinitionWhileCompiling` fails, as a run with `{"catch"}` confirms;
* programs do not THROW the codes -261 to -256 the C code uses for itself.

ABORT, ABORT" and QUIT differ from an error in the data stack only, which is not
modelled. The flush of pending REFILLs after a file (an empty string executed) has
no effect on the state, as there are none by the first guard. When an inner ExecuteString
has reset the return stack,
ExecuteXT pops the fence below it: the popped pointer is `junk` until it is
overwritten.

### ControlFlow

A definition is compiled control word by control word: `code` holds the cells,
`cs` the tagged marks on the data stack, `prog` and `addr` what was compiled where.
A word whose tag does not match aborts (`Unmatched`). After `;` tasks meet the
branches of the definition and rewrite them as `ficlVmOptimizeJumpToJump` does, one
step per access to the shared cells (`work`: read the branch, mark it, read the
offset, look at the target, follow it recursively, patch). `first` keeps the code
as the semicolon left it.

`?DO` and `+LOOP` compile like `DO` and `LOOP`; LEAVE compiles no branch. A WHILE
outside BEGIN swaps marks that are not its own; such definitions are built but not
run (`misplaced`). WHILE directly under a colon or a CASE is left out.

### VmList

`ficlSystemInitVm`, `ficlSystemDestroyVm` and `ficlSystemDestroy` around the system
mutex (`lock`), one step per access to the list: `link` and `vmList` are the fields,
`pList` is where DestroyVm is in its search. A task thread goes with its VM
(`running`, `active`, `cancel`); the tasks in `Builders` CONSTRUCT other VMs, those in
`Outputs` do input or output again and again, and all may PAUSE, STOP and return.
`ficlVmDestroy` clears `active` before it cancels, so PAUSE and STOP offer no
cancellation point any more: a join waits for ever (`Hangs`) for a task that does
nothing else, and for one that waits in CONSTRUCT for the mutex its destroyer holds.
`memory` follows each VM from its allocation to `ficlFree`, `members` and `misused`
are history. As in `main.c`, the system is destroyed by the main thread, at any time,
`closing` says that it is. `MCTaskLife` puts it beside `TaskControl`: three
kinds of programs about the ends of tasks, one chosen at the start.

### Stacks, the vocabulary and Machine

`Stacks` has the two tests of `ficlStackCheck` and the form of a *family*: words
that make the same checks, take, give and drop the same numbers of cells. `VmWords`
(the instructions of `vm.c`), `CoreWords` (`primitives.c`), `FloatWords` (`float.c`)
and `SystemWords` (`extras.c`, `fileaccess.c`, `tools.c`, `search.c`) are the words
written in C, each with the arguments of its own checks and, apart from them, with
what its body does. `open` names the stacks for which a word's checks are not enough.
`Machine` runs them in any order, with errors after every step, CATCH, ABORT and
QUIT. `weak` are the stacks that an open word has touched since they were reset:
what a program does behind them is not promised by the code.

### Registers, Locals and Loops

`Registers` is the part of `ficlVmInnerLoop` that `Machine` leaves out: every thread has
its pointers in registers (`loops`, one record for each nested call of the function) and
in the VM (`top`), and the static `spilled` says to a handler which of them are valid.
One step is one access to `spilled`. The end of a nested loop is an exception as well
(`(exit-inner)`). `misled` are the threads whose handler read what another thread wrote.

`Locals` compiles a definition: the dictionary of local names, `localsCount`, the LINK
whose argument `localsFixup` points at, and what EXIT, `;` and DOES> compile and reset.
An error resets part of that (`left`), `:` another part, `:NONAME` none; `spoilt` says
with what a definition began. Locals are declared outside of control structures and by
one VM: the count and the names belong to the system, so that two tasks that compile at
once mix their locals, as they mix their definitions.

`Loops` has the return stack of DO, ?DO, LOOP, +LOOP, LEAVE, UNLOOP, I, J and K with its
biased cells of `LoopBits` bits.

### Memory

The dictionary in address units: where `AppendWord`, `AppendData`, `AppendString`
and the words over them put what they append, `ALLOT` and its alignment, the check
of every token (`SimpleCheck`), and what an error gives back (`AbortDefinition`).
`held` is data space; `words` are the headers with the memory each may use. A value
that is set (`SetConstant`) is written over whatever word has the name, a double one
(`Set2Constant`) only over another. It has
one word list and no search order; those are Dictionary's.

### Powers, Doubles, Arithmetic and Numbers

A double is a pair of cells of `Bits` bits, and every operation of `double.c` is
written as the code has it: carries, borrows, shifts, the scaling loop of the
division. `Arithmetic` has the words that pop and push them, `*/`, `*/MOD`, `/MOD`
and ISQRT. A division of a double by zero never returns (`hangs`). `Numbers` has the
pictured output, `ficlLtoa` and `ficlUltoa`, `>NUMBER`, the parse step for numbers
with its eight bit length, and the prefixes with their temporary BASE.

### Lz

`CompressToken` is one turn of the loop of `ficlLzCompress`: the best match of the
window, a phrase or a symbol, the sliding of window and buffer. `PlugInHeader` and
`DecodeHeaderField` are the header; `Uncompress` reads the stream bit by bit. A
header that is read back as something else is `phase = "lost"`.

### Input

LOAD, INCLUDE-FILE and the main loop give the same file to the parser: lines of at
most `LineBuffer` characters, or one text. `GetWord0`, `ParseStringEx`, `\`, `(`,
PARSE and `'` move `>IN` as the C code does, and `'` waits for its name over the end
of a line (`restart`). `Meant` says what a file means without regard to who reads it.

### Debugger

`code` is the shared code, cell by cell, with the arguments of instructions in it;
`bp` is `system->breakpoint`. `Run` executes an instruction and leaves `ip` where the
inner loop does; DEBUG, the step commands and an error at every moment patch and
restore. SEE goes over the same code by its own table (`Classified`). DEBUG is used
where no breakpoint is left in the code.

## 3 Runs, bounds and fairness

| run | asks | bounds | time |
|---|---|---|---|
| `task_wakeup` | no wakeup is lost, each STOP is paid by an AWAKEN | 2 tasks, 3 threads, 2 AWAKENs per task, tasks AWAKEN each other, until all tasks have ended | 15 s |
| `task_terminate` | three kinds of programs: tasks that are run again after TERMINATE, tasks that HALT while TERMINATE is under way, VMs that are created and destroyed with their tasks: one thread per VM, mutexes live, joined once, the list exact, no use of a freed VM; AWAKEN and TERMINATE return; DestroyVm and the end of the system return, or hang for one of the two reasons of `Hangs` | 1 task and 3 threads; 4 VMs, one of whose tasks CONSTRUCTs, one does output | 70 s |
| `task_pause_terminate` | *violated*: TERMINATE ends a task that PAUSEs | 1 task, 2 threads | 1 s |
| `vm_destroy` | *violated*: a DestroyVm that returns has removed its VM | 4 VMs | 2 s |
| `dict_lock` | every word that locks or should: updates exclude each other, the lock is given back, no cell is lost, words return | 2 threads, 2 lists, order of 2, 2 words each | 20 s |
| `dict_lookup` | *violated*: a lookup gives the lock back | the same, 3 words | 1 s |
| `names` | chains, memory, FORGET, MARKER, refinement of NameSpace, walks end | 2 names, 4 addresses, 2 lists | 75 s |
| `names_nested` | *violated*: no word links to itself | 5 addresses, 1 list | 2 s |
| `interp` | handlers, SOURCE, return stack and state after every exception | 3 nested C functions, 2 words per text | 60 s |
| `interp_include` | *violated*: a THROW reaches the last CATCH | the same, positive code | 1 s |
| `machine` | the whole vocabulary: what the checks promise of the stacks, what CATCH puts back has room, no check refuses what fits; or (`FramesSound`) exceptions through inner loops, definitions with locals, counted loops | stacks of 6, 4 and 2 cells, counts to 2, 1 CATCH; 2 threads with 2 inner loops; definitions of 6 instructions, 3 cells of locals; 3 loops over cells of 3 bits | 70 s |
| `sequential` | seven modules about what runs without another actor (but for the branches), one chosen at the start | see below | 60 s |

The properties of `sequential`, each a conjunction of properties of its module:

| property | module | says | bounds |
|---|---|---|---|
| `TargetsExact`, `JumpsKept`, `NoReentry` | ControlFlow | every accepted definition branches where its structure says, and the optimizer keeps it so in every interleaving | 6 control words, run up to 5, 2 tasks |
| `DictionarySound` | Memory | what the dictionary holds lies apart, inline texts are passed over as they were compiled, an overrun is one token's, names find their last word, values that are set again fit, but in a word whose CREATE found the dictionary full | 6 cells of 2 units, headers of 4, texts of 0, 1, 3 |
| `ErrorsRecover` | Memory, Numbers | an error gives back exactly the memory of the definition, also in a full dictionary; BASE survives but for a failed prefix | the same |
| `ArithmeticExact` | Arithmetic | products, the quotients in three roundings, orders and roots are those of the integers | cells of 4 bits, stacks of 4: all operands |
| `NumeralsExact` | Numbers | what is output is read back as itself, and a token that is read means its digits | all doubles of 4 bit cells, bases 2, 3, 10, 15; tokens to 4 characters, and of 12 to 14, of which the length modulo 12 is kept and read |
| `RoundTrip` | Lz | uncompressing gives the text back, phrases fit their fields, only the lengths 252 and 65536 are misread in the header | windows of 4, all texts to 9 characters, longer ones that repeat |
| `FilesRead` | Input | a file means the same from LOAD, INCLUDE-FILE and the main loop; lines too long are refused; `>IN` stays in the text | all files to 4 characters, some of 5 and 6, lines of 4 |
| `DebuggerSound` | Debugger | a breakpoint keeps the code, the prompt shows it, SEE and the inner loop agree | 2 words, 34 cells, 4 calls deep |

Why the bounds are enough. In *TaskControl* three threads are one thread that
stops, one that wakes it, and either another waker or the successor on the same VM:
the races are between two actors and one resource. Two AWAKENs show how the flag
collapses them. In *DictLock* one thread inside a bracket and one that comes show
every conflict; two words each, so that a lock left over by the first is met by
the second. In *Dictionary* four addresses hold the first word, a word or list to
be kept, a MARKER or the victim of FORGET, and something younger; two lists show
words of one list above words of the other. In *Interpreter* a third frame is
what lies between the thrower and the catcher; in *ControlFlow* five words hold a
loop with a branch in it and chains of branches that lead to branches, six most
nestings of two structures. In *VmList* four VMs are a head, its predecessor, the one to
destroy and a new one. In *Machine* the stacks are small so that they overflow, and each
is longer than what any word of it needs at once but for those that are always refused.
*Registers* needs two loops of one thread, so that an exception passes a handler, and a
second thread that writes between; *Locals* a local of two cells before another and a use
of both; *Loops* the loop that K is about, and all indexes and steps.
*Memory* fills its dictionary by three tokens, so that the fourth meets every check.
*Arithmetic* and *Numbers* go over all operands of a width at which every carry, borrow,
sign and rounding occurs. *Lz* has texts longer than window and buffer together. *Input*
has files of several lines and lines at the limit of the buffer. *Debugger* has every
kind of instruction with and without an argument. Deadlock is not checked where programs
are finite (word, thread or memory bounds stop them); it is where they are not
(`task_terminate`).

Fairness. Every specification with liveness states weak fairness and nothing
stronger. *TaskControl*: each thread's next step in a word, and the input/output
and PAUSE of a task that keeps doing them: the kernel schedules every thread.
*DictLock*: each thread's next step; the mutex need not be fair, as programs are
finite. *Dictionary*: the steps of a walk. *Interpreter*: the steps of unwinding. *VmList*:
the main thread's step in DestroyVm and Destroy, each thread's step in CONSTRUCT, the
input and output of the tasks in `Outputs`, and that a task cancelled while it sleeps
in STOP ends. Nothing is assumed of tasks that only PAUSE.
Nothing says that a program goes on executing words.

## 4 Proofs

| theorem | module | for every value of the constants |
|---|---|---|
| `TypeCorrect`, `WakeAccounted`, `NoWakeupLost`, `OneThread`, `StopsOnLive`, `JoinedOnce` | TaskControl_proof | any number of tasks and threads |
| `VmsAreSound` | TaskControl_proof | VmList beside TaskControl: any number of VMs and of tasks that CONSTRUCT |
| `TypeCorrect`, `UpdatesExclusive`, `LocksPaired`, `CellsKept` | DictLock_proof | any threads, lists and number of words |
| `TypeCorrect`, `ChainsExact`, `NothingDangles`, `MarkerIsExact` | Dictionary_proof | dictionaries of any size, any number of lists |
| `DictionaryImplements` | Dictionary_proof | the refinement of NameSpace |
| `TypeCorrect`, `HandlersPutBack`, `CompilesADefinition` | Interpreter_proof | C functions nested as deep as the host allows, any texts and codes |
| `CallersResume`, `CatchReached` | Interpreter_proof | the same, with negative codes |
| `TypeCorrect`, `StacksKeptIn`, `CodeFits`, `NoFalseAlarm` | MCMachine_proof | stacks of any size, any counts, any depth of CATCH, the whole vocabulary |
| `RegistersTyped`, `ExceptionsKeepRegisters` | MCMachine_proof | any threads, inner loops of any depth |
| `LocalsKeepFrames` | MCMachine_proof | definitions of any length, any names and numbers of locals |
| `LoopsCount` | MCMachine_proof | cells of any width, all limits, starts and steps, loops nested to any depth |
| `FramesAreSound` | MCMachine_proof | the three together, as the run checks them |
| `TypeCorrect`, `OptimizerKeepsJumps`, `OptimizerEnds`, `TargetsAreExact` | ControlFlow_proof | definitions of any length and nesting, any number of tasks |
| `DictionaryIsSound`, `ErrorsAreRecovered` | MCSequential_proof | dictionaries of any size, any names, texts and ALLOTs |
| `ArithmeticIsExact` | MCSequential_proof | cells of any width that is even, stacks of any depth |
| `NumeralsAreExact` | Text_proof | the same, every base, every prefix and text typed, as long as a counted string holds a double |
| `FilesAreRead` | Text_proof | files of any length, lines of any length, every line buffer |
| `CompressionIsExact` | MCSequential_proof | texts of any length, fields and windows of any number of bits |
| `BreakpointsKeepCode`, `PromptShowsProgram`, `SeeShowsExecuted`, `DebuggerIsSound` | MCSequential_proof | any code that is laid out as the compiler does it |

Each is proved from an inductive invariant that TLC checked first, in the order
Init, one step per action, and the implication. The type invariants that are proved
are not checked again by a run, but for Interpreter's, which says more than types: an
exception under way has a handler.

* *TaskControl.* `WakeAccounted`: `awakened - stopped` is not less than the raised
  flag. `NoWakeupLost` needs the mutex: who is between the flag and the signal, or
  between the test and the wait, owns it; it assumes that only the main thread
  ACTIVATEs, AWAKENs and TERMINATEs and that tasks end by TERMINATE (`MainControls`),
  as otherwise a mutex may be destroyed under a waker. The others assume less. `JoinedOnce`:
  no task ACTIVATEs or TERMINATEs (`MainAlone`); tasks may HALT at any moment, AWAKEN
  each other, and the calls of ACTIVATE may fail. Each active task has a thread of its own
  that nobody joined (`Joinable`). `OneThread` and `StopsOnLive` assume besides that what
  the main thread ACTIVATEs is idle, because it never was activated or TERMINATE ends the
  tasks (`IdleKnown`): the VM of a thread names the thread, and its mutex is there
  (`Inside`). `StopsOnLive` is the half of `SyncLive` about STOP; the half about AWAKEN is
  only model-checked, in programs where one thread AWAKENs and TERMINATEs.
* *VmList.* `VmInv`: the mutex is held where the code has locked it (`VmLocks`), a VM
  that is being created or destroyed is on no list and in the hands of one thread
  (`VmOwners`), what a thread that links has read is still the head of the list, and
  what DestroyVm has read before it locked is still a member (`VmRead`), a task that
  runs is active or in the hands of ficlVmDestroy (`VmMarked`), and the links
  lead once through all members (`ListIs`, with the path as witness).
* *DictLock.* Who is in a bracket owns the lock, and the depth is the number of
  brackets and traversals it is in. Every word is there; what the properties excuse is
  said in them, by history: the words that leave the lock behind (`Balanced`), and those
  that append without it (`NoCellLost`).
* *Dictionary*, assuming `Liberties = {}`. The parts of the invariant: `LiveInv`
  (what an address holds lies below HERE), `ListsInv` (chains are strictly
  decreasing and hold all definitions of their list), `OpenInv` (the definition in
  progress is the smudged one, and the youngest), `WalkInv` and `LookInv` (a walk has
  passed nothing it should have found), `ForgetInv` (what FORGET and MARKER have cut
  so far). Nothing weaker is inductive: the semicolon links what `smudge` refers to,
  and that this is the right word is `OpenInv`. The refinement uses the same
  invariant: each action maps to a step of NameSpace or stutters.
* *Interpreter.* `CodeInv` says where `vm->ip` and the return stack are whenever a C
  function executes: at the bottom lies what it pushed (`InBody`, `AtBottom`), and above
  it only what colon definitions pushed, so each function's caller is found below its
  own bottom (`Nesting`), wherever an exception lands (`Lands`). `InputInv` says of
  each frame that it has saved the text and SOURCE-ID of its caller, which is what makes
  putting back one of them put back all. `CompileInv` is what `Liberties = {}` is for:
  no CATCH has saved the compiling state. `CallersResume` and `CatchReached` assume
  negative codes (`NegativeCodes`), as the standard asks of THROW; with a positive one
  INCLUDE-FILE goes on after the VM was reset (`interp_include`).
* *Machine.* `IInv`: while no word runs, each stack that is not weak is within its
  array, and within it lies what every CATCH would put back. `VocabularySound` goes
  through the vocabulary family by family: the checks of a family, when they pass, leave
  its own cells in the arrays whatever the depth (`Guarded`), and when they do not, the
  cells would not have fitted (`Honest`). `CodeFits` needs nothing of the running words:
  CATCH has popped a cell of a stack that was within its array.
* *Registers.* `RegisterInv`: the thread that wrote `spilled` last finds in it what it
  has done (`OwnSpilled`), and while an instruction's error is on its way either pair of
  pointers is right (`Chosen`). So a handler that was not misled keeps what it should
  (`Kept`).
* *Locals.* `LocalInv` relates three places: the fixup to the LINK it points at, the
  count to what that LINK's argument will be (`Room`), and the names to what was declared
  since that LINK (`Declared`). EXIT, `;` and DOES> have an UNLINK before them if and
  only if a LINK is in force (`Paired`). All of it is conditional on `spoilt`, what an
  earlier error left.
* *Loops*, assuming cells of an even number of values (`LoopAssumption`). `LoopInv`:
  the return stack holds three cells for each loop that runs, biased by half the range,
  from which the counts of the plain loops are recovered. The rest is arithmetic modulo
  the width: the sign of the biased index changes exactly when the plain one crosses its
  limit, but half a circle away from it.
* *ControlFlow, the optimizer.* `IInv` says of every cell that a task may still write
  to that what it will write leads where the original did (`SameInv`, `FramesInv`), and
  that a branch under work is marked, so that no chain of branches is entered twice
  (`NoReentry`). Two tasks in the same branch write values that both lead right;
  they need not write the same one.
* *ControlFlow, the compiler.* `TargetsExact` speaks of structures as of parentheses:
  two words are a pair when what lies between them is balanced, which a count over the
  program says (`Depth`). The compiler never counts; it has a stack. `Built` joins the
  two: some function gives for each item on the stack the word that pushed it, the items
  of one kind list just the words of that kind that are still open, in order (`Listed`,
  `Nested`), each item says where its word's branch is (`ItemOK`), and every word's
  branch either waits for an item or leads where it should (`Solved`). So a word that
  resolves the newest item of its kind resolves its pair. Branches of different kinds
  wait in between, and that popping does not disturb them is one lemma for each way in
  which the words change the stack (`BuiltPush`, `BuiltResolve`, `BuiltTake`, `BuiltOf`,
  `BuiltEndOf`, `BuiltEndCase` and others). The semicolon accepts when the colon's item
  is all that is left: then nothing waits, and everything is solved. Definitions in which
  a WHILE swaps marks that are not its own are excused, as in the property.
* *Memory*, assuming (`MemoryAssumption`) that names are shorter than what their length
  byte holds. `MemInv`: headers, code and data space lie apart in the order they were
  made, the definition in progress begins where `open` says, and no word reaches behind
  it (`Pending`); so what `AbortDefinition` gives back is that definition and nothing
  else. Each word that is linked has a cell, unless its header has filled the dictionary
  (`HeaderFills`), so a value set over it has room. A counted text of exactly 256 characters
  is left out: the check for it,
  `> FICL_COUNTED_STRING_MAX` (`vm.c:2960`, 256 in `ficl.h:891`), lets it pass, although
  its own message asks for fewer than 256, and the count it gets is 0.
* *Arithmetic*, assuming cells of an even number of bits (`DoublesAssumption`). The
  property speaks of operands on the stack, so the inductive invariant is only that the
  stack holds cells; the work is in the operators. Addition, subtraction, negation and the
  shifts are exact modulo the square of the width (`Square`), with the carry or the borrow
  by hand. The product is a loop over bits whose invariant is the sum of the part added
  and the part still to be shifted in. The division scales the divisor up until it
  exceeds the dividend, then goes down again: quotient times scale plus rest stays the
  dividend. Floored and symmetric division follow from the magnitudes, case by case
  of the signs. The root takes
  two bits of its argument at a time: its square and the remainder make up what has been
  taken.
* *Numbers*, assuming (`NumbersAssumption`) that bases have a character for each digit,
  that no prefix begins with another, and that a counted string has room for every double
  with its sign and a point. Two notions carry the proof. `Shows` says that a double is
  an integer modulo the square of the width: negation and multiply-and-add keep it, so
  accumulating digits shows what they mean (`AccumulatedShows`). `Meaning` reads digits
  behind a number, so that it joins what is still to be divided with what is put already:
  each division by the base keeps it (`DigitInv`, for `#S`; `ShiftedInv` for the shifts
  of `ficlLtoa`). `DigitInv` bounds the number of rounds as well: the rest times two to
  the number of digits is no more than the number. `NumberInv` says of each phase what
  is known: `Picturing` (the digits and the rest mean the magnitude), `Written` (the text
  is a sign and digits that show the number), and what reading it gave. `ParseIs` is the
  converse: the parse step, with its order of sign, last separator and digits, reads what
  `Meaning` says. Of a token it reads what is left after its length was put into a byte
  (`Kept`), so that `ParseKept` is about tokens of any length.
* *Lz*, assuming (`LzAssumption`) that a phrase takes the bits of two symbols and a
  few more, as `ficl.h` lays it out, that the symbols fit their field and the length of the stream an unsigned int. The compression
  cuts the text and the stream at once: `Cuts` are pairs of positions from each of which
  the stream has the bits of a token (`TokenAt`) that is valid at its place in the text
  (`Valid`), and leads to the next pair. `Windows` says where window and buffer are,
  so that what a phrase refers to has been passed; then the decompression, which stands
  at one of the pairs (`Uncompressing`), takes the same token (`TokenUncompressed`). The
  phrase may overlap what it writes; it is copied character by character, and each has
  been written when it is read. The fields are read by place (`DigitByDigit`), in the
  header with the weight of a byte.
* *Input*, assuming (`InputAssumption`) that files are made of the characters that the
  parser tells apart and that a line has room for a character, its newline and the zero
  behind them. What a file means is a table over its positions, each entry by later
  ones; that there is one such table is proved by a least counterexample, counted from
  the end of the file (`MeaningExists`, `MeaningUnique`). The text of the interpreter is
  a `Piece` of the file: all of it, a line, or a line without its newline, and each way to
  parse gives the same word and the same next position in the piece as in the file, or
  runs to the end of the piece, where the next one begins. `InputInv` has three parts: the
  rest of the file is at the start of a line, and the lines before it have fitted
  (`FileInv`); the text is the piece before that rest (`TextInv`); and what was read,
  followed by what the rest means, is what the file means (`ReadInv`). What the rest means
  depends on what is under way (`Left`): a word that takes a name and is run again
  on the next line reads the name there (`Waits`), whichever line that is.
* *Debugger*, assuming (`DebugAssumption`) that the compiler has put no step-break into
  the code and that instructions lead to instructions (`CodeAssumption`: what the
  compiler lays out; the code of the run satisfies it). `DebugInv`: the breakpoint's
  address is where the code differs, and at the prompt it does not. For SEE, the walk
  of the compiler (`Laid`) and that of SEE (`Seen`) are compared address by address. SEE
  takes the numbers of locals for instructions of one cell, and so comes to the same
  next instruction.

Each induction over natural numbers that the proofs need is an argument by a least
counterexample (lemma `Least`, from the well-foundedness of the subsets of a finite
set). The bounded loops of the code are written as tables of rounds, and no module with
theorems uses RECURSIVE.

Only model-checked is all liveness (`AwakenResumes`, `TerminateReturns`,
`DestroyReturns`, `WordsReturn`, `WordsEnd`, `ThrowsLand`): the prover has no ENABLED.
`NS!Spec` states no fairness. Every safety property of the passing runs is stated by a
theorem, but for the half of `SyncLive` that is about AWAKEN.

## 5 Where the code disagrees with what is said of it

* `extras.c:826`: TERMINATE clears `threadActive` before it cancels; PAUSE offers a
  cancellation point only while the flag is set. A task that loops over PAUSE never
  ends and TERMINATE waits in `pthread_join` (`task_pause_terminate`). `ficlVmDestroy`
  does the same (`vm.c:128`), with the system locked: `DestroyReturns` excuses such a task,
  and one that waits for that lock in CONSTRUCT (`extras.c:637`, `system.c:287`).
* `dictionary.c:622`: lookups end with a second lock where an unlock belongs; the
  thread owns the dictionary for ever (`dict_lookup`).
* `dictionary.c:857`: CREATE inside a definition moves `smudge`; the semicolon links
  the created word onto itself, against the assertion in `hash.c:148`
  (`names_nested`).
* `fileaccess.c:301`: INCLUDE-FILE drops a positive exception after the VM was reset
  by it; the CATCH around it is not reached (`interp_include`).
* `system.c:388`: DestroyVm reads the head of the list before it locks. When another
  thread links a VM in between, the search begins at the VM to destroy, does not find
  it and returns; the VM stays on the list (`vm_destroy`).

Others are noted under `hazards` without a run of their own, and the properties that
come near them say what they excuse: the lock left behind by errors (`search.c:265`,
`tools.c:828`), the search order one list too long (`search.c:283`), GET-ORDER's stale
count (`search.c:111`), FORGET that cuts one list of several (`tools.c:724`),
FILE-POSITION's check for two results of three (`fileaccess.c:238`), RULEZ's check for
three cells of which it takes two (`extras.c:1236`), the value written over a word that has
no room for it (`dictionary.c:254`, where its double counterpart takes care, `:276`), the
header fields 252 and 65536 of LZ (`lzcompress.c:69`), the BASE
that a failed prefix leaves (`prefix.c:122`), the newline taken for a blank
(`vm.c:3048`), `spilled` that another thread writes (`vm.c:296`), the count and the names
of locals that an error leaves (`primitives.c:208`), the loop that ends half a circle away
(`vm.c:1491`), the cells that are checked as address units (`vm.c:3700`), and the
division by zero that does not return (`double.c:346`). Of a token of 256 characters or more
only a part is read as the number (`vm.c:3548`), and `NumeralsExact` says which.

One comment is out of date rather than the code: `primitives.c:1789` says that `#S` "presently
does not use ud1 hi ficlCell". The code pops both cells and divides the whole double
(`primitives.c:1800-1808`), as the standard asks and as `NumeralsExact` says.

## 6 What is not modelled

* Floating point values, `dtoa.c`, `fdlibm53`, `ficlblas.c`, the random generator: real
  arithmetic and third-party code. What the words do to the stacks is in FloatWords.
* `cinegy-pthread`: the headers of a pthread library for Windows.
* Output, listings (the texts SEE and WORDS write), callbacks that choose an output
  function, the compatibility names, terminal, dynamic linking, the platform layers:
  single calls without control.
* Of the inner loop: the values of single instructions, which are one C operator each.
* Of the compiler: `DOES>` at run time, POSTPONE and TO of a global value, but for their
  effect on the stacks; locals of the float stack, and a `(LOCAL)` that writes through the
  fixup of a definition an error gave back.
* Of the dictionary: parents of word lists (`set-parent-wid`), several buckets per
  list (a chain stands for one bucket), `]` outside a definition, the environment.
* Of the interpreter: a text that ends inside a parsing word of a nested text, BYE inside
  LOAD, signals that longjmp into main, CATCH around task words.
* Of the debugger: a second breakpoint while one is left in the code, and a second task.
* Of the system: a VM that is linked twice, the dictionaries freed while tasks run, a
  HALT beside `ficlVmDestroy` (which frees a VM that is not active without a join).
* The Forth part of the system but for MARKER and the tasking words: programs over what
  is modelled.
* Calls on destroyed mutexes and cancelled threads that still hold one: POSIX leaves
  them undefined, and the properties say they do not happen.
