------------------------------- MODULE Numbers --------------------------------
(***************************************************************************)
(* Numbers to text and back: the pictured output words, `.` and `U.`,      *)
(* >NUMBER, the parse step for numbers and the prefixes that change BASE   *)
(* for one number.                                                         *)
(* Source: primitives.c, utility.c, vm.c, prefix.c, softcore/prefix.fr.    *)
(*                                                                         *)
(* One conversion at a time.  A character is a digit, letters included,    *)
(* by its value, or one of four others; case does not matter to a number.  *)
(***************************************************************************)
EXTENDS Doubles, Sequences, SequencesExt

CONSTANTS
  Bases,       \* the values given to BASE by the user
  PrefixWords,    \* a set of records [name, base], the words of <prefixes>
  Tokens,      \* texts that the user types
  LengthSpan,  \* the length of a token is kept in eight bits: modulo this
  FewDigits    \* bound: leading zeros are put in front of fewer digits

(* What the code assumes of its constants: a base says cells and has a     *)
(* character for each digit, no prefix begins with another, and a counted  *)
(* string has room for every double with its sign and a point.             *)
NumbersAssumption ==
  /\ Bases \subseteq 2..36 \cap CellValues
  /\ \A p \in PrefixWords : p.base \in 2..36 \cap CellValues /\ p.name \in Seq(0..39)
  /\ \A p, q \in PrefixWords : IsPrefix(p.name, q.name) => p = q
  /\ Tokens \subseteq Seq(0..39)
  /\ FewDigits \in Nat /\ LengthSpan \in Nat
  /\ 2 * Bits + 2 < LengthSpan /\ FewDigits + 2 < LengthSpan

Hyphen == 36
Plus   == 37
Point  == 38  \* the other separators: , - . / and the colon
Strange == 39 \* what is neither letter nor digit nor separator
Digits == 0..35
Separators == {Hyphen, Plus, Point}

VARIABLES
  base,     \* vm->base
  phase,    \* "idle", "picture", "text", "read", "reread", "scanned"
  ud,       \* the double that #, #S divide
  pob,      \* the pictured output buffer, last digit first
  text,     \* the text output, or the token read
  whole,    \* the number that was output
  got       \* what reading the token gave

vars == <<base, phase, ud, pob, text, whole, got>>

Nothing == [accepted |-> FALSE, double |-> FALSE, value |-> Zero]

Init ==
  /\ base \in Bases
  /\ phase = "idle"
  /\ ud = Zero /\ pob = <<>> /\ text = <<>> /\ whole = Zero
  /\ got = Nothing

(* BASE ! *)
StoreBase(b) ==
  /\ phase = "idle"
  /\ base' = b
  /\ UNCHANGED <<phase, ud, pob, text, whole, got>>

-------------------------------------------------------------------------------
(* Output *)

(* <# with the magnitude of x *)
LessNumberSign(x) ==
  /\ phase = "idle"
  /\ phase' = "picture"
  /\ whole' = x
  /\ ud' = IF IsNegative(x) THEN Negate(x) ELSE x
  /\ pob' = <<>>
  /\ UNCHANGED <<base, text, got>>

NumberSign ==
  /\ phase = "picture" /\ (ud # Zero \/ Len(pob) < FewDigits)
  /\ LET qr == Divide(ud, base)
     IN  /\ pob' = Append(pob, qr.remainder)
         /\ ud' = qr.quotient
  /\ UNCHANGED <<base, phase, text, whole, got>>

(* The digits of u, the last one first, no fewer than one; a number has no *)
(* more than its bits.                                                     *)
DigitRound(r, radix) ==
  LET qr == Divide(r.rest, radix)
  IN  IF r.digits # <<>> /\ r.rest = Zero THEN r
      ELSE [rest |-> qr.quotient, digits |-> Append(r.digits, qr.remainder)]

DigitsOf(u, radix) ==
  LET rounds[i \in 0..(2 * Bits)] ==
        IF i = 0 THEN [rest |-> u, digits |-> <<>>] ELSE DigitRound(rounds[i - 1], radix)
  IN  rounds[2 * Bits].digits

(* Mutant of NumberSignS: it divides the low cell alone.                   *)
NumberSignSLow ==
  /\ phase = "picture" /\ (pob = <<>> \/ ud # Zero)
  /\ pob' = pob \o DigitsOf(Pair(0, ud.low), base)
  /\ ud' = Zero
  /\ UNCHANGED <<base, phase, text, whole, got>>

NumberSignS ==
  /\ phase = "picture" /\ (pob = <<>> \/ ud # Zero)
  /\ pob' = pob \o DigitsOf(ud, base)
  /\ ud' = Zero
  /\ UNCHANGED <<base, phase, text, whole, got>>

(* SIGN of the number, and #> *)
Signature == IF IsNegative(whole) THEN <<Hyphen>> ELSE <<>>

NumberSignGreater ==
  /\ phase = "picture" /\ ud = Zero /\ pob # <<>>
  /\ text' = Reverse(pob \o Signature)
  /\ phase' = "text"
  /\ pob' = <<>>
  /\ UNCHANGED <<base, ud, whole, got>>

(* ficlIsPowerOfTwo, for a base greater than 1; 0 when it is none. *)
Power(u) ==
  IF \E i \in 1..(Bits - 1) : u = Pow2[i] THEN CHOOSE i \in 1..(Bits - 1) : u = Pow2[i] ELSE 0

(* The shifts and the mask that ficlLtoa takes for a power of two.         *)
ShiftedRound(r, power) ==
  IF r.v = 0 THEN r
  ELSE [v |-> r.v \div Pow2[power], digits |-> Append(r.digits, r.v % Pow2[power])]

ShiftedDigits(v, power) ==
  LET rounds[i \in 0..Bits] ==
        IF i = 0 THEN [v |-> v, digits |-> <<>>] ELSE ShiftedRound(rounds[i - 1], power)
  IN  rounds[Bits].digits

(* Mutant of Ltoa: the magnitude is shown in every base, the sign in ten.  *)
LtoaMagnitude(u, radix) ==
  LET v == IF HasHighBit(u) THEN Minus(u) ELSE u
  IN  Reverse(DigitsOf(Pair(0, v), radix) \o
              (IF radix = 10 /\ HasHighBit(u) THEN <<Hyphen>> ELSE <<>>))

Ltoa(u, radix) ==
  LET sign == radix = 10 /\ HasHighBit(u)
      v == IF sign THEN Minus(u) ELSE u
  IN  Reverse((IF v = 0 THEN <<0>>
               ELSE IF Power(radix) # 0 THEN ShiftedDigits(v, Power(radix))
               ELSE DigitsOf(Pair(0, v), radix)) \o
              (IF sign THEN <<Hyphen>> ELSE <<>>))

Ultoa(u, radix) == Reverse(DigitsOf(Pair(0, u), radix))

Show(x, string) ==
  /\ phase = "idle"
  /\ phase' = "text"
  /\ whole' = x
  /\ text' = string
  /\ UNCHANGED <<base, ud, pob, got>>

(* In other bases than ten `.` shows a cell without a sign. *)
Dot(u)  == Show(IF base = 10 THEN Extended(u) ELSE Pair(0, u), Ltoa(u, base))
UDot(u) == Show(Pair(0, u), Ultoa(u, base))

-------------------------------------------------------------------------------
(* Input *)

(* The digits of t in this base, accumulated; separators are skipped.      *)
Accumulated(t, radix) ==
  LET value[i \in 0..Len(t)] ==
        IF i = 0 THEN Zero
        ELSE IF t[i] \in Separators THEN value[i - 1]
        ELSE MultiplyAccumulate(value[i - 1], radix, t[i])
  IN  value[Len(t)]

(* What is read of a token, whose length is kept in eight bits.            *)
Kept(token) == SubSeq(token, 1, Len(token) % LengthSpan)

(* Mutant of ParseNumber: only a separator at the end makes a double.      *)
ParsePointLast(token, radix) ==
  LET t == Kept(token)
      signed == Len(t) > 1 /\ t[1] \in {Hyphen, Plus}
      body == IF signed THEN Tail(t) ELSE t
      pointed == body # <<>> /\ body[Len(body)] \in Separators
      digits == IF pointed THEN Front(body) ELSE body
      used == {digits[i] : i \in 1..Len(digits)}
      value == Accumulated(digits, radix)
  IN  IF digits = <<>> \/ \E c \in used \ Separators : c \notin Digits \/ c >= radix
      THEN Nothing
      ELSE [accepted |-> TRUE,
            double |-> pointed,
            value |-> IF signed /\ t[1] = Hyphen THEN Negate(value) ELSE value]

(* A sign is looked for in tokens longer than one character, then one      *)
(* separator is taken off the end.                                         *)
ParseNumber(token, radix) ==
  LET t == Kept(token)
      signed == Len(t) > 1 /\ t[1] \in {Hyphen, Plus}
      body == IF signed THEN Tail(t) ELSE t
      pointed == body # <<>> /\ body[Len(body)] \in Separators
      digits == IF pointed THEN Front(body) ELSE body
      used == {digits[i] : i \in 1..Len(digits)}
      value == Accumulated(digits, radix)
  IN  IF digits = <<>> \/ \E c \in used \ Separators : c \notin Digits \/ c >= radix
      THEN Nothing
      ELSE [accepted |-> TRUE,
            double |-> pointed \/ used \cap Separators # {},
            value |-> IF signed /\ t[1] = Hyphen THEN Negate(value) ELSE value]

Begun(t) == {p \in PrefixWords : IsPrefix(p.name, t)}

(* The parse steps: prefixes come before numbers. *)
Read(t) ==
  /\ text' = t
  /\ phase' = IF phase = "idle" THEN "read" ELSE "reread"
  /\ UNCHANGED <<ud, pob, whole>>

ReadNumber(t) ==
  /\ Read(t)
  /\ Begun(t) = {}
  /\ got' = ParseNumber(t, base)
  /\ UNCHANGED base

(* Mutant of TempBase: BASE is not put back. *)
TempBaseStays(t) ==
  /\ Read(t)
  /\ \E p \in Begun(t) :
       LET number == ParseNumber(SubSeq(t, Len(p.name) + 1, Len(t)), p.base)
       IN  got' = number /\ base' = p.base

(* The word behind a prefix: BASE is put back unless the number is not     *)
(* recognised, which throws.                                               *)
TempBase(t) ==
  /\ Read(t)
  /\ \E p \in Begun(t) :
       LET number == ParseNumber(SubSeq(t, Len(p.name) + 1, Len(t)), p.base)
       IN  /\ got' = number
           /\ base' = IF number.accepted THEN base ELSE p.base

Interpret(t) == ReadNumber(t) \/ TempBase(t)

(* >NUMBER on the text: it stops at the first character that is no digit.  *)
ToNumber ==
  /\ phase = "text"
  /\ LET strange == {i \in 1..Len(text) : text[i] \notin Digits \/ text[i] >= base}
         stop == IF strange = {} THEN Len(text) ELSE Min(strange) - 1
     IN  got' = [accepted |-> stop = Len(text), double |-> TRUE,
                 value |-> Accumulated(SubSeq(text, 1, stop), base)]
  /\ phase' = "scanned"
  /\ UNCHANGED <<base, ud, pob, text, whole>>

(* The user goes on to something else. *)
Forgotten ==
  /\ phase \in {"read", "reread", "scanned"}
  /\ phase' = "idle"
  /\ ud' = Zero /\ pob' = <<>> /\ text' = <<>> /\ whole' = Zero /\ got' = Nothing
  /\ UNCHANGED base

Next ==
  \/ \E b \in Bases : StoreBase(b)
  \/ \E x \in Double : LessNumberSign(x)
  \/ NumberSign \/ NumberSignS \/ NumberSignGreater
  \/ \E u \in CellValues : Dot(u) \/ UDot(u)
  \/ phase = "idle" /\ \E t \in Tokens : Interpret(t)
  \/ phase = "text" /\ \E t \in {text, Append(text, Point)} : Interpret(t)
  \/ ToNumber
  \/ Forgotten

Spec == Init /\ [][Next]_vars

(***************************************************************************)
(* Properties                                                              *)
(***************************************************************************)
Natural(x) == x.high * Span + x.low
Magnitude(x) == IF IsNegative(x) THEN Natural(Negate(x)) ELSE Natural(x)

(* The number n with the digits of a text behind it, the highest first;    *)
(* what is no digit does not count.                                        *)
Meaning(n, t, radix) ==
  LET value[i \in 0..Len(t)] ==
        IF i = 0 THEN n
        ELSE IF t[i] \in Digits THEN value[i - 1] * radix + t[i]
        ELSE value[i - 1]
  IN  value[Len(t)]

(* At every step of a pictured conversion the double still to be divided   *)
(* with the digits in the buffer behind it is the number, whatever mix of  *)
(* # and #S has produced them.                                             *)
(* Behaviour: # and #S divide the whole double and keep the quotient, #S   *)
(* too, whose comment says that it does not use the high cell of ud1.      *)
PicturedExact ==
  phase = "picture" => Magnitude(whole) = Meaning(Natural(ud), Reverse(pob), base)

(* A number that was output in some base is read as the same number in     *)
(* that base, as a cell, as a double when a point follows it, and by       *)
(* >NUMBER when it has no sign; the most negative numbers, too.            *)
(* Behaviour: ficlLtoa, ficlUltoa, #S and SIGN against ficlVmParseNumber.  *)
ReadsBack ==
  /\ phase = "reread" /\ Begun(text) = {} =>
       /\ got.accepted
       /\ got.double = (Last(text) = Point)
       /\ IF got.double THEN got.value = whole ELSE got.value.low = whole.low
  /\ phase = "scanned" /\ Head(text) # Hyphen => got.accepted /\ got.value = whole

(* A token with a digit is a number just when all behind its sign are      *)
(* digits of the base, the one of its prefix if it has one, or separators; *)
(* then it is the number which its digits mean, modulo the width of a      *)
(* double, and a double when there is a separator.  Of a token, behind its *)
(* prefix, of LengthSpan characters or more that is so of the first of     *)
(* them only, as many as its length is modulo LengthSpan: the others may   *)
(* be what they like, and if none is left it is no number.                 *)
(* Behaviour: the order of the steps in ficlVmParseNumber, and its length. *)
ReadsNumerals ==
  phase = "read" =>
    LET radix == IF Begun(text) = {} THEN base ELSE (CHOOSE p \in Begun(text) : TRUE).base
        typed == IF Begun(text) = {} THEN text
                 ELSE SubSeq(text, Len((CHOOSE p \in Begun(text) : TRUE).name) + 1, Len(text))
        token == Kept(typed)
        body == IF Head(token) \in {Hyphen, Plus} THEN Tail(token) ELSE token
        number == Meaning(0, token, radix)
        signed == IF Head(token) = Hyphen THEN - number ELSE number
    IN  /\ token = <<>> => got = Nothing
        /\ (\E i \in 1..Len(token) : token[i] \in Digits) =>
          got = IF \E i \in 1..Len(body) :
                     body[i] \notin Separators /\ ~ (body[i] \in Digits /\ body[i] < radix)
                THEN Nothing
                ELSE [accepted |-> TRUE,
                      double |-> \E i \in 1..Len(body) : body[i] \in Separators,
                      value |-> Pair((signed \div Span) % Span, signed % Span)]

(* Nothing changes BASE but BASE ! and a prefix whose number is not        *)
(* recognised.                                                             *)
(* Behaviour: ficlPrimitiveTempBase stores the old base behind the throw.  *)
BaseKept ==
  [][base' # base => (\E b \in Bases : StoreBase(b)) \/ got' = Nothing]_vars
===============================================================================
