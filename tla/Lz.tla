---------------------------------- MODULE Lz -----------------------------------
(***************************************************************************)
(* The compression that packs the Forth part of the system and the         *)
(* decompression that unpacks it: a text is compressed token by token,     *)
(* then the stream is read back bit by bit.                                *)
(* Source: lzcompress.c, lzuncompress.c, bit.c and their macros in ficl.h. *)
(*                                                                         *)
(* Positions count from 0 as in the code, sequences from 1.                *)
(***************************************************************************)
EXTENDS Powers, Sequences, SequencesExt, FiniteSetsExt

CONSTANTS
  Texts,       \* what is compressed
  OffsetBits, LengthBits, NextBits,
  ByteSpan     \* a byte of the header holds less; OneByteMost is four below

PhraseBits == 1 + OffsetBits + LengthBits + NextBits
SymbolBits == 1 + NextBits
MinimumUsefulMatch == PhraseBits \div SymbolBits
WindowSize == Pow2[OffsetBits]

(* Mutant of BufferSize: the character for `next` is counted twice.        *)
BufferSizeOver == Pow2[LengthBits] + MinimumUsefulMatch + 1

BufferSize == Pow2[LengthBits] + MinimumUsefulMatch

(* The value of a one in a byte of the header. *)
Weight[i \in Nat] == IF i = 0 THEN 1 ELSE ByteSpan * Weight[i - 1]

(* What the code assumes of its constants. *)
LzAssumption ==
  /\ OffsetBits \in Nat \ {0} /\ LengthBits \in Nat \ {0} /\ NextBits \in Nat \ {0}
  /\ MinimumUsefulMatch = 2  \* a phrase is written for a length above 1
  /\ ByteSpan \in Nat /\ ByteSpan > 4
  /\ Texts \subseteq Seq(0..(Pow2[NextBits] - 1))
  /\ \A t \in Texts : Len(t) * SymbolBits < Weight[4]  \* in an unsigned int

VARIABLES
  phase,       \* "idle", "compress", "uncompress", "done"; "lost": the header is misread
  text,        \* uncompressed
  window, windowSize, buffer,   \* of the compression
  stream,      \* the bits written; outputPosition is their number
  header,      \* the bytes of the two header fields
  input,       \* bits read by the decompression
  output,      \* what it has written
  source       \* its window

vars == <<phase, text, window, windowSize, buffer, stream, header, input, output, source>>

Init ==
  /\ phase = "idle"
  /\ text = <<>> /\ window = 0 /\ windowSize = 0 /\ buffer = 0
  /\ stream = <<>> /\ header = <<>> /\ input = 0 /\ output = <<>> /\ source = 0

-------------------------------------------------------------------------------
(* Bits: the `width` low bits of n, the highest first, and back. *)
BitsOf(n, width) == [i \in 1..width |-> (n \div Pow2[width - i]) % 2]

NumberOf(bits) ==
  LET value[i \in 0..Len(bits)] == IF i = 0 THEN 0 ELSE 2 * value[i - 1] + bits[i]
  IN  value[Len(bits)]

(* count bits from a position of the stream *)
BitString(offset, count) == NumberOf(SubSeq(stream, offset + 1, offset + count))

Smaller(a, b) == IF a < b THEN a ELSE b

-------------------------------------------------------------------------------
(* The header: one byte up to OneByteMost, else an identifier and two or   *)
(* four bytes.                                                             *)
OneByteMost == ByteSpan - 4

(* A field of that many bytes: what does not fit is cut off. *)
Bytes(n, length) == [i \in 1..length |-> (n \div Weight[length - i]) % ByteSpan]

(* Mutant of EncodeHeaderField: numbers of two bytes are cut to one.       *)
EncodeHeaderFieldShort(n) ==
  IF n <= OneByteMost THEN <<n>> ELSE <<OneByteMost + 1>> \o Bytes(n, 1)

EncodeHeaderField(n) ==
  IF n <= OneByteMost THEN <<n>>
  ELSE IF n <= Weight[2] THEN <<OneByteMost + 1>> \o Bytes(n, 2)
  ELSE <<OneByteMost + 2>> \o Bytes(n, 4)

(* The value of the field behind the first `offset` bytes, and the offset  *)
(* behind it.  Bytes of the stream, which follow the header, may be read   *)
(* as part of a misread field: they are not known here, and count as zero. *)
DecodeHeaderField(data, offset) ==
  LET id == data[offset + 1]
      length == IF id = OneByteMost + 1 THEN 2 ELSE 4
      at(i) == IF offset + 1 + i <= Len(data) THEN data[offset + 1 + i] ELSE 0
      value[i \in 0..length] == IF i = 0 THEN 0 ELSE ByteSpan * value[i - 1] + at(i)
  IN  IF id < OneByteMost THEN [value |-> id, offset |-> offset + 1]
      ELSE [value |-> value[length], offset |-> offset + 1 + length]

-------------------------------------------------------------------------------
(* The compression *)

Compress(t) ==
  /\ phase = "idle"
  /\ phase' = "compress"
  /\ text' = t
  /\ UNCHANGED <<window, windowSize, buffer, stream, header, input, output, source>>

(* How far the window from position w on and the buffer agree; the last    *)
(* character of the buffer is reserved for `next`.                         *)
MatchLength(w, windowEnd, bufferEnd) ==
  Max({n \in 0..Smaller(windowEnd - w, bufferEnd - buffer) :
         \A i \in 1..n : text[w + i] = text[buffer + i]})

(* The first of the longest useful matches, or length 0. *)
CompareWindow(useWindowSize, bufferSize) ==
  LET length(w) == MatchLength(w, window + useWindowSize, buffer + bufferSize - 1)
      starts == {w \in window..(window + useWindowSize - 1) : length(w) >= MinimumUsefulMatch}
  IN  IF starts = {} THEN [offset |-> 0, length |-> 0, next |-> text[buffer + 1]]
      ELSE LET longest == Max({length(w) : w \in starts})
               first == Min({w \in starts : length(w) = longest})
           IN  [offset |-> first - window, length |-> longest,
                next |-> text[buffer + longest + 1]]

(* The fields of a phrase are joined with |, which is + when they fit. *)
TokenBits(match) ==
  IF match.length > 1
  THEN BitsOf(Pow2[PhraseBits - 1] + match.offset * Pow2[LengthBits + NextBits]
                + (match.length - MinimumUsefulMatch) * Pow2[NextBits] + match.next, PhraseBits)
  ELSE BitsOf(match.next, SymbolBits)

Match ==
  LET remaining == Len(text) - buffer
  IN  CompareWindow(Smaller(remaining, windowSize), Smaller(remaining, BufferSize))

(* Mutant of SlideWindow: the window begins to slide one step late.        *)
SlideWindowLate(length) ==
  IF windowSize = WindowSize
  THEN window' = window + length /\ UNCHANGED windowSize
  ELSE /\ windowSize' = Smaller(windowSize + length, WindowSize)
       /\ UNCHANGED window

SlideWindow(length) ==
  IF windowSize = WindowSize
  THEN window' = window + length /\ UNCHANGED windowSize
  ELSE IF windowSize + length < WindowSize
  THEN windowSize' = windowSize + length /\ UNCHANGED window
  ELSE /\ window' = window + windowSize + length - WindowSize
       /\ windowSize' = WindowSize

CompressToken ==
  /\ phase = "compress" /\ buffer < Len(text)
  /\ stream' = stream \o TokenBits(Match)
  /\ buffer' = buffer + Match.length + 1
  /\ SlideWindow(Match.length + 1)
  /\ UNCHANGED <<phase, text, header, input, output, source>>

(* The header is put in front; then it is read. *)
PlugInHeader ==
  /\ phase = "compress" /\ buffer = Len(text)
  /\ header' = EncodeHeaderField(Len(stream)) \o EncodeHeaderField(Len(text))
  /\ LET first == DecodeHeaderField(header', 0)
         second == DecodeHeaderField(header', first.offset)
         misread == \/ first.offset >= Len(header')
                    \/ first.value # Len(stream) \/ second.value # Len(text)
     IN  phase' = IF misread THEN "lost" ELSE "uncompress"
  /\ UNCHANGED <<text, window, windowSize, buffer, stream, input, output, source>>

-------------------------------------------------------------------------------
(* The decompression: the loop of ficlLzUncompress, a token a step. *)

Uncompress ==
  /\ phase = "uncompress" /\ input # Len(stream)
  /\ LET phrase == stream[input + 1] = 1
         fields == BitString(input + 1, OffsetBits + LengthBits)
         length == IF phrase THEN (fields % Pow2[LengthBits]) + MinimumUsefulMatch ELSE 0
         offset == fields \div Pow2[LengthBits]
         copied == IF phrase THEN SubSeq(output, source + offset + 1, source + offset + length)
                   ELSE <<>>
         after == input + 1 + (IF phrase THEN OffsetBits + LengthBits ELSE 0)
     IN  /\ output' = output \o copied \o <<BitString(after, NextBits)>>
         /\ input' = after + NextBits
  /\ source' = IF Len(output') > WindowSize THEN Len(output') - WindowSize ELSE source
  /\ UNCHANGED <<phase, text, window, windowSize, buffer, stream, header>>

Uncompressed ==
  /\ phase = "uncompress" /\ input = Len(stream)
  /\ phase' = "done"
  /\ UNCHANGED <<text, window, windowSize, buffer, stream, header, input, output, source>>

Next ==
  \/ \E t \in Texts : Compress(t)
  \/ CompressToken \/ PlugInHeader
  \/ Uncompress \/ Uncompressed

Spec == Init /\ [][Next]_vars

(***************************************************************************)
(* Properties                                                              *)
(***************************************************************************)

(* Whatever was compressed comes out again, and at no time has the         *)
(* decompression written anything else: the two windows, each kept by its  *)
(* own rule, never differ.                                                 *)
(* Behaviour: the sliding windows of ficlLzCompress and ficlLzUncompress.  *)
RoundTrip ==
  /\ IsPrefix(output, text)
  /\ phase = "done" => output = text

(* The fields of every phrase fit their bits, as ficlLzCompress asserts of *)
(* the length: no match is longer than the buffer less its last character, *)
(* none begins outside the window, and it ends before the buffer.          *)
(* Behaviour: the bounds of ficlLzCompareWindow.                           *)
PhraseFits ==
  phase = "compress" /\ buffer < Len(text) =>
    /\ Match.length > 1 => Match.length - MinimumUsefulMatch < Pow2[LengthBits]
    /\ Match.offset < WindowSize
    /\ window + Match.offset + Match.length <= buffer
    /\ buffer + Match.length < Len(text)

(* Only a length of 252 and one of 65536, the limits of the writer, are    *)
(* not read back from the header.                                          *)
(* Behaviour: ficlLzEncodeHeaderField against ficlLzDecodeHeaderField.     *)
HeaderRead ==
  phase = "lost" => {Len(stream), Len(text)} \cap {OneByteMost, Weight[2]} # {}
===============================================================================
