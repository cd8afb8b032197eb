------------------------------- MODULE Layout -------------------------------
(***************************************************************************)
(* The bytes of one log buffer (log_buffer_base in log_buffer.hpp and      *)
(* log_buffer_metadata_adapter in log_structured_impl.hpp), as operators.  *)
(*                                                                         *)
(* Text grows forward from the header, key/value pairs grow backward from  *)
(* the end, and a write takes what is left between them.  A buffer is a    *)
(* record: its cells, text_pos_, metadata_pos_, the two header fields that *)
(* readers trust, and the padding mode.  A cell holds a character <<c>>,   *)
(* or one byte of a pair as <<what, value>>.                               *)
(***************************************************************************)
EXTENDS Integers, Sequences, SequencesExt

CONSTANTS BufferCapacity,    \* capacity_
          HeaderSize,  \* HEADER_SIZE
          MaxPairs,    \* MAX_STRUCTURED_KEYS
          MaxValue     \* MAX_FORMATTED_SIZE

Char(c) == <<c>>
Newline == Char("newline")
Backslash == Char("backslash")
LetterN == Char("n")
Quote == Char("quote")
Space == Char("space")
Terminator == Char("zero")
Unwritten == Char("unwritten")

FreshBuffer(padding) ==
  [data |-> [i \in 0 .. BufferCapacity - 1 |-> Unwritten], text |-> HeaderSize, meta |-> BufferCapacity,
   textLen |-> 0, metaOff |-> BufferCapacity, width |-> 0, padding |-> padding]

Room(b) == b.meta - b.text
Written(b) == b.text - HeaderSize
Fitting(b, s) == SubSeq(s, 1, IF Len(s) < Room(b) THEN Len(s) ELSE Room(b))
Poke(data, at, s) == [i \in DOMAIN data |-> IF i - at + 1 \in DOMAIN s THEN s[i - at + 1] ELSE data[i]]
Peek(b, from, to) == [i \in 1 .. to - from |-> b.data[from + i - 1]]
Append1(b, s) == [b EXCEPT !.data = Poke(@, b.text, s), !.text = @ + Len(s)]
Noted(b) == [b EXCEPT !.textLen = Written(b)]
Spaces(n) == [i \in 1 .. n |-> Space]

(* A newline in structured mode takes two cells, and is dropped when only  *)
(* one is left; the text behind it still goes in.                          *)
WriteEscaped(b, s) ==
  FoldLeft(LAMBDA x, c : IF c # Newline THEN Append1(x, Fitting(x, <<c>>))
                         ELSE IF Room(x) >= 2 THEN Append1(x, <<Backslash, LetterN>>) ELSE x, b, s)

WriteRaw(b, s) ==
  IF s = <<>> THEN b
  ELSE Noted(IF b.padding THEN Append1(b, Fitting(b, s)) ELSE WriteEscaped(b, s))

AppendOrReplaceLast(b, c) ==
  IF Written(b) > 0 /\ b.data[b.text - 1] = c THEN b
  ELSE IF Room(b) > 0 THEN Noted(Append1(b, <<c>>))
  ELSE IF Written(b) > 0 THEN [b EXCEPT !.data = Poke(@, b.text - 1, <<c>>)]
  ELSE b

(* The header's width in spaces follows a leading newline, and every other *)
(* one but the last character.                                             *)
WriteWithPadding(b, s, lead) ==
  LET indent == IF b.padding THEN <<Spaces(b.width)>> ELSE <<>>
      start == IF lead THEN <<<<Newline>>>> \o indent ELSE <<>>
      body == FlattenSeq([i \in DOMAIN s |->
                <<<<s[i]>>>> \o (IF s[i] = Newline /\ i < Len(s) THEN indent ELSE <<>>)])
  IN FoldLeft(WriteRaw, b, start \o (IF b.padding THEN body ELSE <<s>>))

(* Formatted text goes in as it is and is then repaired in place: each     *)
(* newline grows to an escape, and when there is no cell to grow into,     *)
(* everything behind the escape is cut off.                                *)
EscapeHalf(b, s) ==  \* (mutant) without a cell to grow into, half an escape is left
  LET Step(x, i) ==
        IF x.cut THEN x
        ELSE IF s[i] # Newline THEN [x EXCEPT !.out = Append(@, s[i])]
        ELSE IF x.room >= 1 THEN [x EXCEPT !.out = @ \o <<Backslash, LetterN>>, !.room = @ - 1]
        ELSE [x EXCEPT !.cut = TRUE, !.out = Append(@, Backslash)]
  IN FoldLeft(Step, [out |-> <<>>, room |-> Room(b), cut |-> FALSE], [i \in 1 .. Len(s) |-> i]).out

EscapeInPlace(b, s) ==
  LET Step(x, i) ==
        IF x.cut THEN x
        ELSE IF s[i] # Newline THEN [x EXCEPT !.out = Append(@, s[i])]
        ELSE IF x.room >= 1 THEN [x EXCEPT !.out = @ \o <<Backslash, LetterN>>, !.room = @ - 1]
        ELSE [x EXCEPT !.cut = TRUE, !.out = IF i < Len(s) THEN @ \o <<Backslash, LetterN>> ELSE @]
  IN FoldLeft(Step, [out |-> <<>>, room |-> Room(b), cut |-> FALSE], [i \in 1 .. Len(s) |-> i]).out

PadInPlace(b, s) ==
  LET Step(x, i) ==
        IF s[i] = Newline /\ i < Len(s) /\ x.room >= b.width
          THEN [out |-> x.out \o <<Newline>> \o Spaces(b.width), room |-> x.room - b.width]
          ELSE [x EXCEPT !.out = Append(@, s[i])]
  IN FoldLeft(Step, [out |-> <<>>, room |-> Room(b)], [i \in 1 .. Len(s) |-> i]).out

HandleNewlines(b, start) ==
  LET s == Peek(b, start, b.text)
      t == IF b.padding THEN PadInPlace(b, s) ELSE EscapeInPlace(b, s)
  IN Noted([b EXCEPT !.data = Poke(@, start, t), !.text = start + Len(t)])

FormatWithPadding(b, s) ==
  IF Room(b) = 0 THEN b ELSE HandleNewlines(Append1(b, Fitting(b, s)), b.text)

(* snprintf ends its text with a zero, and so may not use the last cell.   *)
PrintfWithPadding(b, s) ==
  IF Room(b) = 0 \/ s = <<>> THEN b
  ELSE LET t == IF Len(s) < Room(b) THEN s ELSE SubSeq(s, 1, Room(b) - 1)
       IN HandleNewlines(Append1([b EXCEPT !.data = Poke(@, b.text + Len(t), <<Terminator>>)], t), b.text)

Message(b) ==
  IF b.width >= b.textLen THEN <<>>
  ELSE Peek(b, HeaderSize + b.width, HeaderSize + b.textLen)

Finalized(b) == [b EXCEPT !.metaOff = b.meta]

-----------------------------------------------------------------------------
(* Key/value pairs: a count, then the pairs, the newest first.             *)

NoPairs(b) == b.meta >= BufferCapacity
CountOf(b) == IF NoPairs(b) THEN 0 ELSE b.data[b.meta][2]
PairBytes(key, value) ==
  <<<<"key", key>>, <<"key", key>>, <<"len", Len(value)>>, <<"len", Len(value)>>>>
    \o [i \in DOMAIN value |-> <<"val", value[i]>>]

(* A later pair ends where the old count was: the count moves with it.     *)
PairSpace(b, pair) == Len(pair) + (IF NoPairs(b) THEN 1 ELSE 0)
Accepts(b, pair) ==
  /\ PairSpace(b, pair) <= b.meta
  /\ b.meta - PairSpace(b, pair) >= b.text
  /\ CountOf(b) < MaxPairs
Clipped(value) == SubSeq(value, 1, IF Len(value) < MaxValue THEN Len(value) ELSE MaxValue)
AddPair(b, key, value) ==
  LET pair == PairBytes(key, Clipped(value))
      start == b.meta - PairSpace(b, pair)
  IN IF ~Accepts(b, pair) THEN b
     ELSE [b EXCEPT !.data = Poke(@, start, <<<<"count", CountOf(b) + 1>>>> \o pair), !.meta = start]

(* iterator: as many pairs as the count says, while four bytes are left.   *)
Pairs(b) ==
  LET Step(x, i) ==
        IF x.at + 4 > BufferCapacity THEN x
        ELSE LET n == b.data[x.at + 2][2]
             IN [at |-> x.at + 4 + n,
                 out |-> Append(x.out, <<b.data[x.at][2],
                           [j \in 1 .. n |-> b.data[x.at + 3 + j][2]]>>)]
  IN FoldLeft(Step, [at |-> b.meta + 1, out |-> <<>>], [i \in 1 .. CountOf(b) |-> i]).out
=============================================================================
