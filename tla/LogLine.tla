------------------------------- MODULE LogLine -------------------------------
(***************************************************************************)
(* One log statement (log_line.hpp, log_line_impl.hpp): a line takes a     *)
(* buffer, its header goes in before the first text, text, pairs and hex   *)
(* dumps follow, a flush sends the buffer and takes another, and the       *)
(* destructor sends the last one.  log_formatters.hpp reads what was sent. *)
(*                                                                         *)
(* A line is a record: its buffer, or NoBuffer once the pool had none      *)
(* (every operation is then a no-op), needs_header_, human_readable_, the  *)
(* buffers sent, and how many buffers the pool still has.  A row of a dump *)
(* is HEX_BYTES_PER_LINE bytes as one value; only a last row may be short. *)
(***************************************************************************)
EXTENDS Layout, FiniteSetsExt

CONSTANTS HeaderText,   \* what log_line_headered::write_header formats
          Strings,      \* texts a statement may write
          InternalPairs,     \* pairs log_line_structured adds: <<key, value>> in order
          UserPairs,    \* pairs a statement may add
          Dumps,        \* data for formatted hex dumps, rows in order
          InlineDumps,  \* data for inline hex dumps, bytes in order
          MaxRows,      \* the 64 lines per buffer of hex_dump_full
          ChunkBytes,   \* the 64 bytes hex_dump_inline_impl formats at a time
          ByteText,     \* characters one byte takes in an inline dump
          LowRoom,      \* the 100 characters below which an inline dump stops
          Spares,       \* buffers the pool may still have when a line begins
          MaxCalls,     \* bound: calls on one line
          Short, NoRow, NoBuffer

VARIABLES line,         \* the statement under way
          open,         \* the line exists
          given,        \* pairs the current buffer accepted, newest first
          dump,         \* the last dump: its data, how much it says it wrote, its loop
          calls         \* calls so far

lineVars == <<line, open, given, dump, calls>>

NoDump == [rows |-> <<>>, from |-> 0, done |-> 0, busy |-> FALSE, x |-> NoRow]

Acquired(ln) ==
  [ln EXCEPT !.b = IF ln.spare > 0 THEN FreshBuffer(ln.human) ELSE NoBuffer,
             !.spare = IF @ > 0 THEN @ - 1 ELSE 0, !.needsHeader = TRUE]
HasBuffer(ln) == ln.b # NoBuffer
WithHeader(ln) ==
  IF ~ln.needsHeader THEN ln
  ELSE LET written == IF ln.human THEN FormatWithPadding(ln.b, HeaderText) ELSE WriteRaw(ln.b, <<Char("msg="), Quote>>)
       IN [ln EXCEPT !.b = [written EXCEPT !.width = Written(written) - Written(ln.b)], !.needsHeader = FALSE]

(* flush() and endl: an empty buffer stays; another one is sent.           *)
Flushed(ln) ==
  LET b == Finalized(ln.b)
  IN IF ~HasBuffer(ln) THEN ln
     ELSE IF Written(b) = 0 /\ CountOf(b) = 0 THEN [ln EXCEPT !.b = b]
     ELSE Acquired([ln EXCEPT !.sent = Append(@, b)])

-----------------------------------------------------------------------------
(* hex_dump_formatted_full_impl: rows equal to the one before become one   *)
(* star, followed by the last of them; a row that does not fit ends the    *)
(* dump, and the caller goes on from there.                                *)

Star == Char("*")
RowText(offset, value) == <<<<"at", offset>>, <<"row", value>>, Char("ascii"), Char("|")>>
SpaceFor(b, s) == Len(s) + 1 + (IF b.padding THEN b.width ELSE 0)
Shows(x, s) == [x EXCEPT !.b = WriteWithPadding(@, s, TRUE), !.lines = @ + 1]
Fits(x, s) == Room(x.b) >= SpaceFor(x.b, s)

DumpStar(x, start) ==
  IF x.star \/ Fits(x, <<Star>>)
    THEN [(IF x.star THEN x ELSE Shows(x, <<Star>>)) EXCEPT
            !.star = TRUE, !.shown = start + x.dumped, !.dumped = @ + 1]
    ELSE [x EXCEPT !.stop = TRUE]

LastOfStar(x, rows, start) == RowText(x.shown, rows[x.shown - start + 1])

DumpRowFirst(x, rows, start) ==  \* (mutant) every row is compared with the first
  LET value == rows[x.dumped + 1]
      text == RowText(start + x.dumped, value)
      ended == IF x.star THEN Shows(x, LastOfStar(x, rows, start)) ELSE x
  IN IF x.star /\ ~Fits(x, LastOfStar(x, rows, start)) THEN [x EXCEPT !.dumped = x.shown - start, !.stop = TRUE]
     ELSE IF ~Fits(ended, text) THEN [ended EXCEPT !.star = FALSE, !.stop = TRUE]
     ELSE [Shows(ended, text) EXCEPT !.star = FALSE, !.shown = start + x.dumped, !.dumped = @ + 1,
             !.prev = IF x.prev = NoRow THEN value ELSE @]

DumpRow(x, rows, start) ==
  LET value == rows[x.dumped + 1]
      text == RowText(start + x.dumped, value)
      ended == IF x.star THEN Shows(x, LastOfStar(x, rows, start)) ELSE x
  IN IF x.star /\ ~Fits(x, LastOfStar(x, rows, start))
       THEN [x EXCEPT !.dumped = x.shown - start, !.stop = TRUE]
     ELSE IF ~Fits(ended, text) THEN [ended EXCEPT !.star = FALSE, !.stop = TRUE]
     ELSE [Shows(ended, text) EXCEPT !.star = FALSE, !.shown = start + x.dumped, !.dumped = @ + 1,
             !.prev = IF value = Short THEN @ ELSE value]

DumpStep(x, rows, start) ==
  IF x.lines >= x.maxRows THEN [x EXCEPT !.stop = TRUE]
  ELSE IF rows[x.dumped + 1] # Short /\ rows[x.dumped + 1] = x.prev THEN DumpStar(x, start)
  ELSE DumpRow(x, rows, start)

DumpEnd(x, rows, start) ==
  IF ~x.star THEN x
  ELSE IF Fits(x, LastOfStar(x, rows, start)) THEN Shows(x, LastOfStar(x, rows, start))
  ELSE [x EXCEPT !.dumped = x.shown - start]

(* hex_dump_inline_impl counts a chunk as dumped whatever write_raw took.  *)
InlineText(bytes) ==
  [i \in 1 .. ByteText * Len(bytes) |-> <<"hex", bytes[((i - 1) \div ByteText) + 1]>>]
InlineStep(x, bytes) ==
  LET chunk == SubSeq(bytes, x.dumped + 1, Min({x.dumped + ChunkBytes, Len(bytes)}))
      b == WriteRaw(x.b, InlineText(chunk))
      dumped == x.dumped + Len(chunk)
  IN [x EXCEPT !.b = b, !.dumped = dumped, !.stop = Room(b) < LowRoom /\ dumped < Len(bytes)]

(* The loop of a dump when it begins on a buffer with its header.          *)
DumpLoop(b, start, how) ==
  [b |-> IF how.inline THEN b ELSE WriteRaw(b, <<<<"progress", start>>>>), dumped |-> 0, lines |-> 0,
   prev |-> NoRow, star |-> FALSE, shown |-> start, stop |-> FALSE,
   maxRows |-> how.maxRows, full |-> how.full, inline |-> how.inline]

-----------------------------------------------------------------------------
LineInit ==
  /\ open = FALSE
  /\ line = [b |-> NoBuffer, needsHeader |-> TRUE, human |-> TRUE, sent |-> <<>>, spare |-> 0]
  /\ given = <<>> /\ dump = NoDump /\ calls = 0

AddAll(b, pairs) == FoldLeft(LAMBDA x, p : AddPair(x, p[1], p[2]), b, pairs)
Clip(p) == <<p[1], Clipped(p[2])>>
(* The pairs of a list that a buffer takes, newest first.                  *)
PairsTaken(b, pairs) ==
  FoldLeft(LAMBDA x, p : [b |-> AddPair(x.b, p[1], p[2]),
                          out |-> IF Accepts(x.b, PairBytes(p[1], Clipped(p[2]))) THEN <<Clip(p)>> \o x.out ELSE x.out],
           [b |-> b, out |-> <<>>], pairs).out

(* The constructors: a structured line adds its own pairs first.           *)
Begin(human, spare) ==
  /\ ~open
  /\ LET ln == Acquired([b |-> NoBuffer, needsHeader |-> TRUE, human |-> human, sent |-> <<>>, spare |-> spare])
         pairs == IF HasBuffer(ln) /\ ~human THEN InternalPairs ELSE <<>>
     IN /\ line' = IF HasBuffer(ln) THEN [ln EXCEPT !.b = AddAll(@, pairs)] ELSE ln
        /\ given' = IF HasBuffer(ln) THEN PairsTaken(ln.b, pairs) ELSE <<>>
  /\ open' = TRUE /\ dump' = NoDump /\ calls' = 0

CanCall == open /\ ~dump.busy /\ calls < MaxCalls /\ HasBuffer(line)
Called == calls' = calls + 1
Wrote(Op(_)) ==
  /\ CanCall /\ Called
  /\ LET headed == WithHeader(line) IN line' = [headed EXCEPT !.b = Op(@)]
  /\ UNCHANGED <<open, given, dump>>

PrintText(s) == Wrote(LAMBDA b : WriteWithPadding(b, s, FALSE))
PrintfText(s) == Wrote(LAMBDA b : PrintfWithPadding(b, s))
FormatText(s) == Wrote(LAMBDA b : FormatWithPadding(b, s))

AddUserPair(p) ==
  /\ CanCall /\ Called
  /\ line' = [line EXCEPT !.b = AddPair(@, p[1], p[2])]
  /\ given' = PairsTaken(line.b, <<p>>) \o given
  /\ UNCHANGED <<open, dump>>

Flush ==
  /\ CanCall /\ Called
  /\ line' = Flushed(line)
  /\ given' = IF Len(line'.sent) = Len(line.sent) THEN given ELSE <<>>
  /\ UNCHANGED <<open, dump>>

HexDump(data, how) ==
  /\ CanCall /\ Called /\ dump = NoDump
  /\ line' = WithHeader(line)
  /\ dump' = [rows |-> data, from |-> Len(line.sent), done |-> 0, busy |-> TRUE,
              x |-> DumpLoop(line'.b, 0, how)]
  /\ UNCHANGED <<open, given>>

HexBestEffort(rows, maxRows) == HexDump(rows, [maxRows |-> maxRows, full |-> FALSE, inline |-> FALSE])
HexFull(data, inline) == HexDump(data, [maxRows |-> MaxRows, full |-> TRUE, inline |-> inline])

(* One row, or one chunk of an inline dump.                                *)
Rest == SubSeq(dump.rows, dump.done + 1, Len(dump.rows))
GoesOn == dump.busy /\ ~dump.x.stop /\ dump.x.dumped < Len(Rest)

DumpOne ==
  /\ GoesOn
  /\ dump' = [dump EXCEPT !.x = IF @.inline THEN InlineStep(@, Rest) ELSE DumpStep(@, Rest, dump.done)]
  /\ UNCHANGED <<line, open, given, calls>>

(* hex_dump_full flushes and goes on while rows are left, until a buffer   *)
(* takes nothing or there is none.                                         *)
BufferDumped ==
  /\ dump.busy /\ ~GoesOn
  /\ LET last == IF dump.x.inline THEN dump.x ELSE DumpEnd(dump.x, Rest, dump.done)
         done == dump.done + last.dumped
         filled == [line EXCEPT !.b = last.b]
         more == last.full /\ last.dumped > 0 /\ done < Len(dump.rows)
         next == IF more THEN Flushed(filled) ELSE filled
         again == more /\ HasBuffer(next)
     IN /\ line' = IF again THEN WithHeader(next) ELSE next
        /\ dump' = [dump EXCEPT !.done = done, !.busy = again, !.x = IF again THEN DumpLoop(line'.b, done, last) ELSE NoRow]
        /\ given' = IF more THEN <<>> ELSE given
  /\ UNCHANGED <<open, calls>>

(* The destructors: a structured line closes its quote first.              *)
End ==
  /\ open /\ ~dump.busy
  /\ open' = FALSE
  /\ line' = IF ~HasBuffer(line) THEN line
             ELSE LET b == IF line.human THEN line.b ELSE AppendOrReplaceLast(line.b, Quote)
                      sent == Flushed([line EXCEPT !.b = b])
                  IN [sent EXCEPT !.b = NoBuffer]
  /\ given' = <<>>
  /\ UNCHANGED <<dump, calls>>

LineNext ==
  \/ \E human \in BOOLEAN, spare \in Spares : Begin(human, spare)
  \/ \E s \in Strings : PrintText(s) \/ PrintfText(s) \/ FormatText(s)
  \/ \E p \in UserPairs : AddUserPair(p)
  \/ Flush
  \/ \E rows \in Dumps : HexFull(rows, FALSE) \/ \E maxRows \in 1 .. MaxRows : HexBestEffort(rows, maxRows)
  \/ \E bytes \in InlineDumps : HexFull(bytes, TRUE)
  \/ DumpOne \/ BufferDumped
  \/ End

LineSpec == LineInit /\ [][LineNext]_lineVars

-----------------------------------------------------------------------------
(* raw_formatter: the size a sink reserves, and what is then written into  *)
(* it; a piece that does not fit ends the output.                          *)
Special == {Space, Newline, Quote}
NeedsQuotes(value) == \E i \in DOMAIN value : value[i] \in Special
QuoteIf(value) == IF NeedsQuotes(value) THEN <<<<Quote>>>> ELSE <<>>
RawSizeBare(b, color, newline) ==  \* (mutant) quotes are not counted
  FoldLeft(LAMBDA n, p : n + 1 + Len(<<p[1]>>) + 1 + Len(p[2]),
           (IF color THEN 2 ELSE 0) + Written(b) + (IF newline THEN 1 ELSE 0), Pairs(b))
RawSize(b, color, newline) ==
  FoldLeft(LAMBDA n, p : n + 1 + Len(<<p[1]>>) + 1 + (IF NeedsQuotes(p[2]) THEN 2 ELSE 0) + Len(p[2]),
           (IF color THEN 1 ELSE 0) + Written(b) + (IF color THEN 1 ELSE 0) + (IF newline THEN 1 ELSE 0), Pairs(b))
RawPieces(b, color) ==
  (IF color THEN <<<<Char("color")>>>> ELSE <<>>) \o <<Peek(b, HeaderSize, HeaderSize + b.textLen)>>
    \o FlattenSeq([i \in DOMAIN Pairs(b) |->
         LET p == Pairs(b)[i]
         IN <<<<Space>>, <<Char(p[1])>>, <<Char("=")>>>> \o QuoteIf(p[2]) \o <<p[2]>> \o QuoteIf(p[2])])
    \o (IF color THEN <<<<Char("reset")>>>> ELSE <<>>)
RawFormat(b, color, newline, max) ==
  LET Step(x, piece) == IF x.stop \/ Len(x.out) + Len(piece) > max THEN [x EXCEPT !.stop = TRUE]
                        ELSE [x EXCEPT !.out = @ \o piece]
      all == FoldLeft(Step, [out |-> <<>>, stop |-> FALSE], RawPieces(b, color))
  IN IF ~all.stop /\ newline /\ Len(all.out) < max THEN Append(all.out, Newline) ELSE all.out
=============================================================================
