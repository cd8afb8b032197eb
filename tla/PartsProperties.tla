--------------------------- MODULE PartsProperties ---------------------------
(* What the smaller parts promise: see BlockingQueue, ExitHandler, Levels,   *)
(* Layout, LogLine, RobinHood, Erased, Deflate and Huffman.                  *)
EXTENDS BlockingQueue, ExitHandler, Levels, LogLine, RobinHood, Erased, Deflate, Huffman

(* A consumer comes back from its call, unless it set no time limit and      *)
(* other consumers have permits for all there is (wait_dequeue_bulk).        *)
Served == \A w \in Waiters :
    wait[w].pc # "idle" ~> (wait[w].pc = "idle" \/ (wait[w].timeout = "none" /\ size <= Permits))

-----------------------------------------------------------------------------
HoldsUp(t) == InHandler(t) /\ (t = Worker \/ task[t].within \in {"lock", "locked"})

(* The handler of a signal comes to its end, and the process with it, unless *)
(* some signal interrupted the worker itself, or a thread inside flush()     *)
(* with or before flush_mutex_ (signal_handler, emergency_flush).            *)
HandlerReturns == \A t \in AppThreads : InHandler(t) ~> (~Alive \/ \E u \in SignalThreads : HoldsUp(u))

(* install(): "Call this once at program startup to ensure logs are flushed  *)
(* on exit/crash."  When the process ends in a handler for which the pool    *)
(* had a marker, the lines its thread logged before were written.            *)
LoggedIsFlushed == \A t \in AppThreads :
    killedBy = t /\ task[t].marker /\ task[t].within = "run" => written[t] = logged[t]

-----------------------------------------------------------------------------
(* log_level::nolog is "No logging": after all modules were set to it, and   *)
(* while nobody sets another, no statement makes a line.                     *)
OffIsOff == \A t \in LevelThreads : ~(LevelAt(t, "line") /\ lt[t].since = nolog)

-----------------------------------------------------------------------------
TextOf(b) == Peek(b, HeaderSize, b.text)

(* Text and pairs never meet: the pairs read from a buffer are those it      *)
(* accepted, newest first, whatever text was written before or after; and in *)
(* structured mode no newline is left, and no escape is half (write_raw,     *)
(* handle_newlines_for_format, add_kv, iterator).                            *)
PairsApart == HasBuffer(line) /\ open =>
    LET b == line.b
        text == TextOf(b) IN
    /\ HeaderSize <= b.text /\ b.text <= b.meta /\ b.meta <= BufferCapacity
    /\ b.textLen = Written(b)
    /\ Pairs(b) = given
    /\ ~line.human => \A i \in DOMAIN text :
         text[i] # Newline /\ (text[i] = Backslash => i < Len(text) /\ text[i + 1] = LetterN)

(* raw_formatter: format() writes as many bytes as calculate_size() said,    *)
(* and with one byte less it writes fewer and none past the end.             *)
SizeExact == \A i \in DOMAIN line.sent : \A color, newline \in BOOLEAN :
    LET b == line.sent[i]
        size0 == RawSize(b, color, newline) IN
    /\ \A max \in size0 .. size0 + 1 : Len(RawFormat(b, color, newline, max)) = size0
    /\ Len(RawFormat(b, color, newline, size0 - 1)) < size0

(* A buffer is laid out so that both hold, and a reader relies on both.      *)
LayoutSound == PairsApart /\ SizeExact

(* What a reader makes of a dump: the rows shown, and under a star every row *)
(* up to the next one shown.                                                 *)
SentBuffers == SubSeq(line.sent, dump.from + 1, Len(line.sent)) \o (IF HasBuffer(line) THEN <<line.b>> ELSE <<>>)
Tokens == FlattenSeq([i \in DOMAIN SentBuffers |->
            SelectSeq(TextOf(SentBuffers[i]), LAMBDA c : c = Star \/ (Len(c) = 2 /\ c[1] \in {"at", "row"}))])
Starred(x, upto) ==
    IF x.star /\ x.last >= 0 THEN [o \in x.last + 1 .. upto - 1 |-> x.map[x.last]] @@ x.map ELSE x.map
Decoded ==
    LET Read(x, i) == IF Tokens[i] = Star THEN [x EXCEPT !.star = TRUE]
                      ELSE IF Tokens[i][1] = "at" THEN [x EXCEPT !.at = Tokens[i][2]]
                      ELSE [map |-> (x.at :> Tokens[i][2]) @@ Starred(x, x.at),
                            at |-> x.at, last |-> x.at, star |-> FALSE]
        none == [map |-> <<>>, at |-> 0, last |-> -1, star |-> FALSE]
    IN Starred(FoldLeft(Read, none, [i \in 1 .. Len(Tokens) |-> i]), dump.done)

(* The rows that a formatted hex dump says it wrote can be read back, and    *)
(* are those of the data, also where equal rows became a star and the dump   *)
(* goes on in another buffer (hex_dump_formatted_full_impl, hex_dump_full).  *)
DumpTruthful == dump # NoDump /\ ~dump.busy /\ dump.rows \in Dumps =>
    /\ DOMAIN Decoded = 0 .. dump.done - 1
    /\ \A o \in DOMAIN Decoded : Decoded[o] = dump.rows[o + 1]

(* hex_dump_full: "This method will flush buffers as needed to ensure all    *)
(* data is dumped."  As long as the pool has buffers, it is.                 *)
DumpComplete == dump # NoDump /\ ~dump.busy /\ HasBuffer(line) => dump.done = Len(dump.rows)

-----------------------------------------------------------------------------
(* The hash table is a map: after any insertions, erasures, growth, changes  *)
(* of the hash and lost hash bits, exactly the keys put in are found, at a   *)
(* cell with their value, and iteration meets each once (Table::findIdx,     *)
(* insertKeyPrepareEmptySpot, shiftUp, shiftDown, increase_size).            *)
TableIsMap == ~thrown =>
    /\ {k \in TableKeys : InTable(table, k)} = DOMAIN contents
    /\ \A k \in DOMAIN contents : table.kv[FindIdx(table, k)] = <<k, contents[k]>>
    /\ {table.kv[i][1] : i \in Cells(table)} = DOMAIN contents
    /\ Cardinality(Cells(table)) = table.num
    /\ table.mask # 0 => table.info[Sentinel(table)] = 1

-----------------------------------------------------------------------------
(* What inflate makes of recorded codes, and the bytes of the blocks.        *)
Inflated(codes) ==
    FoldLeft(LAMBDA o, c : IF IsLiteral(c) THEN Append(o, c.lit)
                           ELSE o \o [i \in 1 .. c.len |-> o[Len(o) - c.dist + 1 + ((i - 1) % c.dist)]],
             <<>>, codes)
PackedCodes == FlattenSeq([i \in DOMAIN packed |-> packed[i].codes])
PackedBytes == FlattenSeq([i \in DOMAIN packed |-> [j \in 1 .. packed[i].size |-> <<i, j>>]])

(* A compressed file holds its source: however the file is read, wherever    *)
(* blocks end, raw or not, and however little the output buffer takes, what  *)
(* is written, about to be written and kept back is every byte of the blocks *)
(* in order; the blocks decode to the source; only the last one is marked    *)
(* final; the code buffer is not overrun; and the size in the trailer is the *)
(* source's (file_to_gzip_with_cancel, mz_deflate, tdefl_compress).          *)
Lossless ==
    /\ gz.written \o gz.out \o comp.pending = PackedBytes
    /\ \A i \in DOMAIN packed : packed[i].final <=> comp.finished /\ i = Len(packed)
    /\ IsPrefix(Inflated(PackedCodes \o comp.codes), source)
    /\ CodeBytes(comp.codes) <= CodeBuf
    /\ gz.pc = "committed" =>
         comp.finished /\ gz.written = PackedBytes /\ Inflated(PackedCodes) = source /\ gz.total = Len(source)

(* The code of a block can be read back: every symbol in use has a length,   *)
(* within the limit; the code is complete and no code begins another; a more *)
(* frequent symbol is not longer; and without the limit no lengths do better *)
(* (tdefl_optimize_huffman_table).                                           *)
SizesFill(z, S) == MapThenSumSet(LAMBDA s : 2 ^ (SizeLimit - z[s]), S)
Cost(z, S) == MapThenSumSet(LAMBDA s : huff.counts[s] * z[s], S)
CodeReadable == huff.stage = "done" =>
    LET S == Used(huff.counts) IN
    /\ \A s \in DOMAIN huff.sizes : huff.sizes[s] \in IF s \in S THEN 1 .. SizeLimit ELSE {0}
    /\ Cardinality(S) > 1 => SizesFill(huff.sizes, S) = 2 ^ SizeLimit
    /\ \A s, t \in S : s # t => \E k \in 0 .. Min({huff.sizes[s], huff.sizes[t]}) - 1 :
                                    Bit(huff.codes[s], k) # Bit(huff.codes[t], k)
    /\ \A s, t \in S : huff.counts[s] > huff.counts[t] => huff.sizes[s] <= huff.sizes[t]
    /\ Cardinality(S) <= SizeLimit + 1 =>
         \A z \in [S -> 1 .. SizeLimit] :
             SizesFill(z, S) <= 2 ^ SizeLimit => Cost(huff.sizes, S) <= Cost(z, S)

(* The packed lengths unpack to what was packed, fit the bits they are       *)
(* written in, and are counted, so that each has a code itself               *)
(* (tdefl_start_dynamic_block).                                              *)
Unpacked(out) ==
    FoldLeft(LAMBDA o, x : CASE x[1] < 16 -> Append(o, x[1])
                             [] x[1] = 16 -> o \o [i \in 1 .. x[2] + 3 |-> o[Len(o)]]
                             [] x[1] = 17 -> o \o [i \in 1 .. x[2] + 3 |-> 0]
                             [] x[1] = 18 -> o \o [i \in 1 .. x[2] + 11 |-> 0], <<>>, out)
LengthsReadable ==
    /\ \A i \in DOMAIN pack.out :
         LET x == pack.out[i] IN x[2] <= CASE x[1] < 16 -> 0 [] x[1] = 16 -> 3 [] x[1] = 17 -> 7 [] x[1] = 18 -> 127
    /\ \A s \in DOMAIN pack.counts : pack.counts[s] = Cardinality({i \in DOMAIN pack.out : pack.out[i][1] = s})
    /\ pack.left = <<>> /\ pack.repeats + pack.zeros = 0 => Unpacked(pack.out) = pack.sizes

(* Together they are the head of a compressed block, which inflate needs.    *)
CodesSound == CodeReadable /\ LengthsReadable
=============================================================================
