------------------------------ MODULE Deflate -------------------------------
(* How a rotated file becomes a gzip file: the loop of                       *)
(* gzip::file_to_gzip_with_cancel in src/include/log_gzip.hpp (the rotator   *)
(* calls it with the default level) and, under it, the compressor of         *)
(* src/include/miniz.c as that loop drives it.  mz_deflate hands             *)
(* the compressor what was read and the room there is; tdefl_compress_normal *)
(* slides a dictionary over the bytes, finds earlier copies through hash     *)
(* chains and records literals and matches; tdefl_flush_block turns what is  *)
(* recorded into a block, in compressed or in raw form; and the bytes of the *)
(* block leave through an output buffer that may take only some of them.     *)
(*                                                                           *)
(* Every size of the code is a constant here, so that a small file already   *)
(* wraps the dictionary, fills the code buffer and fills the output buffer.  *)
(* What a block weighs is not computed (module Huffman has its code lengths):*)
(* the bytes it takes and whether it grew are choices.  The bit buffer is    *)
(* left out.  Cancellation and failing writes are in module Compression.     *)
EXTENDS Naturals, Sequences, SequencesExt, FiniteSetsExt

CONSTANTS
    Files,          \* the contents of the files, sequences of byte values
    Parsing,        \* "greedy", "lazy": what the level chooses
    InBuf, OutBuf,  \* BUFFER_SIZE, for what is read and what is written
    ShortReads,     \* how many bytes one read() may return
    DictSize,       \* TDEFL_LZ_DICT_SIZE, a power of two
    MaxMatch,       \* TDEFL_MAX_MATCH_LEN
    LongMatch,      \* a match this long is never deferred (128)
    FarMatch,       \* a shortest match this far back is not worth it (8 K)
    CodeBuf,        \* TDEFL_LZ_CODE_BUF_SIZE
    BigBlock,       \* a block over this may be cut for growing (31 K)
    HashSize,       \* TDEFL_LZ_HASH_SIZE
    MaxProbes,      \* m_max_probes
    Junk,           \* what memory that was never written may hold
    BlockBytes      \* how many bytes a block may take

VARIABLES
    source, \* the content of the file that is compressed
    gz,     \* the loop of file_to_gzip_with_cancel and the mz_stream it drives
    comp,   \* the tdefl_compressor
    packed  \* the blocks made so far

deflateVars == <<source, gz, comp, packed>>

MinMatch == 3
PosMod == 2 * DictSize          \* m_next and m_hash hold 16 bits of a position
Slot(pos) == pos % DictSize
NoMatch == [len |-> 0, dist |-> 0, lit |-> 0]

(* tdefl_init() and mz_deflateInit2(): the hash table and the dictionary are *)
(* cleared, the chains are not.                                              *)
FreshCompressor(greedy, junk) ==
    [dict |-> [i \in 0 .. DictSize + MaxMatch - 2 |-> 0],
     next |-> [i \in 0 .. DictSize - 1 |-> junk],
     hash |-> [h \in 0 .. HashSize - 1 |-> 0],
     greedy |-> greedy, lookPos |-> 0, lookSize |-> 0, dictSize |-> 0, saved |-> NoMatch,
     codes |-> <<>>, total |-> 0, blockPos |-> 0, pending |-> <<>>, finished |-> FALSE, status |-> "okay"]

DeflateInit ==
    /\ source \in Files
    /\ \E l \in Parsing, j \in Junk : comp = FreshCompressor(l = "greedy", j)
    /\ gz = [pc |-> "read", left |-> source, in |-> <<>>, flush |-> FALSE, out |-> <<>>,
             written |-> <<>>, total |-> 0]
    /\ packed = <<>>

(***************************************************************************)
(* The dictionary, the hash chains and the search in them.                 *)
(***************************************************************************)
StringHash(x, y, z) == (4 * x + 2 * y + z) % HashSize

(* One byte enters the lookahead: it is stored, in the copy of the first     *)
(* bytes behind the end too, and the string that it completes is chained.    *)
Slide(z, c) ==
    LET pos == z.lookPos + z.lookSize
        mirror == IF Slot(pos) < MaxMatch - 1 THEN DictSize + Slot(pos) ELSE Slot(pos)
        dict == [z.dict EXCEPT ![Slot(pos)] = c, ![mirror] = c]
        stored == [z EXCEPT !.dict = dict, !.lookSize = @ + 1]
        ins == pos - 2
        h == StringHash(dict[Slot(ins)], dict[Slot(ins + 1)], c)
        held == [stored EXCEPT !.dictSize = Min({@, DictSize - stored.lookSize})]
    IN  IF stored.lookSize + z.dictSize < MinMatch THEN held
        ELSE [held EXCEPT !.next[Slot(ins)] = z.hash[h], !.hash[h] = ins % PosMod]

SameBytes(z, p, q, max) ==
    Min({l \in 0 .. max : l = max \/ z.dict[p + l] # z.dict[q + l]})

(* tdefl_find_match(): the chain is walked from the current position; a      *)
(* candidate that agrees in the two bytes that a longer match needs is       *)
(* compared.  Three candidates cost one probe, one that is compared ends it. *)
RECURSIVE FindMatch(_, _, _, _, _)
FindMatch(z, at, best, probes, k) ==
    LET pos == Slot(z.lookPos)
        nextProbe == z.next[at]
        dist == (z.lookPos + PosMod - nextProbe) % PosMod
        q == Slot(nextProbe)
        left == IF k = 0 THEN probes - 1 ELSE probes
        agrees == /\ z.dict[q + best.len] = z.dict[pos + best.len]
                  /\ z.dict[q + best.len - 1] = z.dict[pos + best.len - 1]
        len == SameBytes(z, pos, q, z.lookSize)
        better == IF len > best.len THEN [best EXCEPT !.len = len, !.dist = dist] ELSE best
    IN  IF left = 0 \/ nextProbe = 0 \/ dist > z.dictSize THEN best
        ELSE IF ~agrees THEN FindMatch(z, q, best, left, (k + 1) % 3)
        ELSE IF dist = 0 \/ better.len = z.lookSize THEN better
        ELSE FindMatch(z, q, better, left, 0)

CurrentMatch(z) ==
    LET start == [NoMatch EXCEPT !.len = IF z.saved.len > 0 THEN z.saved.len ELSE MinMatch - 1]
        found == IF z.lookSize <= start.len THEN start
                 ELSE FindMatch(z, Slot(z.lookPos), start, MaxProbes, 0)
        useless == \/ found.len = MinMatch /\ found.dist >= FarMatch
                   \/ Slot(z.lookPos) = found.dist
    IN  [(IF useless THEN NoMatch ELSE found) EXCEPT !.lit = z.dict[Slot(z.lookPos)]]

(***************************************************************************)
(* Recording: a literal takes a byte of the code buffer, a match three, and *)
(* eight of them share a byte of flags.                                     *)
(***************************************************************************)
Literal(c) == [len |-> 1, dist |-> 0, lit |-> c]
IsLiteral(code) == code.dist = 0

RecordLiteral(z, c) == [z EXCEPT !.codes = Append(@, Literal(c)), !.total = @ + 1]
RecordMatch(z, m) ==
    [z EXCEPT !.codes = Append(@, [m EXCEPT !.lit = 0]), !.total = @ + m.len]

CodeBytes(codes) ==
    1 + Len(codes) \div 8 + FoldLeft(LAMBDA n, c : n + (IF IsLiteral(c) THEN 1 ELSE 3), 0, codes)

Advance(z, n) ==
    [z EXCEPT !.lookPos = @ + n, !.lookSize = @ - n, !.dictSize = Min({@ + n, DictSize})]

(* Lazy parsing puts a match off by one byte, in case the next one is longer.*)
Parse(z) ==
    LET m == CurrentMatch(z)
        defer == [z EXCEPT !.saved = m]
    IN  IF z.saved.len > 0
        THEN LET first == RecordLiteral(z, z.saved.lit)
             IN  IF m.len <= z.saved.len
                 THEN Advance([RecordMatch(z, z.saved) EXCEPT !.saved = NoMatch], z.saved.len - 1)
                 ELSE IF m.len >= LongMatch
                 THEN Advance([RecordMatch(first, m) EXCEPT !.saved = NoMatch], m.len)
                 ELSE Advance([first EXCEPT !.saved = m], 1)
        ELSE IF m.dist = 0 THEN Advance(RecordLiteral(z, m.lit), 1)
        ELSE IF z.greedy \/ m.len >= LongMatch THEN Advance(RecordMatch(z, m), m.len)
        ELSE Advance(defer, 1)

BlockIsDue(z) ==
    \/ CodeBytes(z.codes) > CodeBuf - 8
    \/ z.total > BigBlock /\ (CodeBytes(z.codes) * 115) \div 128 >= z.total

(***************************************************************************)
(* tdefl_flush_block(): what is recorded becomes a block, raw when it grew *)
(* and the dictionary still holds its bytes.  Its bytes go to the room     *)
(* there is; the others wait.                                              *)
(***************************************************************************)
RawAnyway(z) == z.total > 0  \* (mutant) the bytes may have left the dictionary
RawPossible(z) == z.total > 0 /\ z.lookPos - z.blockPos <= z.dictSize
RawBytes(z) == [i \in 1 .. z.total |-> Literal(z.dict[Slot(z.blockPos + i - 1)])]

OutRoom == OutBuf - Len(gz.out)
BlockGone(z) == [z EXCEPT !.codes = <<>>, !.blockPos = @ + z.total, !.total = 0]

MakeBlock(z, raw, size, final) ==
    packed' = Append(packed, [codes |-> IF raw THEN RawBytes(z) ELSE z.codes, size |-> size, final |-> final])

BlockPieces(size) == [i \in 1 .. size |-> <<Len(packed) + 1, i>>]

(***************************************************************************)
(* The loop.                                                               *)
(***************************************************************************)
ReadChunk ==
    /\ gz.pc = "read"
    /\ \E r \in {InBuf} \cup ShortReads :
        LET n == Min({r, InBuf, Len(gz.left)})
        IN  gz' = [gz EXCEPT !.in = SubSeq(gz.left, 1, n), !.left = SubSeq(@, n + 1, Len(@)),
                             !.total = @ + n, !.flush = (n = 0), !.out = <<>>, !.pc = "call"]
    /\ UNCHANGED <<source, comp, packed>>

(* mz_deflate() answers at once when the stream has ended; tdefl_compress()  *)
(* only hands out what waits, while anything waits.                          *)
Compress ==
    /\ gz.pc = "call"
    /\ gz' = [gz EXCEPT !.pc = IF comp.status = "done" THEN "write"
                               ELSE IF comp.pending # <<>> \/ comp.finished THEN "drain" ELSE "parse"]
    /\ UNCHANGED <<source, comp, packed>>

(* tdefl_compress_normal(): the lookahead is filled, a byte at a time; then, *)
(* when it is full or no byte will follow, one literal or match is recorded. *)
Fill ==
    /\ gz.pc = "parse"
    /\ gz.in # <<>> /\ comp.lookSize < MaxMatch
    /\ comp' = Slide(comp, Head(gz.in))
    /\ gz' = [gz EXCEPT !.in = Tail(@)]
    /\ UNCHANGED <<source, packed>>

CanParse ==
    /\ gz.pc = "parse"
    /\ comp.lookSize = MaxMatch \/ (gz.in = <<>> /\ gz.flush /\ comp.lookSize > 0)

ParseOne ==
    /\ CanParse
    /\ ~BlockIsDue(Parse(comp))
    /\ comp' = Parse(comp)
    /\ UNCHANGED <<source, gz, packed>>

ParseAndFlush ==
    /\ CanParse
    /\ BlockIsDue(Parse(comp))
    /\ \E size \in BlockBytes, raw \in {RawPossible(Parse(comp)), FALSE} :
        LET z == Parse(comp)
            n == Min({OutRoom, size})
        IN  /\ MakeBlock(z, raw, size, FALSE)
            /\ comp' = [BlockGone(z) EXCEPT !.pending = SubSeq(BlockPieces(size), n + 1, size)]
            /\ gz' = [gz EXCEPT !.out = @ \o SubSeq(BlockPieces(size), 1, n),
                                !.pc = IF n < size THEN "tail" ELSE @]
    /\ UNCHANGED source

ParseDone ==
    /\ gz.pc = "parse"
    /\ gz.in = <<>> /\ comp.lookSize < MaxMatch /\ ~(gz.flush /\ comp.lookSize > 0)
    /\ gz' = [gz EXCEPT !.pc = "tail"]
    /\ UNCHANGED <<source, comp, packed>>

(* The rest of tdefl_compress(): the last block, once everything is taken.   *)
LastIsDue == gz.flush /\ comp.lookSize = 0 /\ gz.in = <<>> /\ comp.pending = <<>>

NotLastYet ==
    /\ gz.pc = "tail"
    /\ ~LastIsDue
    /\ gz' = [gz EXCEPT !.pc = "drain"]
    /\ UNCHANGED <<source, comp, packed>>

LastBlock ==
    /\ gz.pc = "tail"
    /\ LastIsDue
    /\ \E size \in BlockBytes, raw \in {RawPossible(comp), FALSE} :
        LET n == Min({OutRoom, size})
        IN  /\ MakeBlock(comp, raw, size, TRUE)
            /\ comp' = [BlockGone(comp) EXCEPT !.finished = TRUE, !.pending = SubSeq(BlockPieces(size), n + 1, size)]
            /\ gz' = [gz EXCEPT !.out = @ \o SubSeq(BlockPieces(size), 1, n), !.pc = "drain"]
    /\ UNCHANGED source

(* tdefl_flush_output_buffer(), and how mz_deflate() goes on after it.       *)
HandOut ==
    /\ gz.pc = "drain"
    /\ LET n == Min({OutRoom, Len(comp.pending)})
           rest == SubSeq(comp.pending, n + 1, Len(comp.pending))
           over == comp.finished /\ rest = <<>>
       IN  /\ comp' = [comp EXCEPT !.pending = rest, !.status = IF over THEN "done" ELSE "okay"]
           /\ gz' = [gz EXCEPT !.out = @ \o SubSeq(comp.pending, 1, n),
                               !.pc = IF over \/ n = OutRoom \/ (gz.in = <<>> /\ ~gz.flush)
                                      THEN "write" ELSE "call"]
    /\ UNCHANGED <<source, packed>>

(* What came out is written; a full buffer may mean that there is more.      *)
WriteChunk ==
    /\ gz.pc = "write"
    /\ gz' = [gz EXCEPT !.written = @ \o gz.out, !.out = <<>>,
                        !.pc = IF OutRoom = 0 THEN "call" ELSE IF gz.flush THEN "committed" ELSE "read"]
    /\ UNCHANGED <<source, comp, packed>>

DeflateNext ==
    \/ ReadChunk \/ Compress \/ Fill \/ ParseOne \/ ParseAndFlush \/ ParseDone
    \/ NotLastYet \/ LastBlock \/ HandOut \/ WriteChunk

DeflateSpec == DeflateInit /\ [][DeflateNext]_deflateVars /\ WF_deflateVars(DeflateNext)
=============================================================================
