------------------------------ MODULE Huffman -------------------------------
(* How a compressed block of src/include/miniz.c gets its code: the symbols  *)
(* that occur are sorted by how often they do, the in-place algorithm of     *)
(* Moffat and Katajainen turns the counts into code lengths, lengths over    *)
(* the limit are cut, and the codes are handed out in order of length        *)
(* (tdefl_optimize_huffman_table and what it calls).  The lengths of both    *)
(* tables are then packed by runs into the head of the block                 *)
(* (tdefl_start_dynamic_block).  One action is one pass of a loop; the       *)
(* arrays keep the indices of the code.                                      *)
EXTENDS Naturals, Sequences, SequencesExt, FiniteSets, FiniteSetsExt

CONSTANTS
    SymbolCounts,   \* the counts to begin with: functions from symbols 0 .. n
    SizeLimit,      \* code_size_limit
    Radix,          \* 256: a count has two digits
    SizeLists       \* code lengths to pack

VARIABLES huff, pack

huffmanVars == <<huff, pack>>

Used(counts) == {s \in DOMAIN counts : counts[s] > 0}
NumUsed == Cardinality(Used(huff.counts))

HuffmanInit ==
    /\ \E c \in SymbolCounts :
        huff = [counts |-> c, stage |-> "sort", syms |-> <<>>, A |-> <<>>, next |-> 0, root |-> 0, leaf |-> 0,
                avbl |-> 0, dpth |-> 0, num |-> [i \in 0 .. 2 * SizeLimit |-> 0], total |-> 0,
                sizes |-> <<>>, codes |-> <<>>]
    /\ \E l \in SizeLists :
        pack = [sizes |-> l, left |-> l, prev |-> 255, zeros |-> 0, repeats |-> 0, out |-> <<>>,
                counts |-> [s \in 0 .. 18 |-> 0]]

(***************************************************************************)
(* Sorting: a stable pass for each digit; the second is left out when the  *)
(* second digit of every count is 0.                                       *)
(***************************************************************************)
SortPass(syms, Digit(_)) ==
    FlattenSeq([v \in 1 .. Radix |-> SelectSeq(syms, LAMBDA s : Digit(huff.counts[s]) = v - 1)])

RadixSort ==
    LET syms == SetToSortSeq(Used(huff.counts), LAMBDA x, y : x < y)
        once == SortPass(syms, LAMBDA n : n % Radix)
    IN  IF \A s \in ToSet(syms) : huff.counts[s] < Radix THEN once
        ELSE SortPass(once, LAMBDA n : n \div Radix)

(* One symbol takes one bit, none takes none.                                *)
Sort ==
    /\ huff.stage = "sort"
    /\ LET syms == RadixSort
           A == [i \in 0 .. NumUsed - 1 |-> huff.counts[syms[i + 1]]]
       IN  huff' = IF NumUsed < 2
                   THEN [huff EXCEPT !.syms = syms, !.num[1] = NumUsed, !.stage = "assign"]
                   ELSE [huff EXCEPT !.syms = syms, !.A = [A EXCEPT ![0] = @ + A[1]],
                                     !.root = 0, !.leaf = 2, !.next = 1, !.stage = "pair"]
    /\ UNCHANGED pack

(***************************************************************************)
(* tdefl_calculate_minimum_redundancy().  The first part builds the tree:  *)
(* A[next] becomes the weight of a node made of the two lightest of the    *)
(* nodes from root on and the leaves from leaf on; a node that was taken   *)
(* holds its parent from then on.                                          *)
(***************************************************************************)
(* The lighter of the next node and the next leaf is added to A[next]; the   *)
(* first of a pair may be a node that is not there yet, and never is.        *)
TakeLightest(h, first) ==
    LET A == h.A
        weight == IF first THEN 0 ELSE A[h.next]
        nodeFirst == \/ h.leaf >= NumUsed
                     \/ (first \/ h.root < h.next) /\ A[h.root] < A[h.leaf]
    IN  IF nodeFirst
        THEN [h EXCEPT !.A = [A EXCEPT ![h.next] = weight + A[h.root], ![h.root] = h.next], !.root = @ + 1]
        ELSE [h EXCEPT !.A = [A EXCEPT ![h.next] = weight + A[h.leaf]], !.leaf = @ + 1]

PairUp ==
    /\ huff.stage = "pair" /\ huff.next < NumUsed - 1
    /\ huff' = [TakeLightest(TakeLightest(huff, TRUE), FALSE) EXCEPT !.next = @ + 1]
    /\ UNCHANGED pack

RootHasDepthZero ==
    /\ huff.stage = "pair" /\ huff.next >= NumUsed - 1
    /\ huff' = [huff EXCEPT !.A[NumUsed - 2] = 0, !.next = NumUsed - 2, !.stage = "depths"]
    /\ UNCHANGED pack

(* The second part: parents become depths, from the root down.               *)
NodeDepth ==
    /\ huff.stage = "depths"
    /\ huff' = IF huff.next > 0
               THEN [huff EXCEPT !.A[huff.next - 1] = huff.A[huff.A[huff.next - 1]] + 1, !.next = @ - 1]
               ELSE [huff EXCEPT !.avbl = 1, !.dpth = 0, !.root = NumUsed - 1, !.next = NumUsed, !.stage = "leaves"]
    /\ UNCHANGED pack

(* The third part: at every depth, the places that no inner node takes are   *)
(* leaves.  root and next are one more than in the code, where root ends -1. *)
LeafDepth ==
    /\ huff.stage = "leaves" /\ huff.avbl > 0
    /\ LET above == {r \in 0 .. huff.root : \A i \in r .. huff.root - 1 : huff.A[i] = huff.dpth}
           root == Min(above)
           used == huff.root - root
           next == huff.next - (huff.avbl - used)
       IN  huff' = [huff EXCEPT !.A = [i \in DOMAIN @ |-> IF i \in next .. huff.next - 1 THEN huff.dpth ELSE @[i]],
                                !.root = root, !.next = next, !.avbl = 2 * used, !.dpth = @ + 1]
    /\ UNCHANGED pack

(***************************************************************************)
(* tdefl_huffman_enforce_max_code_size(): codes over the limit are made    *)
(* as long as it; then, while they take too much room, one of them is      *)
(* given back and a shorter one is split.                                  *)
(***************************************************************************)
Weight(num) == MapThenSumSet(LAMBDA i : num[i] * 2 ^ (SizeLimit - i), 1 .. SizeLimit)

CountSizes ==
    /\ huff.stage = "leaves" /\ huff.avbl = 0
    /\ LET num == [i \in DOMAIN huff.num |-> Cardinality({k \in DOMAIN huff.A : huff.A[k] = i})]
           cut == [i \in DOMAIN num |->
                      IF i < SizeLimit THEN num[i]
                      ELSE IF i = SizeLimit
                      THEN MapThenSumSet(LAMBDA k : num[k], SizeLimit .. 2 * SizeLimit)
                      ELSE num[i]]
       IN  huff' = [huff EXCEPT !.num = cut, !.total = Weight(cut), !.stage = "limit"]
    /\ UNCHANGED pack

ShortenOnce ==  \* (mutant) the code that is split leaves one place
    /\ huff.stage = "limit" /\ huff.total # 2 ^ SizeLimit
    /\ LET shorter == {i \in 1 .. SizeLimit - 1 : huff.num[i] # 0}
           given == [huff.num EXCEPT ![SizeLimit] = @ - 1]
       IN  huff' = [huff EXCEPT !.total = @ - 1,
                       !.num = IF shorter = {} THEN given
                               ELSE [given EXCEPT ![Max(shorter)] = @ - 1, ![Max(shorter) + 1] = @ + 1]]
    /\ UNCHANGED pack

Shorten ==
    /\ huff.stage = "limit" /\ huff.total # 2 ^ SizeLimit
    /\ LET shorter == {i \in 1 .. SizeLimit - 1 : huff.num[i] # 0}
           given == [huff.num EXCEPT ![SizeLimit] = @ - 1]
       IN  huff' = [huff EXCEPT !.total = @ - 1,
                       !.num = IF shorter = {} THEN given
                               ELSE [given EXCEPT ![Max(shorter)] = @ - 1, ![Max(shorter) + 1] = @ + 2]]
    /\ UNCHANGED pack

ShortEnough ==
    /\ huff.stage = "limit" /\ huff.total = 2 ^ SizeLimit
    /\ huff' = [huff EXCEPT !.stage = "assign"]
    /\ UNCHANGED pack

(***************************************************************************)
(* The most frequent symbol gets the shortest length.  The codes of one    *)
(* length are consecutive, in the order of the symbols, and are stored     *)
(* with their bits reversed.                                               *)
(***************************************************************************)
CodesUpTo(i) == MapThenSumSet(LAMBDA k : huff.num[k], 1 .. i)
SizeOfRank(rank) ==
    IF rank >= CodesUpTo(SizeLimit) THEN 0 ELSE Min({i \in 1 .. SizeLimit : rank < CodesUpTo(i)})

GiveSizes ==
    /\ huff.stage = "assign"
    /\ huff' = [huff EXCEPT !.stage = "codes",
                   !.sizes = [s \in DOMAIN huff.counts |->
                       IF huff.counts[s] = 0 THEN 0
                       ELSE SizeOfRank(NumUsed - (CHOOSE k \in 1 .. NumUsed : huff.syms[k] = s))]]
    /\ UNCHANGED pack

NextCode[i \in 1 .. SizeLimit] == IF i = 1 THEN 0 ELSE 2 * (NextCode[i - 1] + huff.num[i - 1])
Bit(code, k) == (code \div 2 ^ k) % 2
Reversed(code, size) == MapThenSumSet(LAMBDA k : Bit(code, k) * 2 ^ (size - 1 - k), 0 .. size - 1)

HandOutCodes ==
    /\ huff.stage = "codes"
    /\ huff' = [huff EXCEPT !.stage = "done",
                   !.codes = [s \in {t \in DOMAIN huff.sizes : huff.sizes[t] > 0} |->
                       LET size == huff.sizes[s]
                           before == Cardinality({t \in DOMAIN huff.sizes : t < s /\ huff.sizes[t] = size})
                       IN  Reversed(NextCode[size] + before, size)]]
    /\ UNCHANGED pack

(***************************************************************************)
(* Packing the lengths: a length as it is, 16 for 3 to 6 repeats of the    *)
(* last, 17 and 18 for 3 to 10 and 11 to 138 zeros.                        *)
(***************************************************************************)
Put(p, sym, extra) == [p EXCEPT !.out = Append(@, <<sym, extra>>), !.counts[sym] = @ + 1]
PutTimes(p, sym, n) ==
    [p EXCEPT !.out = @ \o [i \in 1 .. n |-> <<sym, 0>>], !.counts[sym] = @ + n]

FlushRepeats(p) ==
    [(IF p.repeats = 0 THEN p
      ELSE IF p.repeats < 3 THEN PutTimes(p, p.prev, p.repeats)
      ELSE Put(p, 16, p.repeats - 3)) EXCEPT !.repeats = 0]
FlushZeros(p) ==
    [(IF p.zeros < 3 THEN PutTimes(p, 0, p.zeros)
      ELSE IF p.zeros <= 10 THEN Put(p, 17, p.zeros - 3)
      ELSE Put(p, 18, p.zeros - 11)) EXCEPT !.zeros = 0]

PackZero(p) ==
    LET q == [FlushRepeats(p) EXCEPT !.zeros = @ + 1]
    IN  IF q.zeros = 138 THEN FlushZeros(q) ELSE q
PackSize(p, size) ==
    LET q == FlushZeros(p)
        r == [q EXCEPT !.repeats = @ + 1]
    IN  IF size # p.prev THEN Put(FlushRepeats(q), size, 0)
        ELSE IF r.repeats = 6 THEN FlushRepeats(r) ELSE r

PackOne ==
    /\ pack.left # <<>>
    /\ LET size == Head(pack.left)
       IN  pack' = [(IF size = 0 THEN PackZero(pack) ELSE PackSize(pack, size))
                    EXCEPT !.left = Tail(@), !.prev = size]
    /\ UNCHANGED huff

PackRest ==
    /\ pack.left = <<>> /\ pack.repeats + pack.zeros > 0
    /\ pack' = IF pack.repeats > 0 THEN FlushRepeats(pack) ELSE FlushZeros(pack)
    /\ UNCHANGED huff

CodeNext ==
    \/ Sort \/ PairUp \/ RootHasDepthZero \/ NodeDepth \/ LeafDepth
    \/ CountSizes \/ Shorten \/ ShortEnough \/ GiveSizes \/ HandOutCodes

PackNext == PackOne \/ PackRest

HuffmanSpec == HuffmanInit /\ [][CodeNext \/ PackNext]_huffmanVars
=============================================================================
