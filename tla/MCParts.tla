------------------------------- MODULE MCParts -------------------------------
(* The smaller parts, in one run: a behaviour exercises one of them, and the *)
(* others rest in their first state.                                         *)
EXTENDS PartsProperties, TLC

VARIABLE part

MCStatements == <<[module |-> "net", file |-> "f", line |-> 1, level |-> 0, length |-> 3],
                  [module |-> "generic", file |-> "g", line |-> 1, level |-> 1, length |-> 5]>>
SetAll(l) == [op |-> "all", level |-> l]
SetOne(n, l) == [op |-> "set", name |-> n, level |-> l]
MCConfigurations ==
    {<<SetAll(1)>>, <<SetAll(nolog)>>, <<SetOne("net", 0)>>,
     <<SetAll(0), [op |-> "wild", names |-> {"net", "generic"}, level |-> 1]>>,
     <<SetOne("net", 1), [op |-> "bad"]>>}

A == Char("a")
MCHeader == <<Char("h"), Char("h")>>
MCStrings == {<<A>>, <<A, Newline, A>>, <<Newline>>}
MCInternalPairs == << <<"lv", <<A>>>> >>
MCUserPairs == {<<"k", <<>>>>, <<"u", <<A>>>>, <<"u", <<Space, A>>>>}
MCDumps == {<<1, 1, 1, 2>>, <<1, 1, Short>>, <<1, 2, 1, 1, Short>>, <<2, 1, 1, 2, 2, 2, Short>>}
MCInlineDumps == {<<1, 2, 3, 4, 5>>, <<1, 2, 3>>}

(* Two hash functions, each with collisions and with shared cells.           *)
MCHash == (0 :> [a |-> 0, b |-> 0, c |-> 1, d |-> 0, e |-> 64])
          @@ (1 :> [a |-> 9, b |-> 2, c |-> 2, d |-> 7, e |-> 12])

(* Files that wrap the dictionary, defer a match for a longer one, do not    *)
(* compress at all, or compress so well that a block outlives its bytes.     *)
MCFiles == {<<>>, <<0>>, [i \in 1 .. 26 |-> 0], [i \in 1 .. 20 |-> 1 + (i % 9)],
            <<0, 2, 3, 0, 2, 3, 0, 2, 3, 0, 2, 0, 2, 3, 0, 2, 0, 2>>,
            <<0, 2, 0, 0, 2, 2, 0, 2, 0, 2, 0, 0, 0, 2, 0, 2, 2, 2, 0, 2, 0, 0, 2, 2>>,
            <<4, 2, 3, 1, 3, 1, 1, 4, 2, 3, 1, 1, 4>>,
            <<1, 1, 2, 3, 5, 8, 3, 1, 4, 5, 9, 4, 3, 7, 1, 1, 2, 3, 5, 8>>}

(* All small counts, and some that need the limit.                           *)
Counts(seq) == [s \in 0 .. Len(seq) - 1 |-> seq[s + 1]]
NoCounts == Counts(<<0>>)
MCSymbolCounts == {NoCounts} \cup [0 .. 3 -> {0, 1, 2, 5}]
                  \cup {Counts(<<1, 1, 2, 3, 5, 8, 13>>), Counts(<<15, 0, 1, 5, 1, 2, 1>>),
                        Counts(<<3, 3, 3, 1, 1>>)}

(* Runs at the ends of what 16, 17 and 18 can say.                           *)
Run(x, n) == [i \in 1 .. n |-> x]
MCSizeLists == {<<>>, Run(0, 138) \o Run(5, 4) \o Run(0, 11), Run(0, 141) \o Run(3, 1)}
               \cup {Run(4, n) \o Run(0, k) \o Run(x, 1) :
                        n \in {1, 3, 4, 6, 7, 8, 13}, k \in {2, 3, 10, 11}, x \in {0, 4}}
               \cup {Run(4, n) \o Run(5, k) : n \in {2, 7}, k \in {1, 3}}

Resting ==
    /\ part # "deflate" => source = <<>> /\ comp.greedy /\ comp.next[0] = 0
    /\ part # "codes" => huff.counts = NoCounts
    /\ part # "sizes" => pack.sizes = <<>>

MCInit ==
    /\ part \in {"semaphore", "exit", "levels", "line", "table", "erased", "deflate", "codes", "sizes"}
    /\ BlockingInit /\ ExitInit /\ LevelInit /\ LineInit /\ TableInit /\ ErasedInit
    /\ DeflateInit /\ HuffmanInit /\ Resting

MCNext ==
    /\ UNCHANGED part
    /\ \/ part = "semaphore" /\ BlockingNext
       \/ part # "semaphore" /\ UNCHANGED blockingVars
    /\ \/ part = "exit" /\ ExitNext
       \/ part # "exit" /\ UNCHANGED exitVars
    /\ \/ part = "levels" /\ LevelNext
       \/ part # "levels" /\ UNCHANGED levelVars
    /\ \/ part = "line" /\ LineNext
       \/ part # "line" /\ UNCHANGED lineVars
    /\ \/ part = "table" /\ TableNext
       \/ part # "table" /\ UNCHANGED tableVars
    /\ \/ part = "deflate" /\ DeflateNext
       \/ part # "deflate" /\ UNCHANGED deflateVars
    /\ \/ part = "codes" /\ CodeNext
       \/ part = "sizes" /\ PackNext
       \/ part \notin {"codes", "sizes"} /\ UNCHANGED huffmanVars
    /\ \/ part = "erased" /\ ErasedNext
       \/ part # "erased" /\ UNCHANGED erasedVars

MCSpec ==
    /\ MCInit
    /\ [][MCNext]_<<part, blockingVars, exitVars, levelVars, lineVars, tableVars, erasedVars,
                 deflateVars, huffmanVars>>
    /\ BlockingFairness /\ ExitFairness
=============================================================================
