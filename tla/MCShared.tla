------------------------------ MODULE MCShared ------------------------------
(* What threads share without a lock of their own: the three parts of the    *)
(* queue, and the registry of keys.  A behaviour exercises one of them, and  *)
(* the others rest in their first state.                                     *)
EXTENDS QueueProperties, KeyRegistry, TLC

VARIABLE part
CONSTANTS c1, c2

Budget(puts, takes1, takes2, fails) ==
    [puts |-> puts, takes |-> (c1 :> takes1) @@ (c2 :> takes2), fails |-> fails]
MCBudgets == {Budget(4, 0, 0, 0), Budget(3, 0, 0, 1), Budget(2, 1, 0, 0), Budget(1, 2, 1, 0)}
MCInternalKeys == <<"ts">>
MCBatches == {<<"a", "b">>, <<"b", "c", "ts">>}
OneBucket == [t \in Threads |-> 0]

MCInit ==
    /\ part \in {"sub-queue", "free list", "producers", "keys"}
    /\ SubQueueInit /\ FreeListInit /\ ProducersInit /\ KeyInit
    \* what does not matter begins in one way only
    /\ part # "sub-queue" => isExplicit
    /\ part # "producers" => bound = Budget(4, 0, 0, 0)
    /\ bound.takes[c2] = 0 => Token(c1).initialOffset = 1

MCNext ==
    /\ UNCHANGED part
    /\ \/ part = "sub-queue" /\ SubQueueNext
       \/ part # "sub-queue" /\ UNCHANGED subQueueVars
    /\ \/ part = "free list" /\ FreeListNext
       \/ part # "free list" /\ UNCHANGED freeListVars
    /\ \/ part = "producers" /\ ProducersNext
       \/ part # "producers" /\ UNCHANGED producersVars
    /\ \/ part = "keys" /\ KeyNext
       \/ part # "keys" /\ UNCHANGED keyVars

MCSpec == MCInit /\ [][MCNext]_<<part, subQueueVars, freeListVars, producersVars, keyVars>>

(* The threads of the free list are interchangeable, as are the blocks; its  *)
(* nodes, the consumers, the threads, which share a bucket, and those that   *)
(* register keys.                                                            *)
Symmetry == Permutations(Blocks) \cup Permutations(Consumers)
=============================================================================
