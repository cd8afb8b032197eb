------------------------------ MODULE FreeList ------------------------------
(* The lock-free free list of moodycamel::ConcurrentQueue, on which blocks   *)
(* that nobody uses wait: a stack whose nodes count the threads that look at *)
(* them, so that a node's successor is read only while it cannot change.     *)
EXTENDS Naturals, FiniteSets

CONSTANTS FreeThreads, Nodes, Null,
          MaxCalls   \* bound: calls of add() and try_get()
ASSUME FreeListAssumption == IsFiniteSet(FreeThreads) /\ IsFiniteSet(Nodes) /\ Null \notin Nodes

VARIABLES freeListHead,
          freeListRefs, \* the number, and whether SHOULD_BE_ON_FREELIST is set
          freeListNext,
          loc,          \* each thread's locals, `pc' among them
          hold,         \* the nodes a thread owns
          unmade,       \* nodes nobody has allocated yet
          calls

freeListVars == <<freeListHead, freeListRefs, freeListNext, loc, hold, unmade, calls>>

Ref(count, should) == [count |-> count, should |-> should]
Idle == [pc |-> "idle", node |-> Null, head |-> Null, seen |-> Ref(0, FALSE), next |-> Null,
         getting |-> FALSE]

FreeListInit ==
    /\ freeListHead = Null
    /\ freeListRefs = [n \in Nodes |-> Ref(0, FALSE)]
    /\ freeListNext = [n \in Nodes |-> Null]
    /\ loc = [t \in FreeThreads |-> Idle]
    /\ hold = [t \in FreeThreads |-> {}]
    /\ unmade = Nodes
    /\ calls = 0

In(t, pc) == loc[t].pc = pc
Local(t, l) == loc' = [loc EXCEPT ![t] = l]

(* create<Block>(): what a thread does when the list is empty.               *)
Allocate(t, n) ==
    /\ In(t, "idle") /\ n \in unmade
    /\ unmade' = unmade \ {n}
    /\ hold' = [hold EXCEPT ![t] = @ \cup {n}]
    /\ UNCHANGED <<freeListHead, freeListRefs, freeListNext, loc, calls>>

(* The flag first; who finds no references goes on to the list.              *)
Add(t, n) ==
    /\ In(t, "idle") /\ n \in hold[t] /\ calls < MaxCalls
    /\ calls' = calls + 1
    /\ hold' = [hold EXCEPT ![t] = @ \ {n}]
    /\ freeListRefs' = [freeListRefs EXCEPT ![n].should = TRUE]
    /\ Local(t, IF freeListRefs[n].count = 0 THEN [Idle EXCEPT !.pc = "load", !.node = n] ELSE Idle)
    /\ UNCHANGED <<freeListHead, freeListNext, unmade>>

(* add_knowing_refcount_is_zero, one access at a time.                       *)
LoadHead(t) ==
    /\ In(t, "load")
    /\ Local(t, [loc[t] EXCEPT !.pc = "link", !.next = freeListHead])
    /\ UNCHANGED <<freeListHead, freeListRefs, freeListNext, hold, unmade, calls>>

LinkNode(t) ==
    /\ In(t, "link")
    /\ freeListNext' = [freeListNext EXCEPT ![loc[t].node] = loc[t].next]
    /\ Local(t, [loc[t] EXCEPT !.pc = "refs"])
    /\ UNCHANGED <<freeListHead, freeListRefs, hold, unmade, calls>>

StoreRefs(t) ==
    /\ In(t, "refs")
    /\ freeListRefs' = [freeListRefs EXCEPT ![loc[t].node] = Ref(1, FALSE)]
    /\ Local(t, [loc[t] EXCEPT !.pc = "push"])
    /\ UNCHANGED <<freeListHead, freeListNext, hold, unmade, calls>>

AfterAdd(t) == IF loc[t].getting THEN [loc[t] EXCEPT !.pc = "look", !.node = Null] ELSE Idle

PushNode(t) ==
    /\ In(t, "push")
    /\ IF freeListHead = loc[t].next
       THEN freeListHead' = loc[t].node /\ Local(t, AfterAdd(t))
       ELSE /\ UNCHANGED freeListHead
            /\ Local(t, [loc[t] EXCEPT !.pc = "unref", !.next = freeListHead])
    /\ UNCHANGED <<freeListRefs, freeListNext, hold, unmade, calls>>

(* The head has changed: leave the node to who drops the last reference,     *)
(* unless that is this thread.                                               *)
DropAddRef(t) ==
    LET n == loc[t].node IN
    /\ In(t, "unref")
    /\ freeListRefs' = [freeListRefs EXCEPT ![n] = Ref(@.count - 1, TRUE)]
    /\ Local(t, IF freeListRefs[n] = Ref(1, FALSE) THEN [loc[t] EXCEPT !.pc = "link"] ELSE AfterAdd(t))
    /\ UNCHANGED <<freeListHead, freeListNext, hold, unmade, calls>>

AddKnowingRefcountIsZero(t) ==
    LoadHead(t) \/ LinkNode(t) \/ StoreRefs(t) \/ PushNode(t) \/ DropAddRef(t)

TryGet(t) ==
    /\ In(t, "idle") /\ calls < MaxCalls
    /\ calls' = calls + 1
    /\ Local(t, [Idle EXCEPT !.pc = "look", !.head = freeListHead, !.getting = TRUE])
    /\ UNCHANGED <<freeListHead, freeListRefs, freeListNext, hold, unmade>>

(* Null: the list is empty.  Otherwise see whether the head is referenced.   *)
LookAtRefs(t) ==
    /\ In(t, "look")
    /\ Local(t, IF loc[t].head = Null THEN Idle
                ELSE [loc[t] EXCEPT !.pc = "ref", !.seen = freeListRefs[loc[t].head]])
    /\ UNCHANGED <<freeListHead, freeListRefs, freeListNext, hold, unmade, calls>>

CanRef(t) == loc[t].seen.count # 0 /\ freeListRefs[loc[t].head] = loc[t].seen

TakeRef(t) ==
    /\ In(t, "ref") /\ CanRef(t)
    /\ freeListRefs' = [freeListRefs EXCEPT ![loc[t].head].count = @ + 1]
    /\ Local(t, [loc[t] EXCEPT !.pc = "next"])
    /\ UNCHANGED <<freeListHead, freeListNext, hold, unmade, calls>>

StartAgain(t) ==
    /\ In(t, "ref") /\ ~CanRef(t)
    /\ Local(t, [loc[t] EXCEPT !.pc = "look", !.head = freeListHead])
    /\ UNCHANGED <<freeListHead, freeListRefs, freeListNext, hold, unmade, calls>>

ReadNext(t) ==
    /\ In(t, "next")
    /\ Local(t, [loc[t] EXCEPT !.pc = "pop", !.next = freeListNext[loc[t].head]])
    /\ UNCHANGED <<freeListHead, freeListRefs, freeListNext, hold, unmade, calls>>

PopNode(t) ==
    /\ In(t, "pop")
    /\ IF freeListHead = loc[t].head
       THEN freeListHead' = loc[t].next /\ Local(t, [loc[t] EXCEPT !.pc = "own"])
       ELSE /\ UNCHANGED freeListHead
            /\ Local(t, [loc[t] EXCEPT !.pc = "drop", !.node = loc[t].head, !.head = freeListHead])
    /\ UNCHANGED <<freeListRefs, freeListNext, hold, unmade, calls>>

(* This thread's reference and the list's.                                   *)
OwnNode(t) ==
    /\ In(t, "own")
    /\ freeListRefs' = [freeListRefs EXCEPT ![loc[t].head].count = @ - 2]
    /\ hold' = [hold EXCEPT ![t] = @ \cup {loc[t].head}]
    /\ Local(t, Idle)
    /\ UNCHANGED <<freeListHead, freeListNext, unmade, calls>>

(* Somebody else got the node; if it is to go back, and this is the last     *)
(* reference, put it back.                                                   *)
DropRefOnly(t) ==  \* (mutant) nobody puts the node back
    /\ In(t, "drop")
    /\ freeListRefs' = [freeListRefs EXCEPT ![loc[t].node].count = @ - 1]
    /\ Local(t, [loc[t] EXCEPT !.pc = "look", !.node = Null])
    /\ UNCHANGED <<freeListHead, freeListNext, hold, unmade, calls>>

DropRef(t) ==
    LET n == loc[t].node IN
    /\ In(t, "drop")
    /\ freeListRefs' = [freeListRefs EXCEPT ![n].count = @ - 1]
    /\ Local(t, IF freeListRefs[n] = Ref(1, TRUE) THEN [loc[t] EXCEPT !.pc = "load"]
                ELSE [loc[t] EXCEPT !.pc = "look", !.node = Null])
    /\ UNCHANGED <<freeListHead, freeListNext, hold, unmade, calls>>

TryGetSteps(t) == \/ LookAtRefs(t) \/ TakeRef(t) \/ StartAgain(t) \/ ReadNext(t)
                  \/ PopNode(t) \/ OwnNode(t) \/ DropRef(t)

FreeListNext == \E t \in FreeThreads :
    \/ \E n \in Nodes : Allocate(t, n) \/ Add(t, n)
    \/ TryGet(t) \/ AddKnowingRefcountIsZero(t) \/ TryGetSteps(t)

FreeListSpec == FreeListInit /\ [][FreeListNext]_freeListVars

-----------------------------------------------------------------------------
(* The nodes from h on are those in every set that has h and, of each of its *)
(* nodes, the next.                                                          *)
Closed(S) == \A n \in S : freeListNext[n] \in S \cup {Null}
From(h) == {n \in Nodes : \A S \in SUBSET Nodes : Closed(S) /\ h \in S \cup {Null} => n \in S}
Listed == From(freeListHead)
Holders(n) == {t \in FreeThreads : n \in hold[t] \/ (In(t, "own") /\ loc[t].head = n)}
Quiet == \A t \in FreeThreads : In(t, "idle")

(* A node of the free list has one owner, a thread or the list; the list     *)
(* ends; when no call is under way no node is lost between two threads that  *)
(* each left it to the other, and its counter is as for a fresh one          *)
(* (FreeList::add, try_get).                                                 *)
NodesOwnedOnce ==
    /\ \A n \in Nodes : Cardinality(Holders(n)) <= 1
    /\ \A n \in Listed : Holders(n) = {}
    /\ Listed # {} => \E n \in Listed : freeListNext[n] = Null
    /\ Quiet => \A n \in Nodes :
         /\ n \in Listed <=> (Holders(n) = {} /\ n \notin unmade)
         /\ freeListRefs[n] = Ref(IF n \in Listed THEN 1 ELSE 0, FALSE)
=============================================================================
