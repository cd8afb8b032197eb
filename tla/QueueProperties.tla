--------------------------- MODULE QueueProperties ---------------------------
(* What the parts of moodycamel::ConcurrentQueue promise the dispatcher, the *)
(* buffer pool and the rotator, which rely on it: see SubQueue, FreeList and *)
(* Producers.                                                                *)
EXTENDS SubQueue, FreeList, Producers

(* What a consumer took out, or has claimed and will take.                   *)
Given == got \cup UNION {con[c].at + 1 .. con[c].end : c \in Consumers}
F == INSTANCE Fifo WITH sent <- tailIndex, gone <- headIndex, got <- Given

(* A sub-queue is a FIFO: its elements come out once each, the oldest first, *)
(* whatever consumers do at the same time, while blocks are emptied, used    *)
(* again and found through an index that grows (enqueue, dequeue).           *)
RefinesFifo == F!Spec

(* Blocks that a queue at rest needs: those with elements, and a partly      *)
(* filled last one.                                                          *)
Live == {Base(i) : i \in headIndex .. tailIndex - 1}
          \cup (IF Offset(tailIndex) # 0 THEN {Base(tailIndex)} ELSE {})

(* Nothing is lost: at rest every optimistic claim was honoured or paid      *)
(* back, an implicit producer keeps only the blocks it needs, and the        *)
(* destructor finds what was left and gives every block back (dequeue's      *)
(* overcommit, set_empty, ~ExplicitProducer, ~ImplicitProducer).             *)
Conserved ==
    /\ AtRest => dequeueOptimisticCount - dequeueOvercommit = headIndex
    /\ AtRest /\ ~isExplicit => Cardinality(Blocks \ free) = Cardinality(Live)
    /\ p.pc = "dead" => destroyed = headIndex + 1 .. tailIndex /\ free = Blocks

-----------------------------------------------------------------------------
Users(q) == {t \in Threads :
    \/ q \in listeners[t] \/ owned[t] = q
    \/ th[t].mine = q /\ th[t].pc \in {"push", "have", "insert", "copy", "put"}}

(* No two threads fill one sub-queue, which would break the FIFO, and one    *)
(* that nobody fills can be recycled; a thread finds its own again, in       *)
(* whatever table it is (get_or_add_implicit_producer, recycle_or_create_    *)
(* producer, implicit_producer_thread_exited).                               *)
ProducersOwnedOnce ==
    /\ \A q \in 1 .. producerCount :
         Cardinality(Users(q)) = IF prod[q].inactive THEN 0 ELSE 1
    /\ \A t \in Threads :
         /\ Cardinality(listeners[t]) <= 1
         /\ listeners[t] # {} /\ ThreadAt(t, "idle") =>
              FoundIn(t) # {} /\ Finds(Newest(FoundIn(t)), t) \in listeners[t]

(* The two kinds of things that the queue's threads share out.               *)
OwnedOnce == NodesOwnedOnce /\ ProducersOwnedOnce

(* A dequeue that finds nothing overlooked no producer that was on the list  *)
(* when it began and had an element all the while (try_dequeue,              *)
(* try_dequeue_bulk, with and without a token).                              *)
NotOverlooked == \A c \in Takers : InTake(c, "fail") => Call(c).steady = {}
=============================================================================
