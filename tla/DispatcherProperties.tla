------------------------ MODULE DispatcherProperties ------------------------
(* What the asynchronous core of slwoggy should guarantee.                  *)
EXTENDS Dispatcher

(* Types of the dispatcher's variables.                                     *)
DispatcherTypeOK ==
    /\ avail \in [Buffers -> Nat] /\ ref \in [Buffers -> Int]
    /\ pending \in Nat /\ sema \in Nat
    /\ line \in [Threads -> Buffers \cup {NoBuf}]
    /\ hand \in [Threads -> Buffers \cup {NoBuf}]
    /\ q \in [Producers -> Seq(Buffers \cup {Null})]
    /\ batch \in Seq(Buffers \cup {Null}) /\ Len(batch) <= MaxBatch
    /\ flush_mutex_ \in Threads \cup {NoThread}
    /\ sink_modify_mutex_ \in Threads \cup {NoThread}
    /\ parked \subseteq Threads
    /\ shutdown_ \in BOOLEAN /\ should_shutdown \in BOOLEAN
    /\ flush_seq_ \in Nat /\ flush_done_ \in Nat /\ flush_requested \in Nat
    /\ current_sinks_ \in Nat /\ config \in Nat

Occurrences(b, s) == Cardinality({i \in DOMAIN s : s[i] = b})

(* The places in the queue: a producer and a position in its FIFO.          *)
Places == UNION {{k} \X DOMAIN q[k] : k \in Producers}
At(p) == q[p[1]][p[2]]

(* How many owners a buffer has: the pool, a line, a thread between         *)
(* swap_buffer or acquire and enqueue, the queue, the worker.               *)
Owners(b) ==
    avail[b]
    + Cardinality({t \in Threads : line[t] = b})
    + Cardinality({t \in Threads : hand[t] = b})
    + Cardinality({p \in Places : At(p) = b})
    + Occurrences(b, batch)
    + IF warning = b THEN 1 ELSE 0

(* Every buffer has exactly one owner, its reference count says whether     *)
(* that is the pool, and a buffer in the pool is empty: through swap, two   *)
(* FIFOs, batches and releases nothing is leaked, released twice or used    *)
(* by two.                                                                  *)
BuffersConserved ==
    /\ DispatcherTypeOK
    /\ \A b \in Buffers : /\ Owners(b) = 1
                          /\ ref[b] = 1 - avail[b]
                          /\ avail[b] = 1 => content[b] = NoMsg

(* While the dispatcher runs, what a thread enqueued is what the sinks      *)
(* were given, then what the worker has in its batch, then what waits in    *)
(* the thread's FIFO: nothing lost, duplicated or out of order.             *)
DeliveryExact ==
    \A t \in Threads :
        accepted[t] = handled[t] \o NumbersOf(t, batch) \o NumbersOf(t, q[Explicit(t)])

(* Also across shutdown: a thread's messages are handled in the order it    *)
(* logged them and none twice (README: "Log order preserved within each     *)
(* thread").                                                                *)
HandledInOrder ==
    \A t \in Threads : \A i, j \in DOMAIN handled[t] :
        i < j => handled[t][i] < handled[t][j]

(* The worker's loop is about to use the configuration it loaded.           *)
UsingSinks == \/ wpc = "warn"
              \/ /\ wpc \in {"process", "drain_process"}
                 /\ batch # <<>>
                 /\ \/ IsMessage(Head(batch))
                    \/ Head(batch) = Null /\ Len(batch) > 1 /\ wpc = "process"

(* A configuration is not deleted under the worker ("flush to ensure worker *)
(* thread is done with old config").                                        *)
SinksAlwaysAlive == UsingSinks => config \in Alive

(* As long as flush() has found a buffer for its marker, that is so, with   *)
(* any number of concurrent flushes competing for tickets.                  *)
SinksAlive == misses = 0 => SinksAlwaysAlive

Markers(s) == Cardinality({i \in DOMAIN s : IsMarker(s[i])})

MarkersQueued == {p \in Places : IsMarker(At(p))}

(* Every ticket handed out is counted done, or its marker is on the way:    *)
(* otherwise some flush() waits forever or returns for another's marker.    *)
(* And no thread sleeps in flush_cv_.wait once its ticket is done, unless   *)
(* the worker is about to wake it: there is no lost wakeup.                 *)
TicketsAccounted ==
    /\ flush_seq_ = flush_done_ + flush_requested + Markers(batch)
                    + Cardinality(MarkersQueued)
                    + Cardinality({t \in Threads : pc[t] = "lock"})
    /\ \A t \in parked : Done(t) => wpc = "notify"

(* After shutdown(true) has joined the worker, what was accepted has been   *)
(* handled or still waits, in order, in the thread's FIFO for restart().    *)
NothingStranded ==
    wpc = "exited" =>
        \A t \in Threads : accepted[t] = handled[t] \o NumbersOf(t, q[Explicit(t)])

(* release() "ensures proper reference counting and buffer lifecycle        *)
(* management": no buffer is released more often than it was acquired.      *)
NeverReleasedTwice == \A b \in Buffers : ref[b] >= 0

-----------------------------------------------------------------------------
FlushReturning(t) == pc[t] \in {"wait", "parked"} /\ pc'[t] = "idle"

(* flush() is "Flush pending logs": when it returns, what its caller logged *)
(* before it has been handled.                                              *)
FlushComplete ==
    [][\A t \in Threads : FlushReturning(t) => Len(handled[t]) = Len(accepted[t])]_vars

(* flush() comes back, also when it is competing with others or its caller  *)
(* is changing the sinks; and a line that is being dispatched gets through, *)
(* however short the pool is: with reliable delivery there is "no log loss  *)
(* under high load".                                                        *)
CallsReturn == \A t \in Threads :
    /\ pc[t] = "flush" ~> pc[t] \in {"idle", "delete"}
    /\ pc[t] = "swap" ~> pc[t] \in {"writing", "idle"}

(* shutdown(true) comes back: the worker finds the sentinel, drains and     *)
(* exits in spite of lines that are still being enqueued.                   *)
ShutdownReturns == cpc = "enqueue" ~> cpc = "down"

(* While it runs, the dispatcher is a lossless FIFO per thread that handles *)
(* every message in the end.                                                *)
Delivery == INSTANCE LogDelivery
RefinesLogDelivery == Delivery!Spec
=============================================================================
