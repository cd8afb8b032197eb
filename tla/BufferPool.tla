----------------------------- MODULE BufferPool -----------------------------
(***************************************************************************)
(* buffer_pool and log_buffer_base::release (log_buffer.hpp) one atomic     *)
(* operation at a time: any number of threads acquire and release buffers   *)
(* concurrently, each step is one operation on one atomic or on the queue   *)
(* of available buffers (moodycamel, external: a set, because threads       *)
(* release through queues of their own and the order across them is open).  *)
(*                                                                         *)
(* A buffer whose acquire() has returned is in `held'; it may be written    *)
(* and may be released by any thread, since lines hand buffers over to the  *)
(* dispatcher's worker.                                                     *)
(***************************************************************************)
EXTENDS Integers, FiniteSets

CONSTANTS Threads,      \* threads of the application and of the library
          Buffers,      \* the BUFFER_POOL_SIZE buffers
          NoBuf,        \* nullptr
          Reliable,     \* SLWOGGY_RELIABLE_DELIVERY
          MaxAcquires,  \* bound: calls of acquire()
          MaxResets     \* bound: calls of reset_stats()

ASSUME BufferPoolAssumption ==
    /\ IsFiniteSet(Buffers) /\ IsFiniteSet(Threads)
    /\ NoBuf \notin Buffers
    /\ Reliable \in BOOLEAN
    /\ MaxAcquires \in Nat
    /\ MaxResets \in Nat

VARIABLES available,         \* available_buffers_
          held,              \* buffers acquired and not yet given to release()
          dirty,             \* buffers with content: level set or text written
          ref,               \* ref_count_
          pending,           \* pending_failure_report_
          acquire_failures,  \* statistics ...
          total_acquires,
          total_releases,
          buffers_in_use,
          high_water_mark,
          pc,                \* where each thread is in acquire() or release()
          hand,              \* the buffer a thread is acquiring or releasing
          in_use,            \* acquire()'s local in_use
          current_hwm,       \* acquire()'s local current_hwm
          begun,             \* calls of acquire() so far (for the bound)
          resets,            \* calls of reset_stats() so far (for the bound)
          peak               \* history: the most buffers_in_use ever was

stats == <<acquire_failures, total_acquires, total_releases>>
gauge == <<buffers_in_use, high_water_mark, in_use, current_hwm, peak>>
bounds == <<begun, resets>>
vars == <<available, held, dirty, ref, pending, stats, gauge, pc, hand, bounds>>

Acquiring == {"add_ref", "count", "load_hwm", "cas_hwm"}
Releasing == {"reset", "released", "uncount", "enqueue"}
PCs == {"idle", "dequeue", "failed", "failed_stat"} \cup Acquiring \cup Releasing

Goto(t, label) == pc' = [pc EXCEPT ![t] = label]

Init == /\ available = Buffers
        /\ held = {}
        /\ dirty = {}
        /\ ref = [b \in Buffers |-> 0]
        /\ pending = 0
        /\ acquire_failures = 0 /\ total_acquires = 0 /\ total_releases = 0
        /\ buffers_in_use = 0 /\ high_water_mark = 0 /\ peak = 0
        /\ pc = [t \in Threads |-> "idle"]
        /\ hand = [t \in Threads |-> NoBuf]
        /\ in_use = [t \in Threads |-> 0]
        /\ current_hwm = [t \in Threads |-> 0]
        /\ begun = 0 /\ resets = 0

-----------------------------------------------------------------------------
(* acquire() *)

BeginAcquire(t) == /\ pc[t] = "idle"
                   /\ begun < MaxAcquires
                   /\ begun' = begun + 1
                   /\ total_acquires' = total_acquires + 1
                   /\ Goto(t, "dequeue")
                   /\ UNCHANGED <<available, held, dirty, ref, pending, gauge, hand,
                                  acquire_failures, total_releases, resets>>

DequeueAll(t, b) ==  \* (mutant) the rest of the queue is thrown away
    /\ pc[t] = "dequeue"
    /\ b \in available
    /\ available' = {}
    /\ hand' = [hand EXCEPT ![t] = b]
    /\ Goto(t, "add_ref")
    /\ UNCHANGED <<held, dirty, ref, pending, stats, gauge, bounds>>

(* wait_dequeue, or a try_dequeue that finds a buffer. *)
Dequeue(t, b) == /\ pc[t] = "dequeue"
                 /\ b \in available
                 /\ available' = available \ {b}
                 /\ hand' = [hand EXCEPT ![t] = b]
                 /\ Goto(t, "add_ref")
                 /\ UNCHANGED <<held, dirty, ref, pending, stats, gauge, bounds>>

(* try_dequeue on the empty queue: acquire() will return nullptr. *)
DequeueFails(t) == /\ pc[t] = "dequeue"
                   /\ ~Reliable
                   /\ available = {}
                   /\ Goto(t, "failed")
                   /\ UNCHANGED <<available, held, dirty, ref, pending, stats, gauge,
                                  hand, bounds>>

CountPending(t) == /\ pc[t] = "failed"
                   /\ pending' = pending + 1
                   /\ Goto(t, "failed_stat")
                   /\ UNCHANGED <<available, held, dirty, ref, stats, gauge, hand, bounds>>

CountFailure(t) == /\ pc[t] = "failed_stat"
                   /\ acquire_failures' = acquire_failures + 1
                   /\ Goto(t, "idle")
                   /\ UNCHANGED <<available, held, dirty, ref, pending, gauge, hand,
                                  total_acquires, total_releases, bounds>>

AddRef(t) == /\ pc[t] = "add_ref"
             /\ ref' = [ref EXCEPT ![hand[t]] = @ + 1]
             /\ Goto(t, "count")
             /\ UNCHANGED <<available, held, dirty, pending, stats, gauge, hand, bounds>>

CountInUse(t) ==
    /\ pc[t] = "count"
    /\ buffers_in_use' = buffers_in_use + 1
    /\ in_use' = [in_use EXCEPT ![t] = buffers_in_use + 1]
    /\ peak' = IF buffers_in_use + 1 > peak THEN buffers_in_use + 1 ELSE peak
    /\ Goto(t, "load_hwm")
    /\ UNCHANGED <<available, held, dirty, ref, pending, stats, hand,
                   high_water_mark, current_hwm, bounds>>

LoadHwm(t) == /\ pc[t] = "load_hwm"
              /\ current_hwm' = [current_hwm EXCEPT ![t] = high_water_mark]
              /\ Goto(t, "cas_hwm")
              /\ UNCHANGED <<available, held, dirty, ref, pending, stats, hand,
                             buffers_in_use, high_water_mark, in_use, peak, bounds>>

Return(t) == /\ Goto(t, "idle")
             /\ held' = held \cup {hand[t]}
             /\ hand' = [hand EXCEPT ![t] = NoBuf]

CasHwmOnce(t) ==  \* (mutant) no retry after a failed exchange
    /\ pc[t] = "cas_hwm"
    /\ Return(t)
    /\ high_water_mark' = IF in_use[t] > current_hwm[t] /\ high_water_mark = current_hwm[t]
                             THEN in_use[t] ELSE high_water_mark
    /\ UNCHANGED <<available, dirty, ref, pending, stats, buffers_in_use, in_use,
                   current_hwm, peak, bounds>>

(* One turn of the high water loop: leave it, exchange, or fail (also       *)
(* spuriously: compare_exchange_weak) and reload.                           *)
CasHwm(t) ==
    /\ pc[t] = "cas_hwm"
    /\ \/ /\ in_use[t] <= current_hwm[t]
          /\ Return(t)
          /\ UNCHANGED <<high_water_mark, current_hwm>>
       \/ /\ in_use[t] > current_hwm[t]
          /\ high_water_mark = current_hwm[t]
          /\ high_water_mark' = in_use[t]
          /\ Return(t)
          /\ UNCHANGED current_hwm
       \/ /\ in_use[t] > current_hwm[t]
          /\ current_hwm' = [current_hwm EXCEPT ![t] = high_water_mark]
          /\ UNCHANGED <<pc, held, hand, high_water_mark>>
    /\ UNCHANGED <<available, dirty, ref, pending, stats, buffers_in_use, in_use,
                   peak, bounds>>

-----------------------------------------------------------------------------
(* The owner of a buffer writes it. *)

Write(b) == /\ b \in held
            /\ dirty' = dirty \cup {b}
            /\ UNCHANGED <<available, held, ref, pending, stats, gauge, pc, hand, bounds>>

DropRefAtZero(t, b) ==  \* (mutant) compares the old count with zero
    /\ pc[t] = "idle"
    /\ b \in held
    /\ held' = held \ {b}
    /\ ref' = [ref EXCEPT ![b] = @ - 1]
    /\ \/ ref[b] = 0 /\ hand' = [hand EXCEPT ![t] = b] /\ Goto(t, "reset")
       \/ ref[b] # 0 /\ UNCHANGED <<hand, pc>>
    /\ UNCHANGED <<available, dirty, pending, stats, gauge, bounds>>

(* log_buffer_base::release(): only the call that finds the count at one    *)
(* resets the buffer and returns it.                                        *)
DropRef(t, b) == /\ pc[t] = "idle"
                 /\ b \in held
                 /\ held' = held \ {b}
                 /\ ref' = [ref EXCEPT ![b] = @ - 1]
                 /\ \/ /\ ref[b] = 1
                       /\ hand' = [hand EXCEPT ![t] = b]
                       /\ Goto(t, "reset")
                    \/ /\ ref[b] # 1
                       /\ UNCHANGED <<hand, pc>>
                 /\ UNCHANGED <<available, dirty, pending, stats, gauge, bounds>>

NoReset(t) ==  \* (mutant) the buffer goes back with its content
    /\ pc[t] = "reset"
    /\ Goto(t, "released")
    /\ UNCHANGED <<available, held, dirty, ref, pending, stats, gauge, hand, bounds>>

Reset(t) == /\ pc[t] = "reset"
            /\ dirty' = dirty \ {hand[t]}
            /\ Goto(t, "released")
            /\ UNCHANGED <<available, held, ref, pending, stats, gauge, hand, bounds>>

CountRelease(t) == /\ pc[t] = "released"
                   /\ total_releases' = total_releases + 1
                   /\ Goto(t, "uncount")
                   /\ UNCHANGED <<available, held, dirty, ref, pending, gauge, hand,
                                  acquire_failures, total_acquires, bounds>>

UncountInUse(t) == /\ pc[t] = "uncount"
                   /\ buffers_in_use' = buffers_in_use - 1
                   /\ Goto(t, "enqueue")
                   /\ UNCHANGED <<available, held, dirty, ref, pending, stats, hand,
                                  high_water_mark, in_use, current_hwm, peak, bounds>>

Enqueue(t) == /\ pc[t] = "enqueue"
              /\ available' = available \cup {hand[t]}
              /\ hand' = [hand EXCEPT ![t] = NoBuf]
              /\ Goto(t, "idle")
              /\ UNCHANGED <<held, dirty, ref, pending, stats, gauge, bounds>>

-----------------------------------------------------------------------------
(* reset_stats() and the worker's reset_pending_failures() *)

ResetStats == /\ resets < MaxResets
              /\ resets' = resets + 1
              /\ total_acquires' = 0 /\ total_releases' = 0 /\ acquire_failures' = 0
              /\ UNCHANGED <<available, held, dirty, ref, pending, gauge, pc, hand, begun>>

ResetPendingFailures ==
    /\ pending' = 0
    /\ UNCHANGED <<available, held, dirty, ref, stats, gauge, pc, hand, bounds>>

Step(t) == \/ BeginAcquire(t)
           \/ \E b \in Buffers : Dequeue(t, b) \/ DropRef(t, b)
           \/ DequeueFails(t) \/ CountPending(t) \/ CountFailure(t)
           \/ AddRef(t) \/ CountInUse(t) \/ LoadHwm(t) \/ CasHwm(t)
           \/ Reset(t) \/ CountRelease(t) \/ UncountInUse(t) \/ Enqueue(t)

Next == \/ \E t \in Threads : Step(t)
        \/ \E b \in Buffers : Write(b)
        \/ ResetStats
        \/ ResetPendingFailures

Spec == Init /\ [][Next]_vars

-----------------------------------------------------------------------------
(* Types of all variables of log_buffer.hpp's pool. *)
TypeOK == /\ available \subseteq Buffers
          /\ held \subseteq Buffers
          /\ dirty \subseteq Buffers
          /\ ref \in [Buffers -> Int]
          /\ pending \in Nat
          /\ acquire_failures \in Nat /\ total_acquires \in Nat /\ total_releases \in Nat
          /\ buffers_in_use \in Int
          /\ high_water_mark \in Int /\ peak \in Int
          /\ pc \in [Threads -> PCs]
          /\ hand \in [Threads -> Buffers \cup {NoBuf}]
          /\ in_use \in [Threads -> Int]
          /\ current_hwm \in [Threads -> Int]
          /\ begun \in 0..MaxAcquires /\ resets \in 0..MaxResets

(* Every buffer is in exactly one place: available, held by the             *)
(* application, or in the hand of one thread inside acquire() or release(); *)
(* none is lost and none is handed out twice.                               *)
Ownership ==
    /\ available \cap held = {}
    /\ \A t \in Threads : /\ hand[t] \in Buffers <=> pc[t] \in Acquiring \cup Releasing
                          /\ hand[t] \notin available \cup held
    /\ \A t, u \in Threads : hand[t] = hand[u] /\ hand[t] # NoBuf => t = u
    /\ \A b \in Buffers : b \in available \cup held \/ \E t \in Threads : hand[t] = b

(* The reference count tells the owner: one from add_ref() to the last      *)
(* release(), zero otherwise, so the "== 1" of release() never misses the   *)
(* last reference and never fires for another one.                          *)
RefCounts ==
    /\ \A b \in available : ref[b] = 0
    /\ \A b \in held : ref[b] = 1
    /\ \A t \in Threads : pc[t] \in Acquiring \cup Releasing =>
          ref[hand[t]] = IF pc[t] \in Acquiring \ {"add_ref"} THEN 1 ELSE 0

(* Through every interleaving of acquire() and release(), each buffer has   *)
(* one owner and its count says which: the state from which release()       *)
(* decides that a reference was the last.                                   *)
BuffersSound == TypeOK /\ Ownership /\ RefCounts

(* A buffer comes out of the pool empty: flush() recognises its marker by   *)
(* the absence of content, so a stale buffer would turn a marker into a     *)
(* message.                                                                 *)
AvailableClean == \A b \in dirty :
    /\ b \notin available
    /\ \A t \in Threads : hand[t] = b => pc[t] = "reset"

(* The buffers the in-use gauge counts: add_ref'ed and counted, and not     *)
(* uncounted yet.                                                           *)
Counted == held \cup {hand[t] : t \in {u \in Threads :
              pc[u] \in {"load_hwm", "cas_hwm", "reset", "released", "uncount"}}}

(* get_stats() subtracts buffers_in_use_ from the pool size: the gauge is   *)
(* exact in every interleaving, so the unsigned difference cannot wrap,     *)
(* and reset_stats() may run at any time without disturbing it.             *)
InUseExact == buffers_in_use = Cardinality(Counted)

(* Once no acquire() is in its loop, the high water mark is the most        *)
(* buffers that were ever in use: no concurrent exchange loses a maximum.   *)
HighWaterExact == (\A t \in Threads : pc[t] \notin {"load_hwm", "cas_hwm"}) =>
                      high_water_mark = peak

(* The gauge and its maximum, which get_stats() reports, are exact while    *)
(* threads acquire and release and somebody resets the statistics.          *)
StatsExact == InUseExact /\ HighWaterExact

(* Between calls, the statistics add up.                                    *)
StatsBalance ==
    (resets = 0 /\ \A t \in Threads : pc[t] = "idle") =>
        total_acquires = acquire_failures + total_releases + buffers_in_use

(* The pool as the rest of the library sees it: acquire() takes effect at   *)
(* the dequeue, release() at the enqueue.                                   *)
Abstract == INSTANCE Pool WITH
    avail <- [b \in Buffers |-> IF b \in available THEN 1 ELSE 0],
    ref   <- [b \in Buffers |-> IF b \in available THEN 0 ELSE 1]

(* Every step of acquire() and release(), in any interleaving, is one step  *)
(* of the abstract pool or invisible to it.                                 *)
RefinesPool == Abstract!PoolSpec
=============================================================================
