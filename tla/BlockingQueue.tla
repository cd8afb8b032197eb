---------------------------- MODULE BlockingQueue ----------------------------
(* moodycamel::BlockingConcurrentQueue: a lock-free queue whose elements are *)
(* counted by a LightweightSemaphore, which consumers wait on.  The count    *)
(* below zero is the number of threads that wait; only they use the system's *)
(* semaphore.  Of the inner queue there is the number of its elements.       *)
EXTENDS Naturals, Integers, FiniteSets

CONSTANTS Enqueuers, Waiters,
          MaxItems,  \* bound: elements enqueued
          MaxWaits,  \* bound: calls of each waiter
          MaxTake    \* bound: the max of bulk calls
ASSUME BlockingAssumption == IsFiniteSet(Enqueuers) /\ IsFiniteSet(Waiters) /\ MaxTake \in Nat

VARIABLES size,      \* elements in the inner queue
          m_count,
          m_sema,    \* permits of the system's semaphore
          epc,       \* where an enqueuer is: [pc, count]
          wait,      \* a waiter's call: [pc, max, timeout, seen, permits]
          sent, waits

blockingVars == <<size, m_count, m_sema, epc, wait, sent, waits>>

NoCall == [pc |-> "idle", max |-> 0, timeout |-> "none", seen |-> 0, permits |-> 0]

BlockingInit ==
    /\ size = 0 /\ m_count = 0 /\ m_sema = 0 /\ sent = 0
    /\ epc = [e \in Enqueuers |-> [pc |-> "idle", count |-> 0]]
    /\ wait = [w \in Waiters |-> NoCall]
    /\ waits = [w \in Waiters |-> 0]

Least(a, b) == IF a < b THEN a ELSE b

(* enqueue, enqueue_bulk: the elements, then the signal.                     *)
EnqueueItems(e) ==
    /\ epc[e].pc = "idle"
    /\ \E n \in 1 .. MaxTake :
         /\ sent + n <= MaxItems
         /\ size' = size + n /\ sent' = sent + n
         /\ epc' = [epc EXCEPT ![e] = [pc |-> "signal", count |-> n]]
    /\ UNCHANGED <<m_count, m_sema, wait, waits>>

(* signal(): as many as wait, and no more than come, are to be woken.        *)
ReleaseOne(old, count) == IF old < 0 THEN 1 ELSE 0  \* (mutant) one of those who wait
ToRelease(old, count) == Least(-old, count)
Signal(e) ==
    LET n == ToRelease(m_count, epc[e].count) IN
    /\ epc[e].pc = "signal"
    /\ m_count' = m_count + epc[e].count
    /\ epc' = [epc EXCEPT ![e] = IF n > 0 THEN [pc |-> "post", count |-> n]
                                 ELSE [pc |-> "idle", count |-> 0]]
    /\ UNCHANGED <<size, m_sema, wait, sent, waits>>

Post(e) ==
    /\ epc[e].pc = "post"
    /\ m_sema' = m_sema + epc[e].count
    /\ epc' = [epc EXCEPT ![e] = [pc |-> "idle", count |-> 0]]
    /\ UNCHANGED <<size, m_count, wait, sent, waits>>

-----------------------------------------------------------------------------
Call(w, call) == wait' = [wait EXCEPT ![w] = call]
Granted(w, n) == [wait[w] EXCEPT !.pc = "take", !.permits = n]

(* tryWait, tryWaitMany: what there is, up to max.                           *)
TryWaitMany(max) == IF m_count > 0 THEN Least(m_count, max) ELSE 0

TryDequeue(w) ==
    /\ wait[w].pc = "idle" /\ waits[w] < MaxWaits
    /\ waits' = [waits EXCEPT ![w] = @ + 1]
    /\ \E max \in 1 .. MaxTake :
         LET n == TryWaitMany(max) IN
         /\ m_count' = m_count - n
         /\ Call(w, IF n = 0 THEN NoCall ELSE [NoCall EXCEPT !.pc = "take", !.permits = n])
    /\ UNCHANGED <<size, m_sema, epc, sent>>

(* wait_dequeue and its variants: with a time limit, with none, with zero.   *)
WaitDequeue(w) ==
    /\ wait[w].pc = "idle" /\ waits[w] < MaxWaits
    /\ waits' = [waits EXCEPT ![w] = @ + 1]
    /\ \E max \in 1 .. MaxTake, timeout \in {"none", "some", "zero"} :
         Call(w, [NoCall EXCEPT !.pc = "spin", !.max = max, !.timeout = timeout])
    /\ UNCHANGED <<size, m_count, m_sema, epc, sent>>

(* One of the m_maxSpins attempts.                                           *)
SpinOnce(w) ==
    LET n == TryWaitMany(wait[w].max) IN
    /\ wait[w].pc = "spin" /\ n > 0
    /\ m_count' = m_count - n
    /\ Call(w, Granted(w, n))
    /\ UNCHANGED <<size, m_sema, epc, sent, waits>>

(* Enough: one permit, or a place among those who wait.                      *)
Register(w) ==
    /\ wait[w].pc = "spin"
    /\ m_count' = m_count - 1
    /\ Call(w, IF m_count > 0 THEN [wait[w] EXCEPT !.pc = "more", !.permits = 1]
               ELSE [wait[w] EXCEPT !.pc = IF wait[w].timeout = "zero" THEN "adjust" ELSE "asleep"])
    /\ UNCHANGED <<size, m_sema, epc, sent, waits>>

Woken(w) ==
    /\ wait[w].pc = "asleep" /\ m_sema > 0
    /\ m_sema' = m_sema - 1
    /\ Call(w, [wait[w] EXCEPT !.pc = "more", !.permits = 1])
    /\ UNCHANGED <<size, m_count, epc, sent, waits>>

TimesOut(w) ==
    /\ wait[w].pc = "asleep" /\ wait[w].timeout = "some"
    /\ Call(w, [wait[w] EXCEPT !.pc = "adjust"])
    /\ UNCHANGED <<size, m_count, m_sema, epc, sent, waits>>

(* Leaving without a permit: give the place back, unless it was signalled.   *)
Adjust(w) ==
    /\ wait[w].pc = "adjust"
    /\ Call(w, [wait[w] EXCEPT !.pc = "leave", !.seen = m_count])
    /\ UNCHANGED <<size, m_count, m_sema, epc, sent, waits>>

SignalledMeanwhile(w) ==
    /\ wait[w].pc = "leave" /\ wait[w].seen >= 0 /\ m_sema > 0
    /\ m_sema' = m_sema - 1
    /\ Call(w, [wait[w] EXCEPT !.pc = "more", !.permits = 1])
    /\ UNCHANGED <<size, m_count, epc, sent, waits>>

LeaveAnyway(w) ==  \* (mutant) a plain store where the code compares
    /\ wait[w].pc = "leave" /\ wait[w].seen < 0
    /\ m_count' = wait[w].seen + 1
    /\ Call(w, NoCall)
    /\ UNCHANGED <<size, m_sema, epc, sent, waits>>

Leave(w) ==
    /\ wait[w].pc = "leave" /\ wait[w].seen < 0 /\ m_count = wait[w].seen
    /\ m_count' = m_count + 1
    /\ Call(w, NoCall)
    /\ UNCHANGED <<size, m_sema, epc, sent, waits>>

LookAgain(w) ==
    /\ wait[w].pc = "leave"
    /\ IF wait[w].seen >= 0 THEN m_sema = 0 ELSE m_count # wait[w].seen
    /\ Call(w, [wait[w] EXCEPT !.pc = "adjust"])
    /\ UNCHANGED <<size, m_count, m_sema, epc, sent, waits>>

(* waitMany: having one, take what else there is.                            *)
TakeMore(w) ==
    LET n == TryWaitMany(wait[w].max - 1) IN
    /\ wait[w].pc = "more"
    /\ m_count' = m_count - n
    /\ Call(w, Granted(w, n + 1))
    /\ UNCHANGED <<size, m_sema, epc, sent, waits>>

(* With its permits a thread dequeues until it has as many elements; the     *)
(* inner queue may give fewer at a time.                                     *)
TakeItems(w) ==
    /\ wait[w].pc = "take"
    /\ \E n \in 1 .. Least(size, wait[w].permits) :
         /\ size' = size - n
         /\ Call(w, IF n = wait[w].permits THEN NoCall ELSE [wait[w] EXCEPT !.permits = @ - n])
    /\ UNCHANGED <<m_count, m_sema, epc, sent, waits>>

WaitSteps(w) == \/ SpinOnce(w) \/ Register(w) \/ Woken(w) \/ TimesOut(w) \/ Adjust(w)
                \/ SignalledMeanwhile(w) \/ Leave(w) \/ LookAgain(w) \/ TakeMore(w) \/ TakeItems(w)

BlockingNext ==
    \/ \E e \in Enqueuers : EnqueueItems(e) \/ Signal(e) \/ Post(e)
    \/ \E w \in Waiters : TryDequeue(w) \/ WaitDequeue(w) \/ WaitSteps(w)

(* Threads go on inside a call; a time limit passes in the end.              *)
BlockingFairness ==
    /\ \A e \in Enqueuers : WF_blockingVars(Signal(e) \/ Post(e))
    /\ \A w \in Waiters : WF_blockingVars(WaitSteps(w))

BlockingSpec == BlockingInit /\ [][BlockingNext]_blockingVars /\ BlockingFairness

-----------------------------------------------------------------------------
(* The sum of a function: as many pairs as it says for each element.         *)
Total(f) == Cardinality(UNION {{x} \X (1 .. f[x]) : x \in DOMAIN f})
Registered == {w \in Waiters : wait[w].pc \in {"asleep", "adjust", "leave"}}
InCall(pc) == Total([e \in Enqueuers |-> IF epc[e].pc = pc THEN epc[e].count ELSE 0])
Permits == Total([w \in Waiters |-> wait[w].permits])

(* Every element has one permit: one that is still to be signalled, counted, *)
(* on its way to a thread that waits, or in hand.  And every thread behind   *)
(* the count is owed a post, so that a timeout which races a signal neither  *)
(* loses a permit nor makes one (LightweightSemaphore::signal,               *)
(* waitManyWithPartialSpinning).                                             *)
PermitsBacked ==
    /\ size = Permits + InCall("signal") + m_count + Cardinality(Registered)
    /\ m_sema + InCall("post") = Cardinality(Registered) - (IF m_count < 0 THEN -m_count ELSE 0)
=============================================================================
