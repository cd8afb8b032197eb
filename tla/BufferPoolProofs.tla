--------------------------- MODULE BufferPoolProofs ---------------------------
(***************************************************************************)
(* Proofs about the buffer pool, for any number of threads and buffers:     *)
(* ownership and reference counts, the gauge and its maximum, and the       *)
(* refinement of Pool.                                                      *)
(***************************************************************************)
EXTENDS BufferPool, FiniteSetTheorems, TLAPS

(* Ownership and RefCounts support each other: a release() finds the count  *)
(* at one because nobody else holds the buffer, and nobody else holds it    *)
(* because the count brings it back once.  With the types they are          *)
(* inductive.                                                               *)
Inv == TypeOK /\ Ownership /\ RefCounts

LEMMA InitInv == Init => Inv
  BY BufferPoolAssumption DEF Init, Inv, TypeOK, Ownership, RefCounts, PCs, Acquiring, Releasing

(* The actions that move a buffer from one place to another.                *)
LEMMA DequeueInv == ASSUME NEW t \in Threads, NEW b \in Buffers, Inv, Dequeue(t, b)
                    PROVE  Inv'
<1> USE BufferPoolAssumption
<1>1. TypeOK'
  BY DEF Inv, TypeOK, Dequeue, Goto, stats, gauge, bounds, PCs, Acquiring
<1>2. Ownership'
  BY DEF Inv, TypeOK, Ownership, Dequeue, Goto, stats, gauge, bounds, Acquiring, Releasing
<1>3. RefCounts'
  BY DEF Inv, TypeOK, Ownership, RefCounts, Dequeue, Goto, stats, gauge, bounds, Acquiring, Releasing
<1> QED BY <1>1, <1>2, <1>3 DEF Inv

LEMMA DropRefInv == ASSUME NEW t \in Threads, NEW b \in Buffers, Inv, DropRef(t, b)
                    PROVE  Inv'
<1> USE BufferPoolAssumption
<1>0. ref[b] = 1
  BY DEF Inv, RefCounts, DropRef
<1>1. TypeOK'
  BY <1>0 DEF Inv, TypeOK, DropRef, Goto, stats, gauge, bounds, PCs, Releasing
<1>2. Ownership'
  BY <1>0 DEF Inv, TypeOK, Ownership, DropRef, Goto, stats, gauge, bounds, Acquiring, Releasing
<1>3. RefCounts'
  BY <1>0 DEF Inv, TypeOK, Ownership, RefCounts, DropRef, Goto, stats, gauge, bounds, Acquiring, Releasing
<1> QED BY <1>1, <1>2, <1>3 DEF Inv

LEMMA AddRefInv == ASSUME NEW t \in Threads, Inv, AddRef(t)
                   PROVE  Inv'
<1> USE BufferPoolAssumption
<1>0. hand[t] \in Buffers
  BY DEF Inv, Ownership, AddRef, Acquiring
<1>1. TypeOK'
  BY <1>0 DEF Inv, TypeOK, AddRef, Goto, stats, gauge, bounds, PCs, Acquiring
<1>2. Ownership'
  BY DEF Inv, TypeOK, Ownership, AddRef, Goto, stats, gauge, bounds, Acquiring, Releasing
<1>3. RefCounts'
  BY <1>0 DEF Inv, TypeOK, Ownership, RefCounts, AddRef, Goto, stats, gauge, bounds, Acquiring, Releasing
<1> QED BY <1>1, <1>2, <1>3 DEF Inv

LEMMA CasHwmInv == ASSUME NEW t \in Threads, Inv, CasHwm(t)
                   PROVE  Inv'
<1> USE BufferPoolAssumption
<1>0. hand[t] \in Buffers
  BY DEF Inv, Ownership, CasHwm, Acquiring
<1>1. TypeOK'
  BY <1>0 DEF Inv, TypeOK, CasHwm, Return, Goto, stats, bounds, PCs
<1>2. Ownership'
  BY <1>0 DEF Inv, TypeOK, Ownership, CasHwm, Return, Goto, stats, bounds, Acquiring, Releasing
<1>3. RefCounts'
  BY <1>0 DEF Inv, TypeOK, Ownership, RefCounts, CasHwm, Return, Goto, stats, bounds, Acquiring, Releasing
<1> QED BY <1>1, <1>2, <1>3 DEF Inv

LEMMA EnqueueInv == ASSUME NEW t \in Threads, Inv, Enqueue(t)
                    PROVE  Inv'
<1> USE BufferPoolAssumption
<1>0. hand[t] \in Buffers
  BY DEF Inv, Ownership, Enqueue, Releasing
<1>1. TypeOK'
  BY <1>0 DEF Inv, TypeOK, Enqueue, Goto, stats, gauge, bounds, PCs
<1>2. Ownership'
  BY <1>0 DEF Inv, TypeOK, Ownership, Enqueue, Goto, stats, gauge, bounds, Acquiring, Releasing
<1>3. RefCounts'
  BY <1>0 DEF Inv, TypeOK, Ownership, RefCounts, Enqueue, Goto, stats, gauge, bounds, Acquiring, Releasing
<1> QED BY <1>1, <1>2, <1>3 DEF Inv

(* All others leave the buffers where they are.                             *)
LEMMA NextInv == ASSUME Inv, [Next]_vars
                 PROVE  Inv'
<1> USE BufferPoolAssumption
<1> USE DEF Inv, TypeOK, Ownership, RefCounts, Goto, Acquiring, Releasing, PCs,
            stats, gauge, bounds
<1>1. ASSUME NEW t \in Threads, BeginAcquire(t) PROVE Inv'
  BY <1>1 DEF BeginAcquire
<1>2. ASSUME NEW t \in Threads, DequeueFails(t) PROVE Inv'
  BY <1>2 DEF DequeueFails
<1>3. ASSUME NEW t \in Threads, CountPending(t) PROVE Inv'
  BY <1>3 DEF CountPending
<1>4. ASSUME NEW t \in Threads, CountFailure(t) PROVE Inv'
  BY <1>4 DEF CountFailure
<1>5. ASSUME NEW t \in Threads, CountInUse(t) PROVE Inv'
  BY <1>5 DEF CountInUse
<1>6. ASSUME NEW t \in Threads, LoadHwm(t) PROVE Inv'
  BY <1>6 DEF LoadHwm
<1>7. ASSUME NEW t \in Threads, Reset(t) PROVE Inv'
  BY <1>7 DEF Reset
<1>8. ASSUME NEW t \in Threads, CountRelease(t) PROVE Inv'
  BY <1>8 DEF CountRelease
<1>9. ASSUME NEW t \in Threads, UncountInUse(t) PROVE Inv'
  BY <1>9 DEF UncountInUse
<1>10. ASSUME NEW b \in Buffers, Write(b) PROVE Inv'
  BY <1>10 DEF Write
<1>11. CASE ResetStats
  BY <1>11 DEF ResetStats
<1>12. CASE ResetPendingFailures
  BY <1>12 DEF ResetPendingFailures
<1>13. CASE UNCHANGED vars
  BY <1>13 DEF vars
<1> QED
  BY <1>1, <1>2, <1>3, <1>4, <1>5, <1>6, <1>7, <1>8, <1>9, <1>10, <1>11, <1>12, <1>13,
     DequeueInv, DropRefInv, AddRefInv, CasHwmInv, EnqueueInv DEF Next, Step

(* The inductive invariant holds in every reachable state.                  *)
THEOREM Invariance == Spec => []Inv
<1>1. Init => Inv  BY InitInv
<1>2. Inv /\ [Next]_vars => Inv'  BY NextInv
<1> QED BY <1>1, <1>2, PTL DEF Spec

(* The variables always have their types.                                   *)
THEOREM TypeCorrect == Spec => []TypeOK
  BY Invariance, PTL DEF Inv

(* However acquire() and release() interleave, no buffer is lost and none   *)
(* is handed out twice.                                                     *)
THEOREM OneOwner == Spec => []Ownership
  BY Invariance, PTL DEF Inv

(* The reference count of a buffer is one exactly while it is in use, so    *)
(* release() puts it back exactly once.                                     *)
THEOREM CountTellsOwner == Spec => []RefCounts
  BY Invariance, PTL DEF Inv

-----------------------------------------------------------------------------
(* What comes out of acquire() has been reset since it was last written.    *)
THEOREM OutOfThePoolEmpty == Spec => []AvailableClean
<1> USE BufferPoolAssumption
<1>1. Init => AvailableClean
  BY DEF Init, AvailableClean
<1>2. Inv /\ AvailableClean /\ [Next]_vars => AvailableClean'
  <2> SUFFICES ASSUME Inv, AvailableClean, [Next]_vars PROVE AvailableClean'
    OBVIOUS
  <2> USE DEF Inv, TypeOK, Ownership, RefCounts, AvailableClean, Goto, Acquiring,
              Releasing, stats, gauge, bounds
  <2>1. ASSUME NEW t \in Threads, BeginAcquire(t) PROVE AvailableClean'
    BY <2>1 DEF BeginAcquire
  <2>2. ASSUME NEW t \in Threads, NEW b \in Buffers, Dequeue(t, b) PROVE AvailableClean'
    BY <2>2 DEF Dequeue
  <2>3. ASSUME NEW t \in Threads, NEW b \in Buffers, DropRef(t, b) PROVE AvailableClean'
    BY <2>3 DEF DropRef
  <2>4. ASSUME NEW t \in Threads, DequeueFails(t) PROVE AvailableClean'
    BY <2>4 DEF DequeueFails
  <2>5. ASSUME NEW t \in Threads, CountPending(t) PROVE AvailableClean'
    BY <2>5 DEF CountPending
  <2>6. ASSUME NEW t \in Threads, CountFailure(t) PROVE AvailableClean'
    BY <2>6 DEF CountFailure
  <2>7. ASSUME NEW t \in Threads, AddRef(t) PROVE AvailableClean'
    BY <2>7 DEF AddRef
  <2>8. ASSUME NEW t \in Threads, CountInUse(t) PROVE AvailableClean'
    BY <2>8 DEF CountInUse
  <2>9. ASSUME NEW t \in Threads, LoadHwm(t) PROVE AvailableClean'
    BY <2>9 DEF LoadHwm
  <2>10. ASSUME NEW t \in Threads, CasHwm(t) PROVE AvailableClean'
    BY <2>10 DEF CasHwm, Return
  <2>11. ASSUME NEW t \in Threads, Reset(t) PROVE AvailableClean'
    BY <2>11 DEF Reset
  <2>12. ASSUME NEW t \in Threads, CountRelease(t) PROVE AvailableClean'
    BY <2>12 DEF CountRelease
  <2>13. ASSUME NEW t \in Threads, UncountInUse(t) PROVE AvailableClean'
    BY <2>13 DEF UncountInUse
  <2>14. ASSUME NEW t \in Threads, Enqueue(t) PROVE AvailableClean'
    BY <2>14 DEF Enqueue
  <2>15. ASSUME NEW b \in Buffers, Write(b) PROVE AvailableClean'
    BY <2>15 DEF Write
  <2>16. CASE ResetStats
    BY <2>16 DEF ResetStats
  <2>17. CASE ResetPendingFailures
    BY <2>17 DEF ResetPendingFailures
  <2>18. CASE UNCHANGED vars
    BY <2>18 DEF vars
  <2> QED
    BY <2>1, <2>2, <2>3, <2>4, <2>5, <2>6, <2>7, <2>8, <2>9, <2>10, <2>11, <2>12, <2>13, <2>14, <2>15, <2>16, <2>17, <2>18 DEF Next, Step
<1> QED BY <1>1, <1>2, Invariance, PTL DEF Spec

-----------------------------------------------------------------------------
(* The high water mark, with the exchange loops of any number of threads    *)
(* under way: the maximum is reached already, or by a thread still in its   *)
(* loop, and what a loop has read is never above the mark.                  *)
PeakReached ==
    /\ high_water_mark <= peak
    /\ \A t \in Threads : pc[t] \in {"load_hwm", "cas_hwm"} => in_use[t] <= peak
    /\ \A t \in Threads : pc[t] = "cas_hwm" => current_hwm[t] <= high_water_mark
    /\ \/ high_water_mark = peak
       \/ \E t \in Threads : pc[t] \in {"load_hwm", "cas_hwm"} /\ in_use[t] = peak

(* Once no acquire() is in its loop, the mark is the maximum.               *)
THEOREM HighWaterMark == Spec => []HighWaterExact
<1>1. Init => PeakReached
  BY DEF Init, PeakReached
<1>2. TypeOK /\ PeakReached /\ [Next]_vars => PeakReached'
  <2> SUFFICES ASSUME TypeOK, PeakReached, [Next]_vars PROVE PeakReached'
    OBVIOUS
  <2> USE DEF TypeOK, PeakReached, Goto, stats, gauge, bounds
  <2>1. ASSUME NEW t \in Threads, BeginAcquire(t) PROVE PeakReached'
    BY <2>1 DEF BeginAcquire
  <2>2. ASSUME NEW t \in Threads, NEW b \in Buffers, Dequeue(t, b) PROVE PeakReached'
    BY <2>2 DEF Dequeue
  <2>3. ASSUME NEW t \in Threads, NEW b \in Buffers, DropRef(t, b) PROVE PeakReached'
    BY <2>3 DEF DropRef
  <2>4. ASSUME NEW t \in Threads, DequeueFails(t) PROVE PeakReached'
    BY <2>4 DEF DequeueFails
  <2>5. ASSUME NEW t \in Threads, CountPending(t) PROVE PeakReached'
    BY <2>5 DEF CountPending
  <2>6. ASSUME NEW t \in Threads, CountFailure(t) PROVE PeakReached'
    BY <2>6 DEF CountFailure
  <2>7. ASSUME NEW t \in Threads, AddRef(t) PROVE PeakReached'
    BY <2>7 DEF AddRef
  <2>8. ASSUME NEW t \in Threads, CountInUse(t) PROVE PeakReached'
    BY <2>8 DEF CountInUse
  <2>9. ASSUME NEW t \in Threads, LoadHwm(t) PROVE PeakReached'
    BY <2>9 DEF LoadHwm
  <2>10. ASSUME NEW t \in Threads, CasHwm(t) PROVE PeakReached'
    BY <2>10 DEF CasHwm, Return
  <2>11. ASSUME NEW t \in Threads, Reset(t) PROVE PeakReached'
    BY <2>11 DEF Reset
  <2>12. ASSUME NEW t \in Threads, CountRelease(t) PROVE PeakReached'
    BY <2>12 DEF CountRelease
  <2>13. ASSUME NEW t \in Threads, UncountInUse(t) PROVE PeakReached'
    BY <2>13 DEF UncountInUse
  <2>14. ASSUME NEW t \in Threads, Enqueue(t) PROVE PeakReached'
    BY <2>14 DEF Enqueue
  <2>15. ASSUME NEW b \in Buffers, Write(b) PROVE PeakReached'
    BY <2>15 DEF Write
  <2>16. CASE ResetStats
    BY <2>16 DEF ResetStats
  <2>17. CASE ResetPendingFailures
    BY <2>17 DEF ResetPendingFailures
  <2>18. CASE UNCHANGED vars
    BY <2>18 DEF vars
  <2> QED
    BY <2>1, <2>2, <2>3, <2>4, <2>5, <2>6, <2>7, <2>8, <2>9, <2>10, <2>11, <2>12, <2>13, <2>14, <2>15, <2>16, <2>17, <2>18 DEF Next, Step
<1>3. PeakReached => HighWaterExact
  BY DEF PeakReached, HighWaterExact
<1> QED BY <1>1, <1>2, <1>3, TypeCorrect, PTL DEF Spec

-----------------------------------------------------------------------------
(* The gauge: which actions change the set of counted buffers.              *)
LEMMA CountedFinite == ASSUME Inv
                       PROVE  IsFiniteSet(Counted) /\ Cardinality(Counted) \in Nat
<1>1. Counted \subseteq Buffers
  BY DEF Inv, TypeOK, Ownership, Counted, Acquiring, Releasing
<1> QED BY <1>1, BufferPoolAssumption, FS_Subset, FS_CardinalityType

LEMMA CountInUseCounts == ASSUME NEW t \in Threads, Inv, CountInUse(t)
                          PROVE  Cardinality(Counted') = Cardinality(Counted) + 1
<1>1. hand[t] \notin Counted
  BY BufferPoolAssumption DEF Inv, TypeOK, Ownership, CountInUse, Counted, Acquiring, Releasing
<1>2. Counted' = Counted \cup {hand[t]}
  BY DEF Inv, TypeOK, CountInUse, Goto, Counted
<1> QED BY <1>1, <1>2, CountedFinite, FS_AddElement

LEMMA UncountInUseCounts == ASSUME NEW t \in Threads, Inv, UncountInUse(t)
                            PROVE  Cardinality(Counted') = Cardinality(Counted) - 1
<1>1. hand[t] \in Counted
  BY DEF UncountInUse, Counted
<1>2. Counted' = Counted \ {hand[t]}
  BY BufferPoolAssumption DEF Inv, TypeOK, Ownership, UncountInUse, Goto, Counted, Acquiring, Releasing
<1> QED BY <1>1, <1>2, CountedFinite, FS_RemoveElement

(* The gauge counts the buffers that are out, whatever interleaves, and     *)
(* reset_stats() does not disturb it.                                       *)
THEOREM GaugeExact == Spec => []InUseExact
<1>1. Init => InUseExact
  <2>1. Init => Counted = {}
    BY DEF Init, Counted
  <2> QED BY <2>1, FS_EmptySet DEF Init, InUseExact
<1>2. Inv /\ InUseExact /\ [Next]_vars => InUseExact'
  <2> SUFFICES ASSUME Inv, InUseExact, [Next]_vars PROVE InUseExact'
    OBVIOUS
  <2>1. ASSUME NEW t \in Threads, CountInUse(t) PROVE InUseExact'
    BY <2>1, CountInUseCounts DEF CountInUse, InUseExact
  <2>2. ASSUME NEW t \in Threads, UncountInUse(t) PROVE InUseExact'
    BY <2>2, UncountInUseCounts DEF UncountInUse, InUseExact
  <2>3. ASSUME Counted' = Counted, UNCHANGED buffers_in_use PROVE InUseExact'
    BY <2>3 DEF InUseExact
  <2> USE BufferPoolAssumption DEF Inv, TypeOK, Ownership, RefCounts, Counted, Goto,
              Acquiring, Releasing, stats, gauge, bounds
  <2>4. ASSUME NEW t \in Threads, BeginAcquire(t) PROVE InUseExact'
    BY <2>4, <2>3 DEF BeginAcquire
  <2>5. ASSUME NEW t \in Threads, NEW b \in Buffers, Dequeue(t, b) PROVE InUseExact'
    BY <2>5, <2>3 DEF Dequeue
  <2>6. ASSUME NEW t \in Threads, NEW b \in Buffers, DropRef(t, b) PROVE InUseExact'
    BY <2>6, <2>3 DEF DropRef
  <2>7. ASSUME NEW t \in Threads, DequeueFails(t) PROVE InUseExact'
    BY <2>7, <2>3 DEF DequeueFails
  <2>8. ASSUME NEW t \in Threads, CountPending(t) PROVE InUseExact'
    BY <2>8, <2>3 DEF CountPending
  <2>9. ASSUME NEW t \in Threads, CountFailure(t) PROVE InUseExact'
    BY <2>9, <2>3 DEF CountFailure
  <2>10. ASSUME NEW t \in Threads, AddRef(t) PROVE InUseExact'
    BY <2>10, <2>3 DEF AddRef
  <2>11. ASSUME NEW t \in Threads, LoadHwm(t) PROVE InUseExact'
    BY <2>11, <2>3 DEF LoadHwm
  <2>12. ASSUME NEW t \in Threads, CasHwm(t) PROVE InUseExact'
    BY <2>12, <2>3 DEF CasHwm, Return
  <2>13. ASSUME NEW t \in Threads, Reset(t) PROVE InUseExact'
    BY <2>13, <2>3 DEF Reset
  <2>14. ASSUME NEW t \in Threads, CountRelease(t) PROVE InUseExact'
    BY <2>14, <2>3 DEF CountRelease
  <2>15. ASSUME NEW t \in Threads, Enqueue(t) PROVE InUseExact'
    BY <2>15, <2>3 DEF Enqueue
  <2>16. ASSUME NEW b \in Buffers, Write(b) PROVE InUseExact'
    BY <2>16, <2>3 DEF Write
  <2>17. CASE ResetStats
    BY <2>17, <2>3 DEF ResetStats
  <2>18. CASE ResetPendingFailures
    BY <2>18, <2>3 DEF ResetPendingFailures
  <2>19. CASE UNCHANGED vars
    BY <2>19, <2>3 DEF vars
  <2> QED
    BY <2>1, <2>2, <2>4, <2>5, <2>6, <2>7, <2>8, <2>9, <2>10, <2>11, <2>12, <2>13, <2>14, <2>15, <2>16, <2>17, <2>18, <2>19 DEF Next, Step
<1> QED BY <1>1, <1>2, Invariance, PTL DEF Spec

-----------------------------------------------------------------------------
(* The statistics, with calls under way: acquires that are not yet counted  *)
(* as failed or in use, releases not yet taken off the gauge.               *)
Undecided == {t \in Threads : pc[t] \in {"dequeue", "failed", "failed_stat", "add_ref", "count"}}
Leaving == {t \in Threads : pc[t] = "uncount"}

Balance == resets = 0 =>
    total_acquires + Cardinality(Leaving) =
        acquire_failures + total_releases + buffers_in_use + Cardinality(Undecided)

LEMMA ThreadsFinite == /\ IsFiniteSet(Undecided) /\ Cardinality(Undecided) \in Nat
                       /\ IsFiniteSet(Leaving) /\ Cardinality(Leaving) \in Nat
  BY BufferPoolAssumption, FS_Subset, FS_CardinalityType DEF Undecided, Leaving

(* Every step keeps the balance: a call enters or leaves both sides together.                        *)
LEMMA BalanceStep == ASSUME TypeOK, Balance, [Next]_vars
                     PROVE  Balance'
<1> USE ThreadsFinite DEF Goto
<1>1. ASSUME NEW t \in Threads, BeginAcquire(t) PROVE Balance'
  <2>1. Undecided' = Undecided \cup {t} /\ t \notin Undecided /\ Leaving' = Leaving
    BY <1>1 DEF TypeOK, BeginAcquire, Undecided, Leaving
  <2>2. Cardinality(Undecided') = Cardinality(Undecided) + 1
    BY <2>1, FS_AddElement
  <2> QED BY <1>1, <2>1, <2>2 DEF TypeOK, BeginAcquire, Balance, gauge
<1>2. ASSUME NEW t \in Threads, CountFailure(t) PROVE Balance'
  <2>1. Undecided' = Undecided \ {t} /\ t \in Undecided /\ Leaving' = Leaving
    BY <1>2 DEF TypeOK, CountFailure, Undecided, Leaving
  <2>2. Cardinality(Undecided') = Cardinality(Undecided) - 1
    BY <2>1, FS_RemoveElement
  <2> QED BY <1>2, <2>1, <2>2 DEF TypeOK, CountFailure, Balance, gauge, bounds
<1>3. ASSUME NEW t \in Threads, CountInUse(t) PROVE Balance'
  <2>1. Undecided' = Undecided \ {t} /\ t \in Undecided /\ Leaving' = Leaving
    BY <1>3 DEF TypeOK, CountInUse, Undecided, Leaving
  <2>2. Cardinality(Undecided') = Cardinality(Undecided) - 1
    BY <2>1, FS_RemoveElement
  <2> QED BY <1>3, <2>1, <2>2 DEF TypeOK, CountInUse, Balance, stats, bounds
<1>4. ASSUME NEW t \in Threads, CountRelease(t) PROVE Balance'
  <2>1. Leaving' = Leaving \cup {t} /\ t \notin Leaving /\ Undecided' = Undecided
    BY <1>4 DEF TypeOK, CountRelease, Undecided, Leaving
  <2>2. Cardinality(Leaving') = Cardinality(Leaving) + 1
    BY <2>1, FS_AddElement
  <2> QED BY <1>4, <2>1, <2>2 DEF TypeOK, CountRelease, Balance, gauge, bounds
<1>5. ASSUME NEW t \in Threads, UncountInUse(t) PROVE Balance'
  <2>1. Leaving' = Leaving \ {t} /\ t \in Leaving /\ Undecided' = Undecided
    BY <1>5 DEF TypeOK, UncountInUse, Undecided, Leaving
  <2>2. Cardinality(Leaving') = Cardinality(Leaving) - 1
    BY <2>1, FS_RemoveElement
  <2> QED BY <1>5, <2>1, <2>2 DEF TypeOK, UncountInUse, Balance, stats, bounds
<1>6. CASE ResetStats
  BY <1>6 DEF TypeOK, ResetStats, Balance
<1>7. ASSUME UNCHANGED <<stats, buffers_in_use, resets>>, Undecided' = Undecided, Leaving' = Leaving
      PROVE  Balance'
  BY <1>7 DEF Balance, stats
<1> USE DEF TypeOK, Undecided, Leaving, gauge, bounds
<1>8. ASSUME NEW t \in Threads, NEW b \in Buffers, Dequeue(t, b) PROVE Balance'
  BY <1>8, <1>7 DEF Dequeue
<1>9. ASSUME NEW t \in Threads, NEW b \in Buffers, DropRef(t, b) PROVE Balance'
  BY <1>9, <1>7 DEF DropRef
<1>10. ASSUME NEW t \in Threads, DequeueFails(t) PROVE Balance'
  BY <1>10, <1>7 DEF DequeueFails
<1>11. ASSUME NEW t \in Threads, CountPending(t) PROVE Balance'
  BY <1>11, <1>7 DEF CountPending
<1>12. ASSUME NEW t \in Threads, AddRef(t) PROVE Balance'
  BY <1>12, <1>7 DEF AddRef
<1>13. ASSUME NEW t \in Threads, LoadHwm(t) PROVE Balance'
  BY <1>13, <1>7 DEF LoadHwm
<1>14. ASSUME NEW t \in Threads, CasHwm(t) PROVE Balance'
  BY <1>14, <1>7 DEF CasHwm, Return
<1>15. ASSUME NEW t \in Threads, Reset(t) PROVE Balance'
  BY <1>15, <1>7 DEF Reset
<1>16. ASSUME NEW t \in Threads, Enqueue(t) PROVE Balance'
  BY <1>16, <1>7 DEF Enqueue
<1>17. ASSUME NEW b \in Buffers, Write(b) PROVE Balance'
  BY <1>17, <1>7 DEF Write
<1>18. CASE ResetPendingFailures
  BY <1>18, <1>7 DEF ResetPendingFailures
<1>19. CASE UNCHANGED vars
  BY <1>19, <1>7 DEF vars
<1> QED
  BY <1>1, <1>2, <1>3, <1>4, <1>5, <1>6, <1>8, <1>9, <1>10, <1>11, <1>12, <1>13, <1>14, <1>15, <1>16, <1>17, <1>18, <1>19 DEF Next, Step

(* Between calls the statistics add up.                                     *)
THEOREM StatisticsBalance == Spec => []StatsBalance
<1>1. Init => Balance
  <2>1. Init => Undecided = {} /\ Leaving = {}
    BY DEF Init, Undecided, Leaving
  <2> QED BY <2>1, FS_EmptySet DEF Init, Balance
<1>2. TypeOK /\ Balance => StatsBalance
  <2> SUFFICES ASSUME TypeOK, Balance, resets = 0, \A t \in Threads : pc[t] = "idle"
               PROVE  total_acquires = acquire_failures + total_releases + buffers_in_use
    BY DEF StatsBalance
  <2>1. Undecided = {} /\ Leaving = {}
    BY DEF Undecided, Leaving
  <2> QED BY <2>1, FS_EmptySet DEF TypeOK, Balance
<1> QED BY <1>1, <1>2, BalanceStep, TypeCorrect, PTL DEF Spec

-----------------------------------------------------------------------------
(* Each buffer has one owner, and its reference count says which.           *)
THEOREM BuffersAlwaysSound == Spec => []BuffersSound
<1>1. Inv => BuffersSound
  BY DEF Inv, BuffersSound
<1> QED BY <1>1, Invariance, PTL

(* The gauge and the maximum that get_stats() reports are exact.            *)
THEOREM StatisticsExact == Spec => []StatsExact
<1>1. InUseExact /\ HighWaterExact => StatsExact
  BY DEF StatsExact
<1> QED BY <1>1, GaugeExact, HighWaterMark, PTL

-----------------------------------------------------------------------------
(* The atomic steps of acquire() and release() implement the one-step pool  *)
(* that Dispatcher uses: a buffer is acquired when it is dequeued and       *)
(* released when it is enqueued, everything else is invisible.              *)
THEOREM ImplementsPool == Spec => RefinesPool
<1> USE DEF Abstract!poolVars
<1>1. Init => Abstract!PoolInit
  BY DEF Init, Abstract!PoolInit
<1>2. Inv /\ [Next]_vars => [Abstract!PoolNext]_(Abstract!poolVars)
  <2> SUFFICES ASSUME Inv, [Next]_vars
               PROVE  Abstract!PoolNext \/ UNCHANGED available
    OBVIOUS
  <2>1. ASSUME NEW t \in Threads, NEW b \in Buffers, Dequeue(t, b)
        PROVE  Abstract!Acquire(b)
    <3>1. b \in available /\ available' = available \ {b}
      BY <2>1 DEF Dequeue
    <3> DEFINE f == [x \in Buffers |-> IF x \in available THEN 1 ELSE 0]
               g == [x \in Buffers |-> IF x \in available THEN 0 ELSE 1]
    <3>2. Abstract!Acquire(b) <=> /\ f[b] > 0
                                  /\ f' = [f EXCEPT ![b] = f[b] - 1]
                                  /\ g' = [g EXCEPT ![b] = g[b] + 1]
      BY Zenon DEF Abstract!Acquire
    <3>3. /\ f = [x \in Buffers |-> IF x \in available THEN 1 ELSE 0]
          /\ f' = [x \in Buffers |-> IF x \in available' THEN 1 ELSE 0]
      BY Zenon
    <3>4. /\ g = [x \in Buffers |-> IF x \in available THEN 0 ELSE 1]
          /\ g' = [x \in Buffers |-> IF x \in available' THEN 0 ELSE 1]
      BY Zenon
    <3> HIDE DEF f, g
    <3>5. f[b] > 0 /\ f' = [f EXCEPT ![b] = f[b] - 1]
      BY <3>1, <3>3
    <3>6. g' = [g EXCEPT ![b] = g[b] + 1]
      BY <3>1, <3>4
    <3> QED BY <3>2, <3>5, <3>6
  <2>2. ASSUME NEW t \in Threads, Enqueue(t)
        PROVE  /\ hand[t] \in Buffers \ available
               /\ Abstract!Release(hand[t])
    <3>1. hand[t] \in Buffers \ available
      BY <2>2 DEF Inv, Ownership, Enqueue, Releasing
    <3>2. available' = available \cup {hand[t]}
      BY <2>2 DEF Enqueue
    <3> QED BY <3>1, <3>2 DEF Abstract!Release, Abstract!ReleaseTimes, Abstract!GoesBack, Abstract!Once
  <2>3. ASSUME NEW t \in Threads, Enqueue(t) PROVE Abstract!PoolNext
    BY <2>2, <2>3 DEF Abstract!PoolNext
  <2>4. ASSUME NEW t \in Threads, NEW b \in Buffers, DropRef(t, b)
        PROVE  UNCHANGED available
    BY <2>4 DEF DropRef
  <2>5. ASSUME NEW t \in Threads,
               \/ BeginAcquire(t) \/ DequeueFails(t) \/ CountPending(t) \/ CountFailure(t)
               \/ AddRef(t) \/ CountInUse(t) \/ LoadHwm(t) \/ CasHwm(t)
               \/ Reset(t) \/ CountRelease(t) \/ UncountInUse(t)
        PROVE  UNCHANGED available
    BY <2>5 DEF BeginAcquire, DequeueFails, CountPending, CountFailure, AddRef, CountInUse,
                LoadHwm, CasHwm, Reset, CountRelease, UncountInUse
  <2>6. CASE (\E b \in Buffers : Write(b)) \/ ResetStats \/ ResetPendingFailures
             \/ UNCHANGED vars
    BY <2>6 DEF Write, ResetStats, ResetPendingFailures, vars
  <2> QED
    BY <2>1, <2>3, <2>4, <2>5, <2>6 DEF Next, Step, Abstract!PoolNext
<1> QED BY <1>1, <1>2, Invariance, PTL DEF Spec, RefinesPool, Abstract!PoolSpec
=============================================================================
