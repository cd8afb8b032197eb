-------------------------------- MODULE Pool --------------------------------
(***************************************************************************)
(* What buffer_pool (log_buffer.hpp) promises the rest of the library: a    *)
(* fixed set of reference-counted buffers, each acquire and each release    *)
(* taken as one step.  BufferPool refines it step by step; Dispatcher is    *)
(* built from its operators.                                                *)
(***************************************************************************)
EXTENDS Integers

CONSTANTS Buffers,  \* the BUFFER_POOL_SIZE buffers
          Reliable  \* SLWOGGY_RELIABLE_DELIVERY: acquire waits instead of failing

ASSUME PoolAssumption == Reliable \in BOOLEAN

VARIABLES avail,    \* how often a buffer sits in available_buffers_
          ref       \* ref_count_ of each buffer

poolVars == <<avail, ref>>

PoolInit == /\ avail = [b \in Buffers |-> 1]
            /\ ref = [b \in Buffers |-> 0]

(* acquire() hands out any available buffer: the queue is one FIFO per      *)
(* releasing thread, so the order across threads is open.                   *)
Acquire(b) == /\ avail[b] > 0
              /\ avail' = [avail EXCEPT ![b] = @ - 1]
              /\ ref' = [ref EXCEPT ![b] = @ + 1]

(* acquire() returns nullptr. *)
AcquireFails == /\ ~Reliable
                /\ \A b \in Buffers : avail[b] = 0
                /\ UNCHANGED poolVars

(* release() called count[b] times on each buffer b: the call that finds    *)
(* the reference count at one puts the buffer back, every other call only   *)
(* counts down.                                                             *)
GoesBack(b, count) == 1 <= ref[b] /\ ref[b] <= count[b]

ReleaseTimes(count) ==
    /\ avail' = [b \in Buffers |-> avail[b] + IF GoesBack(b, count) THEN 1 ELSE 0]
    /\ ref' = [b \in Buffers |-> ref[b] - count[b]]

Once(S) == [b \in Buffers |-> IF b \in S THEN 1 ELSE 0]

Release(b) == ReleaseTimes(Once({b}))

PoolNext == \/ \E b \in Buffers : Acquire(b) \/ (ref[b] > 0 /\ Release(b))
            \/ AcquireFails

PoolSpec == PoolInit /\ [][PoolNext]_poolVars

(* A buffer is in the queue exactly when nobody refers to it, and there is  *)
(* never more than one reference: nothing in the library calls add_ref()    *)
(* but acquire().                                                           *)
Conserved == \A b \in Buffers : ref[b] \in {0, 1} /\ avail[b] = 1 - ref[b]
=============================================================================
