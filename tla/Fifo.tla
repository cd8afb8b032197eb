-------------------------------- MODULE Fifo --------------------------------
(* What one sub-queue of moodycamel::ConcurrentQueue promises: the elements  *)
(* 1, 2, 3, ... go in at one end, and each is handed out once, the oldest    *)
(* first.                                                                    *)
EXTENDS Naturals

CONSTANT MaxBulk \* bound: elements of one call

VARIABLES sent,  \* how many elements were enqueued
          gone,  \* how many of them, the oldest, were claimed by consumers
          got    \* the elements that consumers were given

vars == <<sent, gone, got>>

Init == sent = 0 /\ gone = 0 /\ got = {}

(* Several elements go in at once.                                           *)
Enqueue(n) == sent' = sent + n /\ UNCHANGED <<gone, got>>

(* A consumer is given the oldest ones.                                      *)
Dequeue(n) ==
    /\ gone + n <= sent
    /\ gone' = gone + n
    /\ got' = got \cup (gone + 1 .. gone + n)
    /\ UNCHANGED sent

Next == \E n \in 1 .. MaxBulk : Enqueue(n) \/ Dequeue(n)

Spec == Init /\ [][Next]_vars
=============================================================================
