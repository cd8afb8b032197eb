----------------------------- MODULE LogDelivery -----------------------------
(***************************************************************************)
(* What the asynchronous core promises to a caller of LOG while the         *)
(* dispatcher runs: per thread, the sinks see exactly the accepted          *)
(* messages, in order, and none of them waits forever.                      *)
(***************************************************************************)
EXTENDS Sequences, SequencesExt

CONSTANT Threads

VARIABLES accepted,  \* per thread: messages that entered the queue
          handled    \* per thread: messages the worker has processed

vars == <<accepted, handled>>

Init == /\ accepted = [t \in Threads |-> <<>>]
        /\ handled = [t \in Threads |-> <<>>]

(* One more message of t, whatever it says.                                 *)
Accept(t) == /\ accepted' = [accepted EXCEPT ![t] = accepted'[t]]
             /\ Front(accepted'[t]) = accepted[t]
             /\ UNCHANGED handled

(* A batch of the worker advances any number of threads by any number of    *)
(* messages.                                                                *)
Longer(t) == {SubSeq(accepted[t], 1, n) : n \in Len(handled[t])..Len(accepted[t])}

Advance == /\ handled' \in {h \in [Threads -> UNION {Longer(t) : t \in Threads}] :
                               \A t \in Threads : h[t] \in Longer(t)}
           /\ UNCHANGED accepted

Next == (\E t \in Threads : accepted'[t] # <<>> /\ Accept(t)) \/ Advance

SafeSpec == Init /\ [][Next]_vars

(* No thread's messages are passed over forever.                            *)
Fairness == \A t \in Threads : WF_vars(Advance /\ handled'[t] # handled[t])

Spec == SafeSpec /\ Fairness
=============================================================================
