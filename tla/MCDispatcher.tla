---------------------------- MODULE MCDispatcher ----------------------------
(* TLC instances of the dispatcher: two threads, a and b, with the calls    *)
(* each of them may make; the buffers are interchangeable.                  *)
EXTENDS DispatcherProperties, TLC

CONSTANTS a, b

TwoThreads == {a, b}

Budget(m, n) == (a :> m) @@ (b :> n)
None    == Budget(0, 0)
OneEach == Budget(1, 1)
TwoEach == Budget(2, 2)
OnlyA   == Budget(1, 0)
OnlyATwo == Budget(2, 0)
OnlyB   == Budget(0, 1)
TwoOne  == Budget(2, 1)

NoSinkless == {}
FirstSinkless == {1}

(* After the double release that the run double_release shows, one buffer   *)
(* has two owners and nothing can be said about what they write: from there *)
(* on only the worker and the shutdown go on.                               *)
Sound == BuffersConserved \/ (UNCHANGED threadVars /\ cpc' # "start")

Symmetry == Permutations(Buffers)
=============================================================================
