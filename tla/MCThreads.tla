----------------------------- MODULE MCThreads ------------------------------
(* Instances of Threads.                                                   *)
EXTENDS Threads

CONSTANTS signaling, worker, c1, c2, c3, o1, o2

TwoLoops   == {signaling, worker}
OnlyWorker == {worker}

\* Two calls to the worker, one to the signaling thread; o1 may go away.
ThreeCalls == {c1, c2, c3}
Targets    == [c \in Calls |-> IF c = c2 THEN signaling ELSE worker]
Objects    == [c \in Calls |-> IF c = c1 THEN o1 ELSE o2]
OnlyO1     == {o1}
=============================================================================
