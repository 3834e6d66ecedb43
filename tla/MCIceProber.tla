---------------------------- MODULE MCIceProber -----------------------------
(* Instances of IceProber.                                                 *)
EXTENDS IceProber, TLC

CONSTANTS a, a2, b, A, B

\* A pair: a and b want each other.
PairProcs  == {a, b}
PairNames  == {A, B}
PairMyName == (a :> A) @@ (b :> B)
PairRemote == (a :> B) @@ (b :> A)
PairAddr   == (a :> <<1>>) @@ (b :> <<2>>)
PairPort   == (a :> <<3>>) @@ (b :> <<3>>)

\* Bounds.
Zero     == [p \in Procs |-> 0]
One      == [p \in Procs |-> 1]
OneForA  == [p \in Procs |-> IF p = a THEN 1 ELSE 0]
TwoOne   == [p \in Procs |-> IF p = a THEN 2 ELSE 1]
TwoForA  == [p \in Procs |-> IF p = a THEN 2 ELSE 0]

\* Candidates that VerifyCandidate refuses: none, or the second of a.
NoCands   == {}
SecondOfA == {<<a, 2>>}

\* The pair and a2, a again after a restart.
AgainProcs  == {a, a2, b}
AgainMyName == PairMyName @@ (a2 :> A)
AgainRemote == PairRemote @@ (a2 :> B)
AgainAddr   == PairAddr @@ (a2 :> <<1>>)
AgainPort   == PairPort @@ (a2 :> <<4>>)
=============================================================================
