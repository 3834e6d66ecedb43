---------------------------- MODULE MCP2PChannel ----------------------------
(* Instances of P2PChannel.                                                *)
EXTENDS P2PChannel, TLC

CONSTANTS p1, p2, k1

\* Two ports on one network, one remote address; p1 is preferred.
PortPair == {p1, p2}
OneCand  == {k1}
SameNet  == [p \in Ports |-> 1]
P1First  == [x \in Ports \cup Cands |-> IF x = p1 THEN 2 ELSE 1]
Flat     == [x \in Ports \cup Cands |-> 1]
Zeros    == [x \in Ports \cup Cands |-> 0]
OneUser  == [k \in Cands |-> "u"]

\* One port.
OnePort  == {p1}

\* Samples that leave the estimate at DEFAULT_RTT.
Steady   == {3000}
=============================================================================
