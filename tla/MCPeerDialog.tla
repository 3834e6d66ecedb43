---------------------------- MODULE MCPeerDialog ----------------------------
(* Instances of PeerDialog: a and a2 log in under one name, b under another. *)
EXTENDS PeerDialog, TLC

CONSTANTS a, a2, b, A, B

MCProcs   == {a, a2, b}
MCNames   == {A, B}
MCMyName  == (a :> A) @@ (a2 :> A) @@ (b :> B)

AandB     == {a, b}

\* Sockets with different sids: 1:23, 1:24 and 2:23.
MCAddr == (a :> <<1>>) @@ (a2 :> <<1>>) @@ (b :> <<2>>)
MCPort == (a :> <<2, 3>>) @@ (a2 :> <<2, 4>>) @@ (b :> <<2, 3>>)

\* Hosts 1 and 11 with ports 12 and 2: both sids read 112.
CollidingAddr == (a :> <<1>>) @@ (a2 :> <<1, 1>>) @@ (b :> <<2>>)
CollidingPort == (a :> <<1, 2>>) @@ (a2 :> <<2>>) @@ (b :> <<2, 3>>)
=============================================================================
