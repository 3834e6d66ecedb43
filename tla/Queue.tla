------------------------------- MODULE Queue --------------------------------
(***************************************************************************)
(* What several modules do with a list of messages.                        *)
(***************************************************************************)
EXTENDS Naturals, Sequences

\* The messages of q that are not in P, in their order: the loop of
\* MessageQueue::Clear over msgq_, and that of Thread::Clear over sendlist_.
Without(q, P) ==
    LET kept[n \in 0 .. Len(q)] ==
            IF n = 0 THEN <<>>
            ELSE IF q[n] \in P THEN kept[n - 1] ELSE Append(kept[n - 1], q[n])
    IN  kept[Len(q)]

\* The sequences in qs, one behind the other.
Concat(qs) ==
    LET sofar[n \in 0 .. Len(qs)] == IF n = 0 THEN <<>> ELSE sofar[n - 1] \o qs[n]
    IN  sofar[Len(qs)]
=============================================================================
