----------------------------- MODULE Handshake ------------------------------
(***************************************************************************)
(* What the sessions of two partners promise each other, whatever server,  *)
(* words, threads and queues lie between them: one of them invites, the    *)
(* other accepts, each goes on only with what the other has done, both get *)
(* there or one of them is gone.  A partner that is gone may have done     *)
(* anything before.                                                        *)
(***************************************************************************)
CONSTANTS
    Parties,
    Partner      \* of each party

VARIABLE phase

Phases == {"idle", "inviting", "invited", "accepted", "established", "gone"}

Init == phase = [p \in Parties |-> "idle"]

Goes(p, from, to) == phase[p] = from /\ phase' = [phase EXCEPT ![p] = to]
PartnerIn(p, S)   == phase[Partner[p]] \in S \cup {"gone"}

\* Never both.
Invite(p)       == /\ Goes(p, "idle", "inviting")
                   /\ PartnerIn(p, {"idle"})
HearInvite(p)   == /\ Goes(p, "idle", "invited")
                   /\ PartnerIn(p, {"inviting"})
Accept(p)       == /\ Goes(p, "invited", "accepted")
                   /\ PartnerIn(p, {"inviting"})
HearAccept(p)   == /\ Goes(p, "inviting", "accepted")
                   /\ PartnerIn(p, {"accepted", "established"})
Establish(p)    == /\ Goes(p, "accepted", "established")
                   /\ PartnerIn(p, {"inviting", "accepted", "established"})
Vanish(p)       == /\ phase[p] # "gone"
                   /\ phase' = [phase EXCEPT ![p] = "gone"]

Next ==
    \E p \in Parties :
        \/ Invite(p) \/ HearInvite(p) \/ Accept(p) \/ HearAccept(p)
        \/ Establish(p) \/ Vanish(p)

\* Who has begun gets there, or one of the two vanishes.
Settles ==
    \A p \in Parties :
        phase[p] \notin {"idle", "gone"} ~>
            phase[p] \in {"established", "gone"}

\* What never goes wrong, and with it what gets done.
Safe == Init /\ [][Next]_phase

Spec == Safe /\ Settles
=============================================================================
