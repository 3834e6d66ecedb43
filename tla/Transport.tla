----------------------------- MODULE Transport ------------------------------
(***************************************************************************)
(* libjingle's Transport, TransportProxy and (as far as they see it) the   *)
(* P2PTransportChannel of one process.                                     *)
(*                                                                         *)
(* Two threads share this state and talk through their message queues: the *)
(* signaling thread runs the ..._s handlers, the worker thread the ..._w   *)
(* ones.  Each handler is an operator from the state s of the process to   *)
(* its next state; s.sigq and s.wq are the queues of the two threads.      *)
(* A Send to the worker thread blocks the signaling thread until it has    *)
(* been run, so it is part of the handler that makes it.                   *)
(*                                                                         *)
(* MSG_READSTATE, MSG_ROUTECHANGE and MSG_PING have no listener here.      *)
(***************************************************************************)
EXTENDS Queue

\* The candidates that VerifyCandidate refuses: those with no address, or with
\* a port below 1024 that is not 80 or 443 on a public address.
\* (IceProber allows local addresses.)
CONSTANT Unverifiable

\* Messages of the worker thread.
ReadyMsg        == [id |-> "ONSIGNALINGREADY", cand |-> <<>>]
CandidateMsg(c) == [id |-> "ONREMOTECANDIDATE", cand |-> c]

(* The fields of s that belong here:                                       *)
(*   proxy       TransportProxy::state_                                    *)
(*   connectReq  connect_requested_                                        *)
(*   ready       ready_candidates_                                         *)
(*   unsent      TransportProxy::unsent_candidates_                        *)
(*   twritable   Transport::writable_                                      *)
(*   writable    the channel's writable()                                  *)
(*   waiting     the channel's waiting_for_signaling_                      *)
(*   session     the channel has an allocator session                      *)
(*   remote      the candidates handed to the channel, in order            *)

\* Mutation: connect_requested_ is not set.
ConnectChannelsUnrecorded(s) ==
    IF s.connectReq THEN s
    ELSE [s EXCEPT !.waiting = TRUE,
                   !.sigq = @ \o <<"CANDIDATEREADY", "REQUESTSIGNALING",
                                   "CONNECTING">>]

\* Transport::ConnectChannels, with the channel's Connect and Allocate.
ConnectChannels(s) ==
    IF s.connectReq THEN s
    ELSE [s EXCEPT !.connectReq = TRUE,
                   !.waiting = TRUE,
                   !.sigq = @ \o <<"CANDIDATEREADY", "REQUESTSIGNALING",
                                   "CONNECTING">>]

\* ASSERT(state_ == STATE_INIT || state_ == STATE_CONNECTING) comes first.
SpeculativelyConnectChannels(s) ==
    IF s.proxy = "NEGOTIATED" THEN [s EXCEPT !.dead = "assert"]
    ELSE ConnectChannels([s EXCEPT !.proxy = "CONNECTING"])

CompleteNegotiation(s) ==
    IF s.proxy = "NEGOTIATED" THEN s
    ELSE ConnectChannels([s EXCEPT !.proxy = "NEGOTIATED"])

VerifyCandidate(c) == c \notin Unverifiable

\* Transport::OnRemoteCandidates: one message to the worker thread for each.
OnRemoteCandidates(s, cands) ==
    [s EXCEPT !.wq = @ \o [i \in DOMAIN cands |-> CandidateMsg(cands[i])]]

\* Transport::OnSignalingReady.
OnSignalingReady(s) == [s EXCEPT !.wq = Append(@, ReadyMsg)]

-----------------------------------------------------------------------------
(* Worker thread.                                                          *)

\* P2PTransportChannel::OnSignalingReady: nothing unless it was asked for.
OnSignalingReady_w(s) ==
    IF s.waiting THEN [s EXCEPT !.waiting = FALSE, !.session = TRUE] ELSE s

OnRemoteCandidate_w(s, c) == [s EXCEPT !.remote = Append(@, c)]

\* Mutation: the candidate is stored, the signaling thread not told.
CandidateReadyUntold(s, c) == [s EXCEPT !.ready = Append(@, c)]

\* Transport::OnChannelCandidateReady.
OnChannelCandidateReady(s, c) ==
    [s EXCEPT !.ready = Append(@, c),
              !.sigq = IF s.connectReq THEN Append(@, "CANDIDATEREADY") ELSE @]

\* P2PTransportChannel::Allocate.
Allocate(s) ==
    [s EXCEPT !.waiting = TRUE, !.sigq = Append(@, "REQUESTSIGNALING")]

\* HandleWritable on a channel that was not.
BecomeWritable(s) ==
    [s EXCEPT !.writable = TRUE, !.sigq = Append(@, "WRITESTATE")]

\* HandleNotWritable or HandleAllTimedOut on a channel that was writable.
BecomeUnwritable(s) ==
    LET t == Allocate(s) IN
    [t EXCEPT !.writable = FALSE, !.sigq = Append(@, "WRITESTATE")]
=============================================================================
