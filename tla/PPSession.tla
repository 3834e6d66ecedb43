----------------------------- MODULE PPSession ------------------------------
(***************************************************************************)
(* PPSession (ppsession.cpp) on top of BaseSession: the initiate / accept  *)
(* / transport handshake of one process, and the 50 s watchdog.  All of it *)
(* runs on the signaling thread; s.out collects the messages a handler     *)
(* gives to SignalOutgoingMessage.                                         *)
(*                                                                         *)
(* Reject, Terminate and Info exist in PPSession but no caller sends them  *)
(* and IceProber drops them when they arrive.                              *)
(***************************************************************************)
EXTENDS Transport

Msg(type, cands) == [type |-> type, cands |-> cands]

(* The fields of s that belong here:                                       *)
(*   state    state_, or "NULL" while IceProber::session_ is NULL          *)
(*   pending  pending_candidates_                                          *)
(*   timer    MSG_TIMEOUT is posted and its time has not come              *)
(*   got      history: the candidates of each message that                 *)
(*            OnTransportInfoMessage was given, in order; no step reads it *)

\* BaseSession::SetState; IceProber::onStateChanged runs inside it, before
\* MSG_STATE is posted.
SetState(s, st) ==
    [s EXCEPT !.state = st,
              !.sigq = @ \o IF st = "RECEIVEDINITIATE"
                            THEN <<"DO_ACCEPT", "STATE">> ELSE <<"STATE">>]

\* The constructor leaves pending_candidates_ to CreateTransportProxies.
CreateTransportProxies(s) == [s EXCEPT !.pending = TRUE]

SendMsg(s, m) == [s EXCEPT !.out = Append(@, m)]

\* Mutation: the flush does not clear what it sent.
FlushKeepsUnsent(s) ==
    LET t == [s EXCEPT !.pending = FALSE] IN
    IF t.unsent = <<>> THEN t ELSE SendMsg(t, Msg("transport", t.unsent))

SendAllUnsentTransportInfoMessages(s) ==
    LET t == [s EXCEPT !.pending = FALSE] IN
    IF t.unsent = <<>> THEN t
    ELSE [SendMsg(t, Msg("transport", t.unsent)) EXCEPT !.unsent = <<>>]

Initiate(s) ==
    IF s.state # "INIT" THEN s
    ELSE LET t == SendMsg(CreateTransportProxies(s), Msg("initiate", <<>>))
         IN  SpeculativelyConnectChannels(SetState(t, "SENTINITIATE"))

Accept(s) ==
    IF s.state # "RECEIVEDINITIATE" THEN s
    ELSE SendAllUnsentTransportInfoMessages(
             SetState(SendMsg(s, Msg("accept", <<>>)), "SENTACCEPT"))

\* Mutation: a refused candidate is skipped, the others are let through.
RemoteCandidatesSkips(s, cands) ==
    OnRemoteCandidates(CompleteNegotiation(s), SelectSeq(cands, VerifyCandidate))

\* PPSession::OnRemoteCandidates: the negotiation is completed first; then
\* one candidate that cannot be verified makes it return false, and none of
\* the message's candidates reaches the channel.  HasChannel always holds:
\* there is one channel, and CompleteNegotiation has created it.
RemoteCandidates(s, cands) ==
    LET t == CompleteNegotiation(s) IN
    IF \A i \in DOMAIN cands : VerifyCandidate(cands[i])
    THEN OnRemoteCandidates(t, cands) ELSE t

\* CheckState's ASSERT aborts the process.
CheckState(s, expected, t) ==
    IF s.state # expected THEN [s EXCEPT !.dead = "assert"] ELSE t

\* An initiate or an accept carries no candidates: of OnRemoteCandidates, only
\* CompleteNegotiation does anything.
OnInitiateMessage(s) ==
    CheckState(s, "INIT",
        CompleteNegotiation(
            SetState(CreateTransportProxies(s), "RECEIVEDINITIATE")))

OnAcceptMessage(s) ==
    CheckState(s, "SENTINITIATE",
        CompleteNegotiation(
            SetState(SendAllUnsentTransportInfoMessages(s), "RECEIVEDACCEPT")))

\* No state is checked.
OnTransportInfoMessage(s, cands) ==
    RemoteCandidates([s EXCEPT !.got = Append(@, cands)], cands)

OnIncomingMessage(s, m) ==
    CASE m.type = "initiate"  -> OnInitiateMessage(s)
      [] m.type = "accept"    -> OnAcceptMessage(s)
      [] m.type = "transport" -> OnTransportInfoMessage(s, m.cands)

\* Mutations: a session that has only asked is "established"; one that was
\* accepted stays where it is.
OnStateTooEarly(s) ==
    IF s.state \in {"SENTINITIATE", "SENTACCEPT", "RECEIVEDACCEPT"}
    THEN SetState(s, "INPROGRESS") ELSE s
OnStateAcceptorOnly(s) ==
    IF s.state = "SENTACCEPT" THEN SetState(s, "INPROGRESS") ELSE s

\* BaseSession::OnMessage(MSG_STATE).
OnState(s) ==
    IF s.state \in {"SENTACCEPT", "RECEIVEDACCEPT"}
    THEN SetState(s, "INPROGRESS") ELSE s

\* Transport::OnChannelCandidateReady_s and OnTransportCandidatesReady.
OnCandidatesReady(s) ==
    LET t == [s EXCEPT !.ready = <<>>] IN
    IF ~s.connectReq THEN [s EXCEPT !.dead = "assert"]
    ELSE IF s.ready = <<>> THEN t
    ELSE IF s.pending THEN [t EXCEPT !.unsent = @ \o s.ready]
    ELSE SendMsg(t, Msg("transport", s.ready))

\* Mutations: the old timeout message is not cleared; none is ever posted.
OnTransportWritableNoClear(s) == [s EXCEPT !.timer = ~s.twritable]
OnTransportWritableNoTimer(s) ==
    [s EXCEPT !.timer = FALSE,
              !.sigq = Without(@, {"TIMEOUT"})]

\* Clear(this, MSG_TIMEOUT) takes the message back whether it is delayed or
\* already queued; then the watchdog is armed unless the transport works.
OnTransportWritable(s) ==
    [s EXCEPT !.timer = ~s.twritable,
              !.sigq = Without(@, {"TIMEOUT"})]

\* Transport::OnChannelWritableState_s.
OnChannelWritableState_s(s) ==
    IF s.twritable = s.writable THEN s
    ELSE OnTransportWritable([s EXCEPT !.twritable = s.writable])
=============================================================================
