----------------------------- MODULE IceProber ------------------------------
(***************************************************************************)
(* The whole of ProbICE: the dialog server and the prober processes        *)
(* (main.cpp, prober.cpp, peer.cpp, ppsession.cpp over libjingle), each    *)
(* with a main, a signaling and a worker thread.                           *)
(*                                                                         *)
(* The signaling thread (Thread::Run) dispatches its queue and, when that  *)
(* is empty, waits in select; from there it serves the dialog socket until *)
(* a posted message wakes it.  s.io says that it is in the wait: sockets   *)
(* are served there only, and a message posted meanwhile may have to wait  *)
(* for the words that came with it.                                        *)
(***************************************************************************)
EXTENDS PPSession, DialogServer

CONSTANTS
    MyName,      \* the id each process logs in with
    RemoteName,  \* the id it wants to reach
    MaxCand,     \* bound: candidates each process gathers
    MaxAlloc,    \* bound: calls of Reallocate in each process
    MaxFlips     \* bound: changes of each channel's writable()

ASSUME ProberAssumption ==
    /\ MyName \in [Procs -> Names]
    /\ RemoteName \in [Procs -> Names]
    /\ \A p \in Procs : MyName[p] # RemoteName[p]
    /\ {MaxCand, MaxAlloc, MaxFlips} \subseteq [Procs -> Nat]

VARIABLE pr     \* the state of each process

vars == <<serverVars, pr>>

\* Mutation: the constructor leaves session_ unset.
ProberInitUnset ==
    [main |-> "off", sock |-> "none", dead |-> "no", io |-> FALSE,
     remoteOnline |-> FALSE, targets |-> 0,
     state |-> "unset", pending |-> FALSE, timer |-> FALSE, out |-> <<>>,
     proxy |-> "INIT", connectReq |-> FALSE, ready |-> <<>>, unsent |-> <<>>,
     twritable |-> FALSE, writable |-> FALSE, waiting |-> FALSE,
     session |-> FALSE, remote |-> <<>>, got |-> <<>>,
     made |-> 0, allocs |-> 0, flips |-> 0,
     sigq |-> <<>>, wq |-> <<>>]

\* Every member of a process that has not been started.
ProberInit ==
    [main |-> "off", sock |-> "none", dead |-> "no", io |-> FALSE,
     remoteOnline |-> FALSE, targets |-> 0,
     state |-> "NULL", pending |-> FALSE, timer |-> FALSE, out |-> <<>>,
     proxy |-> "INIT", connectReq |-> FALSE, ready |-> <<>>, unsent |-> <<>>,
     twritable |-> FALSE, writable |-> FALSE, waiting |-> FALSE,
     session |-> FALSE, remote |-> <<>>, got |-> <<>>,
     made |-> 0, allocs |-> 0, flips |-> 0,
     sigq |-> <<>>, wq |-> <<>>]

Init == ServerInit /\ pr = [p \in Procs |-> ProberInit]

Alive(p) == pr[p].main # "off" /\ pr[p].dead = "no"

\* The process ends (exit, abort or a signal): all that is left is the fin
\* that its kernel sends.
Die(p, reason) ==
    /\ pr' = [pr EXCEPT ![p] = [ProberInit EXCEPT !.main = "on",
                                                  !.dead = reason]]
    /\ c2s' = IF pr[p].sock = "open"
              THEN [c2s EXCEPT ![p] = Append(@, FinWord)] ELSE c2s
    /\ s2c' = [s2c EXCEPT ![p] = <<>>]
    /\ UNCHANGED <<up, conn, pid, peerObjects>>

\* A handler leaves the process in state s.  IceProber::onOutgoingMessage and
\* Peer::SendMessage address what it sent to remote_name_; Thread::Run then
\* goes back to the wait if the queue is empty.
Become(p, s) ==
    IF s.dead # "no" THEN Die(p, s.dead)
    ELSE /\ pr' = [pr EXCEPT ![p] = [s EXCEPT !.out = <<>>,
                                              !.io = @ \/ s.sigq = <<>>]]
         /\ c2s' = [c2s EXCEPT ![p] = @ \o
                      [i \in DOMAIN s.out |-> SendWord(RemoteName[p], s.out[i])]]
         /\ UNCHANGED <<up, conn, pid, peerObjects, s2c>>

-----------------------------------------------------------------------------
(* The main thread: Login posts MSG_START, then MSG_CREATE_SESSION.        *)

Login(p) ==
    /\ pr[p].main = "off"
    /\ Become(p, [pr[p] EXCEPT !.main = "login", !.sigq = <<"START">>])

PostCreateSession(p) ==
    /\ Alive(p)
    /\ pr[p].main = "login"
    /\ Become(p, [pr[p] EXCEPT !.main = "on",
                               !.sigq = Append(@, "CREATE_SESSION")])

-----------------------------------------------------------------------------
(* The signaling thread, posted messages.                                  *)

\* MessageQueue::Get returns m and Dispatch runs its handler.
Dispatch(p, m, Handler(_)) ==
    /\ Alive(p)
    /\ pr[p].sigq # <<>>
    /\ Head(pr[p].sigq) = m
    /\ Become(p, Handler([pr[p] EXCEPT !.sigq = Tail(@), !.io = FALSE]))

Exits(s, reason) == [s EXCEPT !.dead = reason]

\* Peer::onStart_w: connect fails at once, or goes on in the background.
onStart_w(p) ==
    \/ Dispatch(p, "START", LAMBDA s : [s EXCEPT !.sock = "connecting"])
    \/ Dispatch(p, "START", LAMBDA s : Exits(s, "noserver"))

createSession_s(p) ==
    Dispatch(p, "CREATE_SESSION", LAMBDA s : [s EXCEPT !.state = "INIT"])

\* Each call connects the channel's signals and starts a SocketMonitor.
setupTarget(s) == [s EXCEPT !.targets = @ + 1]

\* With session_ still NULL the call goes through a null pointer.
doInitiate_s(p) ==
    Dispatch(p, "DO_INITIATE",
             LAMBDA s : IF s.state = "NULL" THEN Exits(s, "nullsession")
                        ELSE setupTarget(Initiate(s)))

doAccept_s(p) == Dispatch(p, "DO_ACCEPT", LAMBDA s : setupTarget(Accept(s)))

StateMsg(p)          == Dispatch(p, "STATE", OnState)
CandidateReadyMsg(p) == Dispatch(p, "CANDIDATEREADY", OnCandidatesReady)
ConnectingMsg(p)     == Dispatch(p, "CONNECTING", OnTransportWritable)
WriteStateMsg(p)     == Dispatch(p, "WRITESTATE", OnChannelWritableState_s)

\* onSignalRequest.
RequestSignalingMsg(p) == Dispatch(p, "REQUESTSIGNALING", OnSignalingReady)

onSessionTimeout(p) ==
    Dispatch(p, "TIMEOUT", LAMBDA s : Exits(s, "timeout"))

\* The 50 s have passed: Get moves the message behind those in the queue.
TimeoutDue(p) ==
    /\ Alive(p)
    /\ pr[p].timer
    /\ Become(p, [pr[p] EXCEPT !.timer = FALSE, !.sigq = Append(@, "TIMEOUT")])

-----------------------------------------------------------------------------
(* The signaling thread, the dialog socket (Peer).                         *)

onConnectEvent(p) ==
    /\ up
    /\ Alive(p)
    /\ pr[p].io
    /\ pr[p].sock = "connecting"
    /\ pr' = [pr EXCEPT ![p].sock = "open"]
    /\ conn' = [conn EXCEPT ![p] = "open"]
    /\ c2s' = [c2s EXCEPT ![p] = Append(@, LoginWord(MyName[p]))]
    /\ UNCHANGED <<up, pid, peerObjects, s2c>>

\* onCloseEvent: isOnline_ is true from the constructor on, so SignalOffline
\* it is, also when no connection ever stood.
onCloseEvent(p) ==
    /\ Alive(p)
    /\ pr[p].io
    /\ \/ pr[p].sock = "connecting" /\ ~up
       \/ /\ pr[p].sock = "open"
          /\ s2c[p] # <<>>
          /\ Head(s2c[p]) = FinWord
    /\ Die(p, "disconnected")

\* onReadEvent and processXML hand the next word w to a handler.
Reads(p, w, Handler(_)) ==
    /\ Alive(p)
    /\ pr[p].io
    /\ pr[p].sock = "open"
    /\ s2c[p] # <<>>
    /\ Head(s2c[p]) = w
    /\ LET s == Handler(pr[p]) IN
       IF s.dead # "no" THEN Die(p, s.dead)
       ELSE /\ pr' = [pr EXCEPT ![p] = [s EXCEPT !.out = <<>>]]
            /\ s2c' = [s2c EXCEPT ![p] = Tail(@)]
            /\ c2s' = [c2s EXCEPT ![p] = @ \o
                      [i \in DOMAIN s.out |-> SendWord(RemoteName[p], s.out[i])]]
            /\ UNCHANGED <<up, conn, pid, peerObjects>>

RemoteArrived(p, n, s) == n = RemoteName[p] /\ ~s.remoteOnline

onRemoteLogin(p) ==
    \E n \in Names :
        Reads(p, LoginWord(n),
              LAMBDA s : IF RemoteArrived(p, n, s)
                         THEN [s EXCEPT !.remoteOnline = TRUE,
                                        !.sigq = Append(@, "DO_INITIATE")]
                         ELSE s)

\* onRemoteOnline does nothing.
onRemoteOnline(p) ==
    \E S \in SUBSET Names : Reads(p, OnlineWord(S), LAMBDA s : s)

\* onRemoteOffline looks at no name.
onRemoteOffline(p) ==
    \E n \in Names :
        Reads(p, OfflineWord(n), LAMBDA s : Exits(s, "remoteoffline"))

onRemoteMessage(p) ==
    \E n \in Names :
        /\ s2c[p] # <<>>
        /\ Reads(p, MessageWord(n, Head(s2c[p]).body),
                 LAMBDA s : IF s.state = "NULL" THEN Exits(s, "nullsession")
                            ELSE OnIncomingMessage(s, Head(s2c[p]).body))

-----------------------------------------------------------------------------
(* The worker thread.                                                      *)

Works(p, m, Handler(_)) ==
    /\ Alive(p)
    /\ pr[p].wq # <<>>
    /\ Head(pr[p].wq).id = m
    /\ Become(p, Handler([pr[p] EXCEPT !.wq = Tail(@)]))

SignalingReadyMsg(p) == Works(p, "ONSIGNALINGREADY", OnSignalingReady_w)

RemoteCandidateMsg(p) ==
    Works(p, "ONREMOTECANDIDATE",
          LAMBDA s : OnRemoteCandidate_w(s, Head(pr[p].wq).cand))

\* The allocator session reports its next candidate.
Gather(p) ==
    /\ Alive(p)
    /\ pr[p].session
    /\ pr[p].made < MaxCand[p]
    /\ Become(p, [OnChannelCandidateReady(pr[p], <<p, pr[p].made + 1>>)
                     EXCEPT !.made = @ + 1])

\* A connection to one of the remote candidates works, or no longer does.
\* Each change also starts one more chain of MSG_DO_DATA per setupTarget.
Flip(p) ==
    /\ Alive(p)
    /\ pr[p].remote # <<>>
    /\ pr[p].flips < MaxFlips[p]
    /\ Become(p, [(IF pr[p].writable THEN BecomeUnwritable(pr[p])
                                     ELSE BecomeWritable(pr[p]))
                     EXCEPT !.flips = @ + 1])

\* MSG_ALLOCATE, or every connection timed out.
Reallocate(p) ==
    /\ Alive(p)
    /\ pr[p].session
    /\ pr[p].allocs < MaxAlloc[p]
    /\ Become(p, [Allocate(pr[p]) EXCEPT !.allocs = @ + 1])

-----------------------------------------------------------------------------
\* The user stops the process, or it crashes.
Kill(p) == Alive(p) /\ Die(p, "killed")

SignalStep(p) ==
    \/ onStart_w(p) \/ createSession_s(p) \/ doInitiate_s(p) \/ doAccept_s(p)
    \/ StateMsg(p) \/ CandidateReadyMsg(p) \/ RequestSignalingMsg(p)
    \/ ConnectingMsg(p) \/ WriteStateMsg(p) \/ onSessionTimeout(p)

PeerStep(p) ==
    \/ onConnectEvent(p) \/ onCloseEvent(p)
    \/ onRemoteLogin(p) \/ onRemoteOnline(p)
    \/ onRemoteOffline(p) \/ onRemoteMessage(p)

WorkerMsg(p) == SignalingReadyMsg(p) \/ RemoteCandidateMsg(p)

ProberStep(p) ==
    \/ Login(p) \/ PostCreateSession(p)
    \/ SignalStep(p) \/ PeerStep(p) \/ TimeoutDue(p)
    \/ WorkerMsg(p) \/ Gather(p) \/ Flip(p) \/ Reallocate(p)
    \/ Kill(p)

Next ==
    \/ \E p \in Procs : ServerStep(p) /\ UNCHANGED pr
    \/ \E p \in Procs : ProberStep(p)
    \/ ServerDies /\ UNCHANGED pr

\* Every thread keeps running its queue and its sockets, time passes, and
\* the allocator session that was started reports its candidates.  Nobody
\* need start a process, and no connection need ever work.
Fairness ==
    \A p \in Procs :
        /\ WF_vars(ServerStep(p) /\ UNCHANGED pr)
        /\ WF_vars(PostCreateSession(p))
        /\ WF_vars(SignalStep(p))
        /\ WF_vars(PeerStep(p))
        /\ WF_vars(TimeoutDue(p))
        /\ WF_vars(WorkerMsg(p))
        /\ WF_vars(Gather(p))

Spec == Init /\ [][Next]_vars /\ Fairness

-----------------------------------------------------------------------------
(* Properties.                                                             *)

States == {"NULL", "INIT", "SENTINITIATE", "RECEIVEDINITIATE", "SENTACCEPT",
           "RECEIVEDACCEPT", "INPROGRESS"}

SignalIds == {"START", "CREATE_SESSION", "DO_INITIATE", "DO_ACCEPT", "STATE",
              "CANDIDATEREADY", "REQUESTSIGNALING", "CONNECTING",
              "WRITESTATE", "TIMEOUT"}

Reasons == {"no", "noserver", "disconnected", "remoteoffline", "timeout",
            "assert", "nullsession", "killed"}

Candidates == UNION {{p} \X (1 .. MaxCand[p]) : p \in Procs}

ProberType(p) ==
    [main : {"off", "login", "on"}, sock : {"none", "connecting", "open"},
     dead : Reasons, io : BOOLEAN, remoteOnline : BOOLEAN, targets : Nat,
     state : States, pending : BOOLEAN, timer : BOOLEAN, out : {<<>>},
     proxy : {"INIT", "CONNECTING", "NEGOTIATED"}, connectReq : BOOLEAN,
     ready : Seq(Candidates), unsent : Seq(Candidates),
     twritable : BOOLEAN, writable : BOOLEAN, waiting : BOOLEAN,
     session : BOOLEAN, remote : Seq(Candidates), got : Seq(Seq(Candidates)),
     made : 0 .. MaxCand[p], allocs : 0 .. MaxAlloc[p], flips : 0 .. MaxFlips[p],
     sigq : Seq(SignalIds),
     wq : Seq([id : {"ONSIGNALINGREADY", "ONREMOTECANDIDATE"},
               cand : Candidates \cup {<<>>}])]

\* Every member of a prober and every variable of the server has its type;
\* a handler leaves nothing in out (onOutgoingMessage sends it at once).
TypeOK ==
    /\ DOMAIN pr = Procs
    /\ \A p \in Procs : pr[p] \in ProberType(p)
    /\ up \in BOOLEAN
    /\ conn \in [Procs -> {"none", "open", "ended", "closed"}]
    /\ pid \in [Procs -> Names \cup {NoName}]
    /\ peerObjects \in [Names -> Procs \cup {NoProc}]

Has(q, m) == \E i \in DOMAIN q : q[i] = m

\* No wake-up is lost between the two threads: candidates that wait in
\* ready_candidates_ have a MSG_CANDIDATEREADY coming, a channel that waits
\* for signaling an answer or a request on its way, and a writable() that
\* Transport::writable_ does not show yet a MSG_WRITESTATE; candidates that
\* were kept back (unsent) are kept only while the handshake is pending.
NothingStranded ==
    \A p \in Procs : Alive(p) =>
        LET s == pr[p] IN
        /\ s.ready # <<>> => Has(s.sigq, "CANDIDATEREADY")
        /\ s.waiting => Has(s.sigq, "REQUESTSIGNALING") \/ Has(s.wq, ReadyMsg)
        /\ s.writable # s.twritable => Has(s.sigq, "WRITESTATE")
        /\ s.unsent # <<>> => s.pending

\* The watchdog of OnTransportWritable: from MSG_CONNECTING on, the timeout
\* is pending (delayed or queued, once) exactly while the transport is not
\* writable, through any number of changes.
Watchdog ==
    \A p \in Procs : Alive(p) =>
        LET s == pr[p]
            pendingTimeouts ==
                Cardinality({i \in DOMAIN s.sigq : s.sigq[i] = "TIMEOUT"})
                    + (IF s.timer THEN 1 ELSE 0)
        IN  pendingTimeouts = IF /\ s.connectReq
                                 /\ ~Has(s.sigq, "CONNECTING")
                                 /\ ~s.twritable
                              THEN 1 ELSE 0

\* Two processes that want each other.
Pairs == {pq \in Procs \X Procs : /\ RemoteName[pq[1]] = MyName[pq[2]]
                                  /\ RemoteName[pq[2]] = MyName[pq[1]]}

\* At most one of two partners initiates, and a session that is "established"
\* on one side is past its own handshake on the other (Initiate, Accept,
\* OnInitiateMessage, OnAcceptMessage, OnState).
HandshakeAgrees ==
    \A pq \in Pairs :
        LET s == pr[pq[1]]
            t == pr[pq[2]]
        IN  Alive(pq[1]) /\ Alive(pq[2]) =>
              /\ ~(s.remoteOnline /\ t.remoteOnline)
              /\ s.state = "INPROGRESS" =>
                    t.state \notin {"NULL", "INIT", "RECEIVEDINITIATE"}
              /\ s.state = "RECEIVEDACCEPT" =>
                    t.state \in {"SENTACCEPT", "INPROGRESS"}

\* No ASSERT of CheckState (ppsession.cpp:163), of SpeculativelyConnectChannels
\* (session.cc:109) or of OnChannelCandidateReady_s (transport.cc:398) fails:
\* messages reach a session only in the states that expect them.
NoAssert == \A p \in Procs : pr[p].dead # "assert"

\* The candidates in a stream of words, in order.
Carried(q) ==
    Concat([i \in DOMAIN q |-> IF q[i].type \in {"send", "message"}
                               THEN q[i].body.cands ELSE <<>>])

\* The candidates queued for the worker thread.
Queued(q) == Concat([i \in DOMAIN q |-> IF q[i].cand = <<>> THEN <<>>
                                        ELSE <<q[i].cand>>])

\* The messages in g none of whose candidates VerifyCandidate refuses.
Verified(g) ==
    [i \in DOMAIN g |-> IF \A j \in DOMAIN g[i] : VerifyCandidate(g[i][j])
                       THEN g[i] ELSE <<>>]

\* Every candidate a process gathers is on its way to its partner's session
\* exactly once and in order: in ready_candidates_, kept back as unsent, in one
\* of the two streams, or in a message that OnTransportInfoMessage was given.
\* Of those messages the channel gets, exactly once and in order, what they
\* carry (some of it still in the worker's queue); only a message with a
\* candidate that VerifyCandidate refuses is lost, and it is lost whole
\* (PPSession::OnRemoteCandidates).
CandidatesConserved ==
    /\ \A pq \in Pairs :
          LET s == pr[pq[1]]
              t == pr[pq[2]]
          IN  up /\ Alive(pq[1]) /\ Alive(pq[2]) =>
                Concat(t.got) \o Carried(s2c[pq[2]])
                  \o Carried(c2s[pq[1]]) \o s.unsent \o s.ready
                = [k \in 1 .. s.made |-> <<pq[1], k>>]
    /\ \A p \in Procs : Alive(p) =>
          pr[p].remote \o Queued(pr[p].wq) = Concat(Verified(pr[p].got))

\* "to make sure that it becomes writable within a reasonable amount of time"
\* (ppsession.cpp:218): connecting ends in a writable transport or in exit.
ConnectingEnds ==
    \A p \in Procs : pr[p].connectReq ~> (pr[p].twritable \/ ~Alive(p))

\* What a session shows of the handshake.
Phase(s) ==
    IF s.dead # "no" THEN "gone"
    ELSE CASE s.state \in {"NULL", "INIT"}                  -> "idle"
           [] s.state = "SENTINITIATE"                      -> "inviting"
           [] s.state = "RECEIVEDINITIATE"                  -> "invited"
           [] s.state \in {"SENTACCEPT", "RECEIVEDACCEPT"}  -> "accepted"
           [] s.state = "INPROGRESS"                        -> "established"

Paired   == {pq[1] : pq \in Pairs}
PairedTo == [p \in Paired |-> CHOOSE q \in Procs : <<p, q>> \in Pairs]

Shake == INSTANCE Handshake WITH
    Parties <- Paired, Partner <- PairedTo,
    phase <- [p \in Paired |-> Phase(pr[p])]

\* The two sessions implement the abstract handshake, through the server, the
\* words under way, the queues of both signaling threads, and deaths at any
\* time (Initiate, Accept, OnInitiateMessage, OnAcceptMessage, OnState).
ImplementsHandshake == Shake!Spec
=============================================================================
