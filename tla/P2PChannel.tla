----------------------------- MODULE P2PChannel -----------------------------
(***************************************************************************)
(* P2PTransportChannel (p2ptransportchannel.cc) and the Connections of its *)
(* ports (port.cc), on the worker thread: how connections are made, become *)
(* readable and writable, are pruned, time out and are deleted, how the    *)
(* best one is chosen, and when the channel asks for another allocation.   *)
(*                                                                         *)
(* The handlers are operators from the channel's state s to its next state *)
(* or, where the clock or the order of equal connections decides, to the   *)
(* set of its possible next states.  Times are left out: a timeout may     *)
(* have come whenever the state it ends allows one.  The thread runs its   *)
(* message queue s.q; s.io says that it waits in select, where packets are *)
(* served until a posted message has woken it.                             *)
(***************************************************************************)
EXTENDS Naturals, Sequences, FiniteSets

CONSTANTS
    Ports,       \* local ports the allocator may open
    Cands,       \* remote addresses
    Net,         \* the network of each port
    Pref, Gen,   \* preference and generation of ports and remote candidates
    User,        \* the remote username of each remote address
    Samples,     \* round-trip times that are measured
    None,        \* NULL
    MaxAnswers,  \* bound: answers of the signaling thread
    MaxRequests  \* bound: pings of one connection under way at a time

ASSUME ChannelAssumption ==
    /\ IsFiniteSet(Ports)
    /\ IsFiniteSet(Cands)
    /\ Net \in [Ports -> Nat]
    /\ Pref \in [Ports \cup Cands -> Nat]
    /\ Gen \in [Ports \cup Cands -> Nat]
    /\ DOMAIN User = Cands
    /\ Samples \subseteq Nat
    /\ None \notin (Ports \X Cands) \cup Cands
    /\ MaxAnswers \in Nat
    /\ MaxRequests \in Nat

VARIABLE ch      \* the state of the channel

DEFAULT_RTT == 3000
RTT_RATIO   == 3

Conns == Ports \X Cands
Nets  == {Net[p] : p \in Ports}
Network(c) == Net[c[1]]

\* Mutation: best_connection_ is left unset.
ChannelInitUnset ==
    [conns |-> {}, read |-> [c \in Conns |-> "TIMEOUT"],
     write |-> [c \in Conns |-> "CONNECT"], pruned |-> [c \in Conns |-> FALSE],
     pings |-> [c \in Conns |-> FALSE], reqs |-> [c \in Conns |-> 0],
     rtt |-> [c \in Conns |-> DEFAULT_RTT],
     best |-> "unset", dirty |-> FALSE, writable |-> FALSE, readable |-> FALSE,
     wasWritable |-> FALSE, wasTimedOut |-> TRUE,
     waiting |-> FALSE, asked |-> 0, left |-> MaxAnswers, delayed |-> 0,
     port |-> [p \in Ports |-> "none"], remote |-> {}, offered |-> {},
     ping |-> "off", session |-> FALSE, ok |-> TRUE, io |-> TRUE, q |-> <<>>]

\* The constructors of the channel and (for every connection) of Connection.
\*   conns          connections_
\*   read .. rtt    the members of each Connection; pings says whether some
\*                  ping has had no response since the last one, reqs counts
\*                  its requests that may still be answered
\*   asked, left    requests for signaling that are not answered yet, and
\*                  answers within the bound; delayed MSG_ALLOCATEs
\*   port, remote   the state of each port, remote_candidates_
\*   offered        candidates the signaling thread has posted
ChannelInit ==
    [conns |-> {}, read |-> [c \in Conns |-> "TIMEOUT"],
     write |-> [c \in Conns |-> "CONNECT"], pruned |-> [c \in Conns |-> FALSE],
     pings |-> [c \in Conns |-> FALSE], reqs |-> [c \in Conns |-> 0],
     rtt |-> [c \in Conns |-> DEFAULT_RTT],
     best |-> None, dirty |-> FALSE, writable |-> FALSE, readable |-> FALSE,
     wasWritable |-> FALSE, wasTimedOut |-> TRUE,
     waiting |-> FALSE, asked |-> 0, left |-> MaxAnswers, delayed |-> 0,
     port |-> [p \in Ports |-> "none"], remote |-> {}, offered |-> {},
     ping |-> "off", session |-> FALSE, ok |-> TRUE, io |-> TRUE, q |-> <<>>]

Init == ch = ChannelInit

-----------------------------------------------------------------------------
(* Messages.  The MSG_DELETEs posted by one handler stand next to each     *)
(* other and are one message; a message that was cleared is left as NULL.  *)

Msg(id, conns, cand) == [id |-> id, conns |-> conns, cand |-> cand]
SortMsg              == Msg("SORT", {}, None)
PingMsg              == Msg("PING", {}, None)
AllocateMsg          == Msg("ALLOCATE", {}, None)
ReadyMsg             == Msg("ONSIGNALINGREADY", {}, None)
CandidateMsg(k)      == Msg("ONREMOTECANDIDATE", {}, k)
DeleteMsg(S)         == Msg("DELETE", S, None)
NullMsg              == Msg("NULL", {}, None)

Post(s, m) == [s EXCEPT !.q = Append(@, m)]

RequestSort(s) == IF s.dirty THEN s ELSE [Post(s, SortMsg) EXCEPT !.dirty = TRUE]

Doomed(s) == {c \in s.conns : s.read[c] = "TIMEOUT" /\ s.write[c] = "TIMEOUT"}

\* Mutation: the check is made on the way to an unwritable state only.
CheckTimeoutWriteOnly(s, t) ==
    {c \in Doomed(t) \ Doomed(s) : s.write[c] # "TIMEOUT"}

\* Connection::CheckTimeout, for the connections whose state has changed.
CheckTimeout(s, t) == Doomed(t) \ Doomed(s)

\* set_read_state and set_write_state: a change asks for a sort, and the
\* connections that are of no more use post their own deletion.
SetStates(s, read, write) ==
    LET t == [s EXCEPT !.read = read, !.write = write]
        u == IF read # s.read \/ write # s.write THEN RequestSort(t) ELSE t
        D == CheckTimeout(s, t)
    IN  IF D = {} THEN u ELSE Post(u, DeleteMsg(D))

\* f with the value v on S.
Put(f, S, v) == [x \in DOMAIN f |-> IF x \in S THEN v ELSE f[x]]

-----------------------------------------------------------------------------
(* Allocation.                                                             *)

CancelPendingAllocate(s) ==
    [s EXCEPT !.delayed = 0,
              !.q = [i \in DOMAIN @ |-> IF @[i] = AllocateMsg THEN NullMsg
                                                             ELSE @[i]]]

\* SignalRequestSignaling goes to the signaling thread, which answers.
Allocate(s) ==
    [CancelPendingAllocate(s) EXCEPT
        !.waiting = TRUE,
        !.asked = IF @ < s.left THEN @ + 1 ELSE @]

\* AddAllocatorSession takes the ports of earlier sessions off ports_.
OnSignalingReady(s) ==
    IF ~s.waiting THEN s
    ELSE [s EXCEPT !.waiting = FALSE, !.session = TRUE,
                   !.port = [p \in Ports |-> IF @[p] = "current" THEN "old"
                                                                 ELSE @[p]],
                   !.delayed = @ + 1]

-----------------------------------------------------------------------------
(* Choosing the best connection.                                           *)

WriteOrder == [WRITABLE |-> 0, CONNECT |-> 1, TIMEOUT |-> 2]

Preference(c) == Pref[c[1]] * Pref[c[2]]
Generation(c) == Gen[c[1]] + Gen[c[2]]

\* CompareConnectionCandidates(a, b) > 0.
PrefersCandidates(a, b) ==
    \/ Preference(a) > Preference(b)
    \/ Preference(a) = Preference(b) /\ Generation(a) > Generation(b)

\* CompareConnections(a, b) > 0.
Prefers(s, a, b) ==
    LET wa == WriteOrder[s.write[a]]
        wb == WriteOrder[s.write[b]]
    IN  wa < wb \/ (wa = wb /\ PrefersCandidates(a, b))

\* ConnectionCompare.
SortsBefore(s, a, b) ==
    Prefers(s, a, b) \/ (~Prefers(s, b, a) /\ s.rtt[a] < s.rtt[b])

kMinImprovement == 10

ShouldSwitch(s, a, b) ==
    /\ a # b
    /\ \/ a = None
       \/ b = None
       \/ Prefers(s, b, a)
       \/ ~Prefers(s, a, b) /\ s.rtt[b] <= s.rtt[a] + kMinImprovement

\* The first connection of each network in sorted order; connections that
\* compare equal may stand in either order.
Leads(s) ==
    {f \in [Nets -> s.conns \cup {None}] :
        \A n \in Nets :
            LET S == {c \in s.conns : Network(c) = n} IN
            IF S = {} THEN f[n] = None
            ELSE f[n] \in S /\ \A c \in S : ~SortsBefore(s, c, f[n])}

\* The first of all.  The best connection was first after the last sort, and
\* stable_sort leaves it ahead of those that compare equal.
Tops(s) ==
    LET M == {c \in s.conns : \A d \in s.conns : ~SortsBefore(s, d, c)} IN
    IF M = {} THEN {None} ELSE IF s.best \in M THEN {s.best} ELSE M

GetBestConnectionOnNetwork(s, f, n) ==
    IF s.best # None /\ Network(s.best) = n THEN s.best ELSE f[n]

\* The connections that a writable one on their network makes useless.
Prunable(s, f) ==
    {c \in s.conns :
        LET primier == GetBestConnectionOnNetwork(s, f, Network(c)) IN
        /\ primier # c
        /\ s.write[primier] = "WRITABLE"
        /\ ~PrefersCandidates(c, primier)}

\* Connection::Prune, which does nothing the second time.
Prune(s, S) ==
    LET P == {c \in S : ~s.pruned[c]} IN
    SetStates([s EXCEPT !.pruned = Put(@, P, TRUE), !.reqs = Put(@, P, 0)],
              s.read, Put(s.write, P, "TIMEOUT"))

HandleWritable(s) ==
    [(IF s.writable THEN s ELSE CancelPendingAllocate(s)) EXCEPT
        !.wasWritable = TRUE, !.wasTimedOut = FALSE, !.writable = TRUE]

\* Mutation: a channel that was writable does not allocate again.
HandleNotWritableQuiet(s) ==
    [s EXCEPT !.wasWritable = FALSE, !.wasTimedOut = FALSE, !.writable = FALSE]

HandleNotWritable(s) ==
    [(IF s.wasWritable THEN Allocate(s) ELSE s) EXCEPT
        !.wasWritable = FALSE, !.wasTimedOut = FALSE, !.writable = FALSE]

HandleAllTimedOut(s) ==
    [(IF s.wasTimedOut THEN s ELSE Allocate(s)) EXCEPT
        !.wasWritable = FALSE, !.wasTimedOut = TRUE, !.writable = FALSE]

WritableConns(s) == {c \in s.conns : s.write[c] = "WRITABLE"}
ReadableConns(s) == {c \in s.conns : s.read[c] = "READABLE"}

\* ok records its ASSERT.
UpdateChannelState(s) ==
    [s EXCEPT
        !.ok = @ /\ s.writable = (s.best # None /\ s.write[s.best] = "WRITABLE"),
        !.readable = ReadableConns(s) # {}]

HandleStates(s) ==
    IF WritableConns(s) # {} THEN HandleWritable(s)
    ELSE IF \E c \in s.conns : s.write[c] = "CONNECT" THEN HandleNotWritable(s)
    ELSE HandleAllTimedOut(s)

\* What Connection::UpdateState may find has timed out.
Timeouts(s) ==
    {o \in [read : SUBSET ReadableConns(s),
            weak : SUBSET {c \in WritableConns(s) : s.pings[c]},
            lost : SUBSET {c \in s.conns : s.pings[c]}] :
        \A c \in o.lost : s.write[c] = "CONNECT" \/ c \in o.weak}

UpdateConnectionStates(s) ==
    {SetStates(s, Put(s.read, o.read, "TIMEOUT"),
                  Put(Put(s.write, o.weak, "CONNECT"), o.lost, "TIMEOUT")) :
        o \in Timeouts(s)}

\* Mutation: sort_dirty_ stays set.
ChooseStaysDirty(s, f, top) ==
    LET t == [s EXCEPT !.best = IF ShouldSwitch(s, @, top) THEN top ELSE @]
    IN  UpdateChannelState(HandleStates(Prune(t, Prunable(t, f))))

\* SortConnections once the states are up to date and the order is known.
Choose(s, f, top) ==
    LET t == [s EXCEPT !.dirty = FALSE,
                       !.best = IF ShouldSwitch(s, @, top) THEN top ELSE @]
    IN  UpdateChannelState(HandleStates(Prune(t, Prunable(t, f))))

SortConnections(s) ==
    UNION {UNION {{Choose(t, f, top) : top \in Tops(t)} : f \in Leads(t)} :
              t \in UpdateConnectionStates(s)}

-----------------------------------------------------------------------------
(* Connections come and go.                                                *)

ReceivedPing(s, S) == SetStates(s, Put(s.read, S, "READABLE"), s.write)

\* CreateConnection for the ports and addresses in S.
CreateConnections(s, S) == [s EXCEPT !.conns = @ \cup S]

RememberRemoteCandidate(s, k) ==
    [s EXCEPT !.remote = {j \in @ : Gen[j] >= Gen[k]} \cup {k}]

CurrentPorts(s) == {p \in Ports : s.port[p] = "current"}

\* Mutation: best_connection_ keeps the deleted connection.
OnConnectionDestroyedKeepsBest(s, S) ==
    LET t == [s EXCEPT
                !.conns = @ \ S, !.read = Put(@, S, "TIMEOUT"),
                !.write = Put(@, S, "CONNECT"), !.pruned = Put(@, S, FALSE),
                !.pings = Put(@, S, FALSE), !.reqs = Put(@, S, 0),
                !.rtt = Put(@, S, DEFAULT_RTT),
                !.q = [i \in DOMAIN @ |-> [s.q[i] EXCEPT !.conns = @ \ S]]]
    IN  IF s.best \in S THEN RequestSort(t) ELSE t

\* Connection::OnMessage: the objects are gone, with all that is queued for
\* them, and the channel does without them.
OnConnectionDestroyed(s, S) ==
    LET t == [s EXCEPT
                !.conns = @ \ S, !.read = Put(@, S, "TIMEOUT"),
                !.write = Put(@, S, "CONNECT"), !.pruned = Put(@, S, FALSE),
                !.pings = Put(@, S, FALSE), !.reqs = Put(@, S, 0),
                !.rtt = Put(@, S, DEFAULT_RTT),
                !.q = [i \in DOMAIN @ |-> [s.q[i] EXCEPT !.conns = @ \ S]]]
    IN  IF s.best \in S THEN RequestSort([t EXCEPT !.best = None]) ELSE t

\* connected() holds for every UDP connection.
IsPingable(s, c) ==
    \/ s.write[c] # "TIMEOUT"
    \/ ~s.writable /\ s.read[c] # "TIMEOUT"

\* The connections FindNextPingableConnection may choose, within the bound.
NextPingable(s) == {c \in s.conns : IsPingable(s, c) /\ s.reqs[c] < MaxRequests}

Ping(s, c) == [s EXCEPT !.pings[c] = TRUE, !.reqs[c] = @ + 1]

-----------------------------------------------------------------------------
(* Messages of the worker thread.                                          *)

\* The handler of the next message may leave the channel in any state of
\* Handler(s); an empty queue sends the thread back to select.
Dispatch(id, Handler(_)) ==
    /\ ch.q # <<>>
    /\ Head(ch.q).id = id
    /\ \E s \in Handler([ch EXCEPT !.q = Tail(@)]) :
           ch' = [s EXCEPT !.io = s.q = <<>>]

OnSort == Dispatch("SORT", SortConnections)

OnPing ==
    Dispatch("PING",
        LAMBDA s : UNION {LET t == [u EXCEPT !.ping = "delayed"] IN
                          IF NextPingable(t) = {} THEN {t}
                          ELSE {Ping(t, c) : c \in NextPingable(t)} :
                             u \in UpdateConnectionStates(s)})

OnAllocate == Dispatch("ALLOCATE", LAMBDA s : {Allocate(s)})

SignalingReadyMsg == Dispatch("ONSIGNALINGREADY", LAMBDA s : {OnSignalingReady(s)})

OnCandidate ==
    LET k == Head(ch.q).cand IN
    Dispatch("ONREMOTECANDIDATE",
        LAMBDA s : SortConnections(RememberRemoteCandidate(
                       CreateConnections(s, CurrentPorts(s) \X {k}), k)))

OnDelete ==
    Dispatch("DELETE",
             LAMBDA s : {OnConnectionDestroyed(s, Head(ch.q).conns)})

\* MessageQueue::Clear has taken the message out.
Cleared == Dispatch("NULL", LAMBDA s : {s})

\* A delayed message is due.
PingDue ==
    /\ ch.ping = "delayed"
    /\ ch' = [Post(ch, PingMsg) EXCEPT !.ping = "queued"]

AllocateDue ==
    /\ ch.delayed > 0
    /\ ch' = [Post(ch, AllocateMsg) EXCEPT !.delayed = @ - 1]

-----------------------------------------------------------------------------
(* The signaling thread.                                                   *)

\* Transport::ConnectChannels_w calls Connect while the worker waits for it.
Connect ==
    /\ ch.ping = "off"
    /\ ch' = [Post(Allocate(ch), PingMsg) EXCEPT !.ping = "queued"]

\* It answers a request for signaling.
Answer ==
    /\ ch.asked > 0
    /\ ch' = [Post(ch, ReadyMsg) EXCEPT !.asked = @ - 1, !.left = @ - 1]

\* It passes on a candidate of the remote.
Offer ==
    \E k \in Cands \ ch.offered :
        /\ ch.ping # "off"
        /\ ch' = [Post(ch, CandidateMsg(k)) EXCEPT !.offered = @ \cup {k}]

-----------------------------------------------------------------------------
(* Packets, and the allocator's ports.                                     *)

\* The thread serves a socket.
Serve(S) == ch.io /\ ch' \in S

\* It handles a message of another object; where that stands in the queue
\* is left open.
Handle(S) == \E s \in S : ch' = [s EXCEPT !.io = s.q = <<>>]

\* A port of the allocator session: connections to all remote candidates.
OnPortReady ==
    \E p \in Ports :
        /\ ch.session
        /\ ch.port[p] = "none"
        /\ Handle(SortConnections(CreateConnections(
                     [ch EXCEPT !.port[p] = "current"], {p} \X ch.remote)))

\* A port without connections whose time is over.
OnPortDestroyed ==
    \E p \in Ports :
        /\ ch.port[p] \in {"current", "old"}
        /\ \A c \in ch.conns : c[1] # p
        /\ Handle({[ch EXCEPT !.port[p] = "gone"]})

\* A ping from an address port p has no connection to, under a username that
\* is known: connections to it from every port, all of them readable.
OnUnknownAddress(p, k) ==
    LET S == (CurrentPorts(ch) \cup {p}) \X {k} IN
    /\ ch.port[p] \in {"current", "old"}
    /\ <<p, k>> \notin ch.conns
    /\ \E j \in ch.remote : User[j] = User[k]
    /\ Serve(SortConnections(RememberRemoteCandidate(
                 ReceivedPing(CreateConnections(ch, S), S), k)))

\* A packet of the remote restarts the checks of a connection that is only
\* writable no more.
Restart(s, c) ==
    IF ~s.pruned[c] /\ s.write[c] = "TIMEOUT"
    THEN SetStates(s, s.read, Put(s.write, {c}, "CONNECT")) ELSE s

OnBindingRequest(c) ==
    /\ c \in ch.conns
    /\ Serve({Restart(ReceivedPing(ch, {c}), c)})

OnData(c) ==
    /\ c \in ReadableConns(ch)
    /\ Serve({Restart(ch, c)})

OnConnectionRequestResponse(c) ==
    /\ c \in ch.conns
    /\ ch.reqs[c] > 0
    /\ \E r \in Samples :
           Serve({[SetStates(ch, ch.read, Put(ch.write, {c}, "WRITABLE"))
                     EXCEPT !.pings[c] = FALSE, !.reqs[c] = @ - 1,
                            !.rtt[c] = (RTT_RATIO * @ + r) \div (RTT_RATIO + 1)]})

\* An error that does not go away with a retry ends the connection.
OnConnectionRequestErrorResponse(c) ==
    /\ c \in ch.conns
    /\ ch.reqs[c] > 0
    /\ LET s == [ch EXCEPT !.reqs[c] = @ - 1] IN
       Serve({s, SetStates(s, s.read, Put(s.write, {c}, "TIMEOUT"))})

\* StunRequest gives up.
OnConnectionRequestTimeout(c) ==
    /\ c \in ch.conns
    /\ ch.reqs[c] > 0
    /\ Handle({[ch EXCEPT !.reqs[c] = @ - 1]})

WorkerStep ==
    \/ OnSort \/ OnPing \/ OnAllocate \/ SignalingReadyMsg
    \/ OnCandidate \/ OnDelete \/ Cleared

Packet(c) ==
    \/ OnBindingRequest(c) \/ OnData(c) \/ OnConnectionRequestResponse(c)
    \/ OnConnectionRequestErrorResponse(c) \/ OnConnectionRequestTimeout(c)

Next ==
    \/ WorkerStep
    \/ PingDue \/ AllocateDue
    \/ Connect \/ Answer \/ Offer
    \/ OnPortReady \/ OnPortDestroyed
    \/ \E p \in Ports, k \in Cands : OnUnknownAddress(p, k)
    \/ \E c \in Conns : Packet(c)

Spec == Init /\ [][Next]_ch

-----------------------------------------------------------------------------
(* Properties.                                                             *)

Messages ==
    [id : {"SORT", "PING", "ALLOCATE", "ONSIGNALINGREADY",
           "ONREMOTECANDIDATE", "DELETE", "NULL"},
     conns : SUBSET Conns, cand : Cands \cup {None}]

\* Every member of the channel and of its connections has its type, and the
\* pings of a connection stay within the bound.
TypeOK ==
    ch \in [conns : SUBSET Conns, read : [Conns -> {"READABLE", "TIMEOUT"}],
            write : [Conns -> {"WRITABLE", "CONNECT", "TIMEOUT"}],
            pruned : [Conns -> BOOLEAN], pings : [Conns -> BOOLEAN],
            reqs : [Conns -> 0 .. MaxRequests], rtt : [Conns -> Nat],
            best : Conns \cup {None}, dirty : BOOLEAN, writable : BOOLEAN,
            readable : BOOLEAN, wasWritable : BOOLEAN, wasTimedOut : BOOLEAN,
            waiting : BOOLEAN, asked : 0 .. MaxAnswers, left : 0 .. MaxAnswers,
            delayed : Nat, port : [Ports -> {"none", "current", "old", "gone"}],
            remote : SUBSET Cands, offered : SUBSET Cands,
            ping : {"off", "delayed", "queued"}, session : BOOLEAN,
            ok : BOOLEAN, io : BOOLEAN, q : Seq(Messages)]

Has(m) == \E i \in DOMAIN ch.q : ch.q[i] = m

\* best_connection_ never points to a deleted connection (deletion and
\* choice happen in different messages), and the ASSERT of
\* UpdateChannelState, that the channel is writable exactly when its best
\* connection is, never fails.
BestIsSound == ch.ok /\ (ch.best = None \/ ch.best \in ch.conns)

\* No change of a connection is overlooked: unless a MSG_SORT is coming, the
\* channel is writable exactly when some connection is, and no connection is
\* preferred to the best one; and sort_dirty_, which keeps RequestSort from
\* posting, is set only while a MSG_SORT is coming.
SortIsComing ==
    Has(SortMsg) \/
        /\ ~ch.dirty
        /\ ch.writable = (WritableConns(ch) # {})
        /\ ch.conns # {} => /\ ch.best # None
                            /\ \A c \in ch.conns : ~Prefers(ch, c, ch.best)

\* A connection that has timed out both ways has its MSG_DELETE coming:
\* otherwise it, and the port that waits for it, would stay for ever.
DoomedIsDeleted ==
    \A c \in Doomed(ch) :
        \E i \in DOMAIN ch.q : ch.q[i].id = "DELETE" /\ c \in ch.q[i].conns

\* A channel that is not writable never stops trying: a new allocation is
\* asked for or scheduled; and never more than one is scheduled.
AllocationGoesOn ==
    LET queued == {i \in DOMAIN ch.q : ch.q[i] = AllocateMsg} IN
    /\ ch.delayed + Cardinality(queued) <= 1
    /\ (ch.ping # "off" /\ ~ch.writable) =>
          ch.waiting \/ ch.delayed + Cardinality(queued) = 1
    /\ ch.waiting => ch.asked > 0 \/ ch.left = 0 \/ Has(ReadyMsg)

-----------------------------------------------------------------------------
(* What a comment in the code says of it, and what it does not do.         *)

\* "If both read and write have timed out" (port.cc:835): only then is a
\* connection deleted.
OnlyDoomedDeleted == [][\A c \in ch.conns \ ch'.conns : c \in Doomed(ch)]_ch
=============================================================================
