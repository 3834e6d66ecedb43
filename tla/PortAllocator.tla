--------------------------- MODULE PortAllocator ----------------------------
(***************************************************************************)
(* The ports of a channel, on the worker thread: BasicNetworkManager, the  *)
(* BasicPortAllocatorSessions that the channel adds one after the other,   *)
(* their AllocationSequences, and the life of the UDP and STUN ports they  *)
(* open (network.cc, basicportallocator.cc, udpport.cc, port.cc), with the *)
(* part of P2PTransportChannel that starts, stops and replaces sessions.   *)
(*                                                                         *)
(* The thread runs its queue q in order; timers and network packets come   *)
(* at any time.  Relay and TCP ports are disabled (prober.cpp:76), so only *)
(* the first phase of a sequence opens ports; it runs in its constructor.  *)
(* Whether the channel is writable is decided by its connections (module   *)
(* P2PChannel) and is left open here.                                      *)
(***************************************************************************)
EXTENDS Naturals, Sequences, FiniteSets

CONSTANTS
    Nets,        \* network interfaces
    Ips,         \* the addresses they may have
    NoIp,        \* the address of an interface that is down
    MaxSessions, \* bound: allocator sessions of the channel
    MaxChanges   \* bound: changes of an address, and failed polls

ASSUME AllocatorAssumption ==
    /\ NoIp \notin Ips
    /\ MaxSessions \in Nat
    /\ MaxChanges \in Nat

VARIABLES
    ip,          \* the address each interface really has
    changes,     \* changes so far
    al           \* the state of the worker thread

vars == <<ip, changes, al>>

Gens    == 1 .. MaxSessions
Kinds   == {"udp", "stun"}
PortIds == Gens \X Nets \X Ips \X Kinds

\*   q          messages of the thread's queue; ids below
\*   known      networks_ of the network manager; first sent_first_update_;
\*              updating start_count_ > 0; poll says that the next
\*              kUpdateNetworksMessage is delayed
\*   ses        allocator_sessions_ of the channel
\*   port       every port; copies counts those opened under one identity
\*   current    ports_ of the channel; pinging, writable: its members
Init ==
    /\ ip \in [Nets -> Ips \cup {NoIp}]
    /\ changes = 0
    /\ al = [q |-> <<>>, known |-> [n \in Nets |-> NoIp], first |-> FALSE,
             updating |-> FALSE, poll |-> FALSE, ses |-> <<>>,
             port |-> [i \in PortIds |->
                         [life |-> "none", ready |-> FALSE, busy |-> FALSE,
                          signalled |-> 0, copies |-> 0]],
             current |-> {}, pinging |-> FALSE, writable |-> FALSE]

Msg(id, g) == [id |-> id, gen |-> g]
Post(s, m) == [s EXCEPT !.q = Append(@, m)]

Exists(s, i)   == s.port[i].life \notin {"none", "destroyed"}
PortsOf(s, G)  == {i \in PortIds : i[1] \in G /\ Exists(s, i)}
Sessions(s)    == DOMAIN s.ses

\* f with the value G(f[x]) for the x in S.
Update(f, S, G(_)) == [x \in DOMAIN f |-> IF x \in S THEN G(f[x]) ELSE f[x]]

-----------------------------------------------------------------------------
(* Ports.  The operators take the set of the ports that one handler treats *)
(* alike; those ports do not touch each other's state.                     *)

\* Port::Start, which only warns the second time.
Start(s, S) ==
    [s EXCEPT !.port = Update(@, S, LAMBDA r :
        IF r.life = "PRESTART" THEN [r EXCEPT !.life = "PRETIMEOUT"] ELSE r)]

\* P2PTransportChannel::OnPortReady: connections to the remote candidates
\* there are.
OnPortReady(s, S) ==
    [s EXCEPT !.current = @ \cup S,
              !.port = Update(@, S, LAMBDA r : [r EXCEPT !.busy = @ \/ s.pinging])]

\* SignalCandidatesReady for the candidates of the ports in S.
SignalCandidates(s, S) ==
    [s EXCEPT !.port = Update(@, S, LAMBDA r : [r EXCEPT !.signalled = @ + 1])]

\* Mutation: a port is made ready by each of its addresses.
MadeReadyAgain(s, S) == S

\* if (it->ready) return.
MadeReady(s, S) == {i \in S : ~s.port[i].ready}

\* BasicPortAllocatorSession::OnAddressReady; enabled tells whether the
\* sequence has enabled UDP.
OnAddressReady(s, S, enabled) ==
    LET R == MadeReady(s, S)
        t == OnPortReady(
               [s EXCEPT !.port = Update(@, R, LAMBDA r : [r EXCEPT !.ready = TRUE])], R)
    IN  IF enabled THEN SignalCandidates(t, R) ELSE t

\* AddAllocatedPort: a UDP port is bound and has its address at once, a STUN
\* port starts to ask for its own.
AddAllocatedPorts(s, S) ==
    LET t == [s EXCEPT !.port = Update(@, S, LAMBDA r :
                [life |-> "PRESTART", ready |-> FALSE, busy |-> FALSE,
                 signalled |-> 0, copies |-> r.copies + 1])]
        u == OnAddressReady(t, {i \in S : i[4] = "udp"}, FALSE)
    IN  Start(u, {i \in S : s.ses[i[1]].running})

\* Mutation: the channel is not told.
DestroyQuiet(s, i) == [s EXCEPT !.port[i].life = "destroyed"]

\* Port::Destroy, and OnPortDestroyed of the session and of the channel.
Destroy(s, i) ==
    [s EXCEPT !.port[i].life = "destroyed", !.current = @ \ {i}]

CheckTimeout(s, i) ==
    IF s.port[i].life = "POSTTIMEOUT" /\ ~s.port[i].busy THEN Destroy(s, i) ELSE s

-----------------------------------------------------------------------------
(* Sessions and sequences.                                                 *)

\* Mutation: the sequences that cover a network are not looked at.
UncoveredAll(s, g) ==
    {<<n, s.known[n]>> : n \in {m \in Nets : s.known[m] # NoIp}}

\* The networks that DisableEquivalentPhases leaves something to do for.
Uncovered(s, g) ==
    {<<n, s.known[n]>> : n \in {m \in Nets : s.known[m] # NoIp}} \ s.ses[g].seqs

\* DoAllocate of the sessions in G: a sequence, with a port of each kind, for
\* each such network; creating a socket fails for the kinds in bad.  At the
\* end of its phase a sequence enables UDP, which signals the candidates of
\* its ports that are ready.
DoAllocate(s, G, bad) ==
    LET S == {i \in PortIds : /\ i[1] \in G
                              /\ <<i[2], i[3]>> \in Uncovered(s, i[1])
                              /\ i[4] \notin bad}
        t == AddAllocatedPorts(s, S)
    IN  SignalCandidates(
          [t EXCEPT !.ses = [g \in DOMAIN t.ses |->
               IF g \in G THEN [t.ses[g] EXCEPT !.seqs = @ \cup Uncovered(s, g)]
                          ELSE t.ses[g]]],
          {i \in S : t.port[i].ready})

\* Mutation: MSG_ALLOCATE is posted whether or not allocation has started.
StartGetAllPortsAlways(s, G) ==
    Start([s EXCEPT !.ses = Update(@, G, LAMBDA r :
              [r EXCEPT !.running = TRUE, !.delayed = @ + 1])], PortsOf(s, G))

StartGetAllPorts(s, G) ==
    Start([s EXCEPT !.ses = Update(@, G, LAMBDA r :
              [r EXCEPT !.running = TRUE,
                        !.delayed = IF r.allocated THEN @ + 1 ELSE @])],
          PortsOf(s, G))

\* Clear(this, MSG_ALLOCATE); other messages that are under way stay.  A
\* message that is cleared keeps its place, to which Get pays no attention.
StopGetAllPorts(s, G) ==
    [s EXCEPT !.ses = Update(@, G, LAMBDA r :
                         [r EXCEPT !.running = FALSE, !.delayed = 0]),
              !.q = [k \in DOMAIN @ |-> IF @[k].id = "ALLOCATE" /\ @[k].gen \in G
                                        THEN Msg("cleared", 0) ELSE @[k]]]

OnNetworksChanged(s, bad) ==
    DoAllocate([s EXCEPT !.ses = Update(@, Sessions(s), LAMBDA r :
                                    [r EXCEPT !.networks = TRUE])],
               {g \in Sessions(s) : s.ses[g].allocated}, bad)

\* Mutation: a session that starts later is not told of the networks.
StartUpdatingQuiet(s) ==
    IF s.updating THEN s
    ELSE Post([s EXCEPT !.updating = TRUE, !.first = FALSE], Msg("UPDATENETWORKS", 0))

\* BasicNetworkManager::StartUpdating.
StartUpdating(s) ==
    IF ~s.updating
    THEN Post([s EXCEPT !.updating = TRUE, !.first = FALSE], Msg("UPDATENETWORKS", 0))
    ELSE IF s.first THEN Post(s, Msg("SIGNALNETWORKS", 0)) ELSE s

-----------------------------------------------------------------------------
(* Messages of the thread.                                                 *)

Dispatch(id, S(_, _)) ==
    /\ al.q # <<>>
    /\ Head(al.q).id = id
    /\ al' \in S([al EXCEPT !.q = Tail(@)], Head(al.q).gen)
    /\ UNCHANGED <<ip, changes>>

\* MessageQueue::Clear has taken the message out.
OnCleared == Dispatch("cleared", LAMBDA s, g : {s})

\* GetPortConfigurations, then OnConfigReady.
OnConfigStart ==
    Dispatch("CONFIG_START", LAMBDA s, g : {Post(s, Msg("CONFIG_READY", g))})

OnConfigReady ==
    Dispatch("CONFIG_READY", LAMBDA s, g : {Post(s, Msg("ALLOCATE", g))})

OnAllocate ==
    Dispatch("ALLOCATE", LAMBDA s, g :
        {[DoAllocate(s, IF s.ses[g].networks THEN {g} ELSE {}, bad) EXCEPT
             !.ses[g].allocated = TRUE,
             !.ses[g].delayed = IF s.ses[g].running THEN @ + 1 ELSE @] :
            bad \in SUBSET Kinds})

OnSignalNetworks ==
    Dispatch("SIGNALNETWORKS", LAMBDA s, g :
        {OnNetworksChanged(s, bad) : bad \in SUBSET Kinds})

\* DoUpdateNetworks, MergeNetworkList.
DoUpdateNetworks ==
    Dispatch("UPDATENETWORKS", LAMBDA s, g :
        LET t == [s EXCEPT !.known = ip, !.first = TRUE, !.poll = TRUE] IN
        IF s.known = ip THEN {t}
        ELSE {OnNetworksChanged(t, bad) : bad \in SUBSET Kinds})

\* The interfaces cannot be read: SignalError, which nobody listens to.
UpdateFails ==
    /\ al.q # <<>>
    /\ Head(al.q).id = "UPDATENETWORKS"
    /\ changes < MaxChanges
    /\ changes' = changes + 1
    /\ al' = [al EXCEPT !.q = Tail(@), !.poll = TRUE]
    /\ UNCHANGED ip

\* Delayed messages are due.
UpdateDue ==
    /\ al.poll
    /\ al' = [Post(al, Msg("UPDATENETWORKS", 0)) EXCEPT !.poll = FALSE]
    /\ UNCHANGED <<ip, changes>>

AllocateDue(g) ==
    /\ g \in Sessions(al)
    /\ al.ses[g].delayed > 0
    /\ al' = [Post(al, Msg("ALLOCATE", g)) EXCEPT !.ses[g].delayed = @ - 1]
    /\ UNCHANGED <<ip, changes>>

-----------------------------------------------------------------------------
(* The channel.                                                            *)

\* CreateSession and AddAllocatorSession.
AddAllocatorSession ==
    LET g == Len(al.ses) + 1
        s == StartUpdating(
               [al EXCEPT !.current = {},
                          !.ses = Append(@, [running |-> FALSE, delayed |-> 0,
                                             networks |-> FALSE,
                                             allocated |-> FALSE, seqs |-> {}])])
        t == Post(s, Msg("CONFIG_START", g))
    IN  /\ g <= MaxSessions
        /\ al' = IF al.pinging THEN StartGetAllPorts(t, {g}) ELSE t
        /\ UNCHANGED <<ip, changes>>

\* OnCandidate: connections from the ports in ports_, then, in
\* RememberRemoteCandidate, the first candidate starts the sessions.
OnCandidate ==
    LET s == [al EXCEPT !.pinging = TRUE,
                        !.port = Update(@, al.current, LAMBDA r :
                                           [r EXCEPT !.busy = TRUE])]
        G == {g \in Sessions(al) : ~al.ses[g].running}
    IN  /\ al' = IF al.pinging THEN s ELSE StartGetAllPorts(s, G)
        /\ UNCHANGED <<ip, changes>>

\* HandleWritable, when the channel was not.
HandleWritable ==
    /\ ~al.writable
    /\ \E i \in PortIds : al.port[i].busy
    /\ al' = [StopGetAllPorts(al, {g \in Sessions(al) : al.ses[g].running})
                EXCEPT !.writable = TRUE]
    /\ UNCHANGED <<ip, changes>>

HandleNotWritable ==
    /\ al.writable
    /\ al' = [al EXCEPT !.writable = FALSE]
    /\ UNCHANGED <<ip, changes>>

-----------------------------------------------------------------------------
(* Events of a port.                                                       *)

OfPort(s) == al' = s /\ UNCHANGED <<ip, changes>>

\* StunPortBindingRequest::OnResponse, for the first request and for each
\* keep-alive: AddAddress.
OnResponse(i) ==
    /\ i[4] = "stun"
    /\ Exists(al, i)
    /\ OfPort(OnAddressReady(al, {i}, TRUE))

\* A ping from an address that is not known: a connection, also for a port
\* the channel has dropped.  RememberRemoteCandidate's origin_port_ is left
\* out: it outlives its port, but GetOrigin only compares it, and neither
\* StunPort nor UDPPort looks at the result in CreateConnection.
OnUnknownAddress(i) ==
    /\ Exists(al, i)
    /\ al.port[i].ready
    /\ al.pinging
    /\ OfPort([al EXCEPT !.port[i].busy = TRUE])

\* The last of its connections is destroyed.
OnConnectionDestroyed(i) ==
    /\ al.port[i].busy
    /\ OfPort(CheckTimeout([al EXCEPT !.port[i].busy = FALSE], i))

\* MSG_CHECKTIMEOUT.
OnCheckTimeout(i) ==
    /\ al.port[i].life = "PRETIMEOUT"
    /\ OfPort(CheckTimeout([al EXCEPT !.port[i].life = "POSTTIMEOUT"], i))

-----------------------------------------------------------------------------
\* An interface gets another address, goes down or comes up.
ChangeAddress ==
    /\ changes < MaxChanges
    /\ changes' = changes + 1
    /\ \E n \in Nets, a \in Ips \cup {NoIp} : a # ip[n] /\ ip' = [ip EXCEPT ![n] = a]
    /\ UNCHANGED al

WorkerStep ==
    \/ OnCleared \/ OnConfigStart \/ OnConfigReady \/ OnAllocate
    \/ OnSignalNetworks \/ DoUpdateNetworks \/ UpdateFails

Next ==
    \/ WorkerStep
    \/ UpdateDue
    \/ \E g \in Gens : AllocateDue(g)
    \/ AddAllocatorSession \/ OnCandidate \/ HandleWritable \/ HandleNotWritable
    \/ \E i \in PortIds : \/ OnResponse(i) \/ OnUnknownAddress(i)
                          \/ OnConnectionDestroyed(i) \/ OnCheckTimeout(i)
    \/ ChangeAddress

\* The thread runs its queue, and the network manager polls.
Spec == Init /\ [][Next]_vars /\ WF_vars(WorkerStep) /\ WF_vars(UpdateDue)

-----------------------------------------------------------------------------
(* Properties.                                                             *)

Messages ==
    [id : {"CONFIG_START", "CONFIG_READY", "ALLOCATE", "SIGNALNETWORKS",
           "UPDATENETWORKS", "cleared"}, gen : 0 .. MaxSessions]

\* Every member of the network manager, the sessions and the ports has its
\* type, and a session has at most one delayed MSG_ALLOCATE.
TypeOK ==
    /\ ip \in [Nets -> Ips \cup {NoIp}]
    /\ changes \in 0 .. MaxChanges
    /\ al \in [q : Seq(Messages), known : [Nets -> Ips \cup {NoIp}],
               first : BOOLEAN, updating : BOOLEAN, poll : BOOLEAN,
               ses : Seq([running : BOOLEAN, delayed : 0 .. 1,
                          networks : BOOLEAN, allocated : BOOLEAN,
                          seqs : SUBSET (Nets \X Ips)]),
               port : [PortIds ->
                         [life : {"none", "PRESTART", "PRETIMEOUT",
                                  "POSTTIMEOUT", "destroyed"},
                          ready : BOOLEAN, busy : BOOLEAN,
                          signalled : Nat, copies : Nat]],
               current : SUBSET PortIds, pinging : BOOLEAN, writable : BOOLEAN]

\* The remote is told each address once: the candidate of a port is signalled
\* exactly once when the port is ready, whether the port was ready before its
\* sequence enabled UDP or after, and not again by a keep-alive's answer
\* (OnAddressReady, OnProtocolEnabled).
SignalledOnce ==
    \A i \in PortIds : al.port[i].signalled = IF al.port[i].ready THEN 1 ELSE 0

\* Polling, changes of address and back, and the repeated MSG_ALLOCATE never
\* open a second port of a session for the same address and kind.
NoPortTwice == \A i \in PortIds : al.port[i].copies <= 1

\* A port that was destroyed is not in ports_ of the channel, which a later
\* CreateConnections would call, and has no connection: whichever session it
\* belongs to, and however late it became ready (OnPortDestroyed).  Nothing is
\* said of origin_port_ of remote_candidates_, which nobody follows.
NoDanglingPort ==
    \A i \in PortIds : al.port[i].life \in {"none", "destroyed"} =>
        i \notin al.current /\ ~al.port[i].busy

\* No session waits for a message that will not come.  One that was not
\* stopped has allocated or will be told to; unless the machine has no
\* network, each one knows of the networks or is about to be told, whether it
\* was added before the first update, between it and its signal, or later;
\* one that has both covers every address known; and the polling goes on.
NoSessionForgotten ==
    LET Has(m) == \E k \in DOMAIN al.q : al.q[k] = m IN
    /\ al.updating =>
          Cardinality({k \in DOMAIN al.q : al.q[k].id = "UPDATENETWORKS"})
              + (IF al.poll THEN 1 ELSE 0) = 1
    /\ \A g \in Sessions(al) :
          LET r == al.ses[g] IN
          /\ \/ r.allocated
             \/ al.pinging /\ ~r.running
             \/ \E id \in {"CONFIG_START", "CONFIG_READY", "ALLOCATE"} : Has(Msg(id, g))
          /\ \/ r.networks
             \/ Has(Msg("SIGNALNETWORKS", 0))
             \/ \A n \in Nets : al.known[n] = NoIp
          /\ r.allocated /\ r.networks =>
                \A n \in Nets : al.known[n] # NoIp => <<n, al.known[n]>> \in r.seqs
=============================================================================
