# ProbICE in TLA+

ProbICE makes two hosts find a peer-to-peer path with libjingle's ICE and
reports how that went.  This directory models the parts that carry the
program's own logic: the chat server the two sides meet on, the client that
talks to it, the session handshake, libjingle's transport between its two
threads, the channel that chooses a connection, the ports it has, the STUN
requests that keep them open, the threads everything runs on, and the data and
the reports that the prober is there for.

## The system

| Part | State | Operations | Talks to |
|------|-------|------------|----------|
| dialog server, `dialog_server/index.js` | `peerObjects`, a `PeerClass` per socket | `onAccept`, `onData` / `processDialog` (login, send), `onClose` | clients, over TCP |
| `Peer`, `peer.cpp` | socket, `isOnline_`, a partial word | `Start`, `SendMessage`, `onConnectEvent`, `onReadEvent`, `onCloseEvent` | the server; signals to `IceProber` |
| `IceProber`, `prober.cpp`, `main.cpp` | `session_`, `remote_online_`, target channel, monitor | `Login`, the handlers of its messages and of `Peer`'s and `PPSession`'s signals | `Peer`, `PPSession`, the channel |
| `PPSession`, `ppsession.cpp` | `pending_candidates_`, the 50 s timer, the base's state | `Initiate`, `Accept`, `OnIncomingMessage`, transport signals | `IceProber` (messages), transport |
| `BaseSession`, `TransportProxy`, `session.cc` | `state_`, the proxy's state and unsent candidates | `SetState`, `SpeculativelyConnectChannels`, `CompleteNegotiation` | `PPSession`, `Transport` |
| `Transport`, `transport.cc` | `connect_requested_`, `ready_candidates_`, `writable_` | pairs of handlers `..._s` and `..._w` on two threads | channel (worker), session (signaling) |
| `P2PTransportChannel`, `p2ptransportchannel.cc` | connections, best one, ports, remote candidates, flags | sort, ping, allocate, ports, candidates, unknown addresses | ports and connections, `Transport` |
| `Connection`, `port.cc` | read and write state, pruned, pings, round-trip time | packets, `UpdateState`, `Prune`, deletion | channel, `StunRequestManager` |
| `BasicPortAllocator`, `BasicNetworkManager`, `Port` | sessions, sequences, networks, ports and their lifetime | `StartGetAllPorts`, `StopGetAllPorts`, `OnAllocate`, `DoUpdateNetworks`, `OnAddressReady`, `Start`, `Destroy` | channel, worker's queue |
| `StunPort`, `StunRequestManager`, `AsyncResolver` (a `SignalThread`) | requests with their count and delay; the lookup's state and reference count | `PrepareAddress`, `SendDelayed`, `CheckResponse`, `OnTimeout`; `Start`, `Destroy`, `OnMessage` | STUN server, allocator session |
| `Thread`, `MessageQueue`, `PhysicalSocketServer` | list of sent calls, queue, delayed messages, the wake-up pipe | `Send`, `Post`, `Clear`, `Get`, `Quit`, `Wait`, `WakeUp` | everything |
| `SocketMonitor` | `connection_infos_`, a snapshot of the channel | `Start`, `PollSocket`, reports | channel (worker), `IceProber` (signaling) |

A prober has three threads.  The main thread calls `Login` and then only waits.
The signaling thread owns the dialog socket, `IceProber` and the session; the
worker thread owns the channel, its ports and connections.  The two talk
through their message queues; only `Send` blocks.

What is hard here: two processes with three threads each and a server that any
of them may lose; messages that carry no data and re-read shared state when
they run; one wake-up pipe that nested calls share; objects used from two
threads without a lock; timers that race with what cancels them; deletion by a posted
message; and a cached "dirty" flag that decides whether a message is posted.
`PROJECT.json` lists these hazards at their lines with the properties that
watch them.

What makes each part correct:

* server: the table holds open sockets under their own names, readers end up
  with an exact view of who is there, only the owner removes an entry, and a
  dead one does leave;
* session: at most one side initiates, both agree when a session is
  established, no `ASSERT` fails, candidates arrive once and in order, unless
  one of their message is refused, and the handshake and the connecting phase
  end;
* transport: no wake-up between the two threads is lost, and the watchdog is
  armed exactly while the transport is not writable;
* channel: the best connection exists and decides writability, no change of a
  connection goes unsorted, useless connections are deleted, and an unwritable
  channel never stops allocating;
* ports: every network is allocated on once, every address signalled once, and
  a port that is destroyed is not in `ports_` and has no connection;
* STUN: there is always exactly one request under way, silence is reported in
  time, and the lookup's thread and object end safely whenever the port does;
* threads: a call is served once and returns, and nobody sleeps on work;
* data path: one chain of packets for each change of writability, and reports
  that end up showing the channel as it is.

## Modules

`DialogServer` is the server, one action per callback (Node runs one at a
time).  A socket is named by the process that opened it; each direction is a
FIFO of whole words, `fin` included.  `sid` really concatenates, so that the
comparison of sids can go wrong as it does in the code.

`PeerDialog` puts clients around the server that log in, send to anybody and
may vanish: the server's environment at its most general.  `view` is what an
application that believes every presence word would believe.

`Transport`, `PPSession` and `IceProber` are the prober.  The first two are
operators from the state of one process to its next state, one for each
function; `IceProber` has the actions, one for each message of a thread and
each event of a socket, together with `DialogServer`.  `pr[p]` is a process:
its session, its proxy and transport, its two queues.  `io` says that the
signaling thread is in `select`; it serves sockets only there, and goes on doing
so until a message has woken it, so a word may overtake a message that was
posted earlier.  A handler that ends the process (`exit`, a failing `ASSERT`, a
null pointer) leaves the reason in `dead` and the kernel's `fin` on the wire.
What the channel does is reduced to its effects here: candidates appear
(`Gather`), it becomes writable or stops being so (`Flip`), it allocates again
(`Reallocate`).

What comes in a transport message passes `PPSession::OnRemoteCandidates`
(`RemoteCandidates`), which completes the negotiation and then gives up the whole
message if `VerifyCandidate` refuses one of its candidates.  Which candidates
that are (those with no address, or with a port below 1024 that is not 80 or 443
of a public address) is the constant `Unverifiable`.  `got`, a history field,
is the list of the messages' candidates as they came; no action reads it.
`CandidatesConserved` says in two halves what becomes of a candidate: from
its gatherer to the partner's `OnTransportInfoMessage` nothing is lost, doubled
or reordered, and from there the channel gets exactly the messages of which no
candidate is refused.

`P2PChannel` is the channel and its connections on the worker thread, again as
operators on one record `ch`; handlers whose result depends on the clock or on
the order of equal connections return the set of possible results.  Times are
left out: `Timeouts` lets a readable connection become unreadable at any
check, and a pinged one unwritable.  That allows more than the clock would,
which is sound for what is shown to hold; in each violation run the timeouts
used are ones that a silent network really produces.
A port and a remote address make at most one connection, `<<p, k>>`, as
`Port::GetConnection` sees to.  `q` is the worker's queue; messages that
`Clear` takes out are left as `NULL`, which changes nothing but keeps the
positions of the rest.  Ports and remote addresses are finitely many, as
memory has it: a sort needs a first connection.

`PortAllocator` is what lies below the channel on the same thread: the network
manager's polling, the allocator sessions, their sequences and the ports.  `q`
is the thread's queue again, in order, with a message that was taken out left
as `cleared`, and delayed messages enter it at any time.  A port is named by its session, network, address and kind, and `copies`
counts how often one was opened under that name.  Writability is an input
here; the sort that `OnPortReady` runs at its end is part of `P2PChannel`.

`Queue` holds what several of these modules do with a list of messages:
`Without`, the loop of `MessageQueue::Clear` and `Thread::Clear`, and `Concat`.

`StunPort` is one STUN port with its requests, in steps of 50 ms, the unit of
all delays of the code, so that the retransmission schedule is the real one.
`SignalThread` is the object that runs its lookup, as operators from one state
to the next: `waits` says that the owner's thread is in `worker_.Stop()` or in
the destructor.  A method under `cs_` is one step.

`Threads` is `Thread`, `MessageQueue` and the wake-up pipe, with one step for
each critical section and for each flag that is touched without the lock.  A
thread is a stack: its loop, and one frame for each `Send` it waits in.  What
handlers do is left open: they send, post, quit and destroy as they like.
`SyncCall` is the abstract synchronous call, and `SendIsSyncCall` states that
`Threads` implements it; its mapping reads the nesting of calls off the stacks.

`DataPath` is the part of `IceProber` that begins where the handshake ends:
`setupTarget`, the chains of `MSG_DO_DATA` and `SocketMonitor`, on two threads.
`SendPacket` is three steps (test, read again, use), since no lock makes it
one.  The channel is reduced to its connections, the best one and
writability, which change arbitrarily.

`Handshake` is the abstract handshake of two partners, with no server, words or
queues.  `ImplementsHandshake` in `IceProber` states that the probers implement
it, with a phase read off the session's state.

The modules named `MC...` give the constants their values; `StunPort` and
`DataPath` need none.  `PeerDialogProofs`, `DataPathProofs`, `StunPortProofs`,
`PortAllocatorProofs`, `P2PChannelProofs`, `ThreadsProofs` and `IceProberProofs`
hold the theorems about the module in their name, and `QueueLemmas` what five
of them need of a queue: how appending, taking the head, blanking and `Without`
change its messages and their number of one kind.

Operators named as mutations (`OwnsEntryByName`, `ChooseStaysDirty`, ...) are
plausible mistakes in the definition that follows them.  Each property is
violated when one of them takes its place; no specification uses them.

## Runs

All passing runs explore the whole state space of their instance.

| Run | Instance | Shows |
|-----|----------|-------|
| `peer_dialog` | `a` and `a2` under one name, `b` under another; `a` and `b` may send one word | types; the table is coherent; presence is exact; only real users are deleted; gone processes are forgotten; every login is answered |
| `probe` | a pair; two candidates of `a`, the second of which is refused, one of `b`; `a`'s channel changes twice and allocates once more | types; handshake agrees; no `ASSERT`; candidates conserved; nothing is stranded; the watchdog |
| `probe_live` | a pair, one candidate and one change each | the handshake is that of `Handshake`, liveness included; connecting ends |
| `channel` | two ports on one network, one remote address, two answers | types; best connection sound; sorts are coming; the doomed are deleted; allocation goes on |
| `threads` | two threads; two calls one way, one the other; two posts or socket events; one mortal object, one mortal thread | nobody oversleeps; `Send` is the call of `SyncCall`, liveness included |
| `ports` | one interface with one address, two sessions, two changes or failures | types; candidates signalled once; no port twice; no destroyed port in `ports_` or with a connection; no session forgotten |
| `stun` | one port, the code's own delays | types; the pin-hole stays open; failure in time; the resolver is safe and is freed |
| `data` | two connections, four changes, two reports late | types; the last poll is what the file shows when no report is under way; a chain per notice; reports settle |

and the runs that end in a violation, each of one statement that a comment, an
assertion or a message of the program makes:

| Run | The statement | What happens |
|-----|---------------|--------------|
| `sid_collision` | "We delete *REAL* user only" | host 1 port 12 and host 11 port 2 have one sid; the kicked one takes the other's entry with it |
| `restart` | `ASSERT(state() == state)` | words for a session that was restarted abort the process |
| `live_deleted` | "If both read and write have timed out" | a connection revived after its `MSG_DELETE` was posted is deleted |
| `any_thread` | "This can get called on any thread that is convenient to write from!" | `SendPacket` on the signaling thread uses a connection that the worker deletes after the test |

Four more statements of the source were found untrue while modelling, and the
actions do what the code does.  "Remote is disconnected from server!"
(`prober.cpp:205`) is said of any peer that goes offline.  "without becoming
writable" (`p2ptransportchannel.cc:62`): an answer that comes late schedules an
allocation on a writable channel.  "we can always prune it again"
(`port.cc:784`): `pruned_` is never reset, so `Prune` does nothing the second
time.  "The minimum improvement in RTT that justifies a switch"
(`p2ptransportchannel.cc:55`): `ShouldSwitch` accepts a connection that is up
to that much slower.  None of them breaks a property above.

Some more behaviour is modelled as it is and claimed by no property, since the
source promises nothing about it.  A lookup of the STUN server that fails is
never tried again (`stunport.cc:227`).  `RETRY_TIMEOUT` is compared with the age
of one request, which never gets that old, so a silent server is asked for
ever.  A port that is opened for a session that was stopped is never started
and so never times out (`basicportallocator.cc:451`).  A port of a replaced
session that becomes ready late joins the newest one's ports
(`p2ptransportchannel.cc:195` wants only new ones there).  `isOnline_` is true
before there is a connection (`peer.cpp:11`).  A refused candidate takes the
others of its message with it (`ppsession.cpp:192`).  Every change of writability
adds a chain of packets that nothing ends (`prober.cpp:278`): `ChainPerNotice`
counts the chains and sets them no limit.  A poll of the monitor may be
overwritten before it is reported (`socketmonitor.cc:102`).  A channel that is writable before
`setupTarget` has connected its signal carries no packets until it changes
(`prober.cpp:324`).  A `Send` that has tested `fStop_` before the target stops is
released only by the target's deletion (`thread.cc:355`); the model assumes, as
the program does, that nobody is between that test and the list when the
thread is deleted.

Bounds.  Two processes with one name and a reader are what kick, close and
broadcast need; a third with the same name would only repeat the second's
steps.  The prober's properties are about pairs; `restart` adds the
third process.  Two candidates show order and duplication; as the second of
`a` is refused, it comes alone, which loses nothing else, or in one message with
the first, which is lost too.  In `probe_live` and `restart` none is refused.
Two changes of writability show a timer that is armed, cancelled and armed
again.  In the channel, two connections on one network are what comparing, switching and
pruning need; a ping under way may be answered after its connection has timed
out.  `MaxRequests` is 1 there and 2 in `live_deleted`.  `MaxAnswers` bounds how
often the signaling thread answers a request; two let an answer come late and
another allocation follow.  One remote address means that `RememberRemoteCandidate`
never drops an older generation: an instance with two addresses takes more
than five minutes to explore.  `P2PChannelProofs` covers it, with any number of
ports, addresses and generations.

Three calls between two threads are the least in which one waits for a call
while it serves one and has a third in its list; more events only add wake-ups
to a pipe that keeps one.  In `ports`, two sessions give a replaced one, and two
changes let an address go and come back; networks do not interact, so one
shows what a second would.  A port that has been destroyed is not opened again
in a session, since its sequence stays.  `stun` needs no bound: a request's
life is bounded by the code, `age` and `quiet` follow from it, and two names for
transactions are enough because an answer matches only the newest request or
none.  In `data`, `MaxChanges` counts sorts and deletions and `MaxReports` how
far the signaling thread may fall behind; the chains are bounded by the
changes.

Deadlock is checked for the channel, which never stops pinging, for the ports,
whose networks are polled for ever, for the data path and for the STUN port.  The other
systems may stop: everybody may have gone.

Fairness.  In `PeerDialog`, weak fairness of the server's callbacks for each
socket (Node serves every socket that has data) and of reading and closing in
the clients, whose threads do nothing else; nobody need connect, send or exit.
In `IceProber`, weak fairness of each thread's queue and of the sockets of the
signaling thread, of the clock, and of the allocator's next candidate; no
process need be started and no connection need ever work.  `P2PChannel` has no
liveness property and no fairness: packets may never come.  In `Threads`, weak
fairness of each thread: a handler ends, a lock that is free is taken, and a
thread that was stopped is deleted; nobody need call, post or stop.  In
`StunPort`, of the lookup, of the messages of the port's thread and of time; no
answer need come.  In `DataPath`, of the signaling thread, of the monitor's
poll and of the delayed messages.  `PortAllocator` states the fairness of the
queue and the polling, but its properties need none.

## Proofs

Every theorem holds for all values of the constants that the module's `ASSUME`
allows; the assumptions only say what kind of value each constant is.

| Module | Theorem | States |
|--------|---------|--------|
| `PeerDialogProofs` | `TypeCorrect` | `TypeOK` |
| | `RegistryIsCoherent` | `RegistryCoherent` |
| | `OnlyRealUsersDeleted` | `RealUserOnly`, when no two processes have one sid |
| | `PresenceIsExact` | `PresenceExact` |
| `DataPathProofs` | `DataTypes` | `TypeOK` |
| | `LastPollIsSeen` | `LastPollSeen` |
| | `OneChainPerNotice` | `ChainPerNotice` |
| `StunPortProofs` | `StunTypes` | `TypeOK` |
| | `PinholeStaysOpen` | `PinholeOpen` |
| | `RequestsFailInTime` | `FailsInTime` |
| | `ResolverIsSafe` | `ResolverSafe` |
| `PortAllocatorProofs` | `AllocatorTypes` | `TypeOK` |
| | `CandidateSignalledOnce` | `SignalledOnce` |
| | `PortOpenedOnce` | `NoPortTwice` |
| | `PortsNotDangling` | `NoDanglingPort` |
| | `SessionsRemembered` | `NoSessionForgotten` |
| `P2PChannelProofs` | `ChannelTypes` | `TypeOK` |
| | `BestNeverDangles` | `BestIsSound` |
| | `NoChangeOverlooked` | `SortIsComing` |
| | `DoomedAreDeleted` | `DoomedIsDeleted` |
| | `AllocationNeverStops` | `AllocationGoesOn` |
| `ThreadsProofs` | `NobodySleepsOnWork` | `NobodyOversleeps` |
| | `CallsAreServedOnce` | where each call is (`PlacesInv`), under `Objects` |
| | `SendRefined` | the safety part of `SendIsSyncCall`, under `Objects` |
| `IceProberProofs` | `ProberTypes` | `TypeOK` |
| | `NoWakeUpLost` | `NothingStranded` |
| | `WatchdogPending` | `Watchdog` |
| | `NoAssertFails` | `NoAssert`, under `OwnNames` |
| | `SessionsAgree` | `HandshakeAgrees`, under `OwnNames` |
| | `CandidatesKept` | `CandidatesConserved`, under `OwnNames` |
| | `HandshakeRefined` | the safety part of `ImplementsHandshake`, under `OwnNames` |

`StunInvariant`, `AllocatorInvariant`, `ChannelInvariant`, `ThreadsInvariant`,
`ProberInvariant` and `HandshakeInvariant` state the inductive invariants from
which the others of their module follow.

`PeerDialogProofs`.  `RegistryCoherent` is not inductive by itself.  An entry
has the pid of its socket only as long as no second login changes that pid, so
the invariant adds what is known of the words in flight: a process sends
exactly one login word, first and under its own name, and a socket whose login
has been handled has none left.  `OnlyRealUsersDeleted` assumes distinct sids,
which `sid_collision` shows to be needed.  `PresenceExact` needs
`RegistryCoherent` and the fact that a process that is not yet in the table has
no presence word coming; then the online list is the first thing it learns and
every later word changes belief and table alike.

`DataPathProofs`.  `LastPollSeen` says that a report is under way or the last
one shown is the monitor's.  What a report in hand carries matters once it is
shown, so `ReportInv` adds that it is `connection_infos_` unless another report is
queued behind it.  `ChainPerNotice` counts: the chains queued, delayed and in
hand against the changes of writability that were signalled.

`StunPortProofs`.  `PortInv` says that an open port whose server is known has
exactly one request, and places that request in its schedule: a sum of what
`GetNextDelay` returns (`Waits`) is the request's age plus what it still waits,
and the port's silence is bounded by what is left.  `PinholeOpen` and
`FailsInTime` read their limits off it.  `ThrInv` gives the meaning of the
resolver's `ref_count_` in each state of the thread: who holds it, and hence
that no step finds it freed.

`PortAllocatorProofs`, for any number of interfaces, addresses and sessions.
`SessionInv`: a session's configuration and `MSG_ALLOCATE` messages, queued or
delayed, are one chain, which goes on unless a stop cuts it.  `PortInv`: a port
that is ready was signalled once; a port that was opened was opened once and
belongs to a sequence of its session, so that no sequence opens it again; a port
that is gone is in no `ports_` and has no connection.  `ManagerInv`: there is one
poll exactly while updating, and before the first result no network is known.
`NoSessionForgotten` needs the chain and the manager together: a session knows
of the networks, or a signal is queued that will tell it, or there are none.

`P2PChannelProofs`, for any finite sets of ports and remote addresses and for
all preferences, generations, networks and round-trip times.  Until `Connect` the channel is
`ChannelInit`; after it, `Good` holds, whose parts are:

* `Shape`: types; `best_connection_` is one of `connections_`; a connection that
  is in no list is as its constructor leaves it, so that creating one needs no
  sort for what it was before; no `ASSERT` has failed;
* `AllocInv`: `was_writable_` is `writable_`; an unwritable channel waits for the
  signaling thread or has exactly one `MSG_ALLOCATE` delayed or queued, never
  both; and what it waits for is coming;
* `DoomedInv`: a connection that timed out both ways has its `MSG_DELETE` queued;
* `SortInv`: a dirty channel has its sort queued, and when no sort is queued the
  best connection is one that no other is preferred to and writability is that
  of the connections.

The first three are kept by the middle of a handler too, the last one only
between messages; the lemmas on `SortConnections` therefore start from `Sound`
and end in `Good`.  Two facts carry that proof: the comparison of connections is a
strict weak order, so that a first one in sorted order exists among finitely
many (`FirstInOrder`) and keeping the old best when `ShouldSwitch` declines is as
good as it must be; and pruning never touches the best connection, so
that a sort does not undo its own choice.

`ThreadsProofs`, for any threads, calls, objects and depth of nesting.  A thread
sleeps on work only if a wake-up was lost, and a wake-up can be lost between any
two of the steps that share a pipe, a flag and a list.  The pipe is one for all
frames of a thread, so the invariant is stated of every frame of every stack, not
only of the one that sleeps: either a wake-up is in the pipe, or a frame above has
read one and will put it back (`Awake`), or this frame has overlooked nothing
since it looked, unless the one that gave it something to do has yet to wake it
(`Alert`).  `CallInv` is what that needs of calls: a call is made by one
thread, the one its entry names, and listed by its target only.

`SendRefined` shows that each step is one of `SyncCall` or a stuttering step.  Its
hypothesis, `Objects`, is that the objects that serve calls are no threads and that
each object that may be destroyed serves some call.  What it needs beyond
`ThreadsInv` is where a call is, `PlaceInv`: about to be listed, or listed once, or
served by one frame of its target, never two of these, and only while it is open.
Most steps only move on within a frame or wake somebody, and nothing of them shows
(`QuietStep`, `CalmStep`).  The others do one of six things, each with its lemma:
a call is made (`OpensIt`), listed (`ListsIt`), taken up (`TakesUp`), served to its
end (`EndsIt`), returned from (`LeavesIt`), or lost with its object or thread
(`LosesThem`).  The abstract nesting is read off the stack frame by frame, and
`ConcatSpliced` says that what the frames below the last one show does not change.

`IceProberProofs` has three parts.  The first is about each process alone and
assumes nothing about names.  `Local` relates the two queues of a process, its
session, its transport's flags and its timer: which `MSG_...` is queued when
`ready_candidates_` is not empty, when the channel waits, when `writable()` and
`writable_` differ; in which states of the session candidates are kept back; and
that one `MSG_TIMEOUT` is delayed or queued exactly when the watchdog should run.
A handler runs while its own message is no longer queued, so `Local` has a
parameter for the message in hand, and there is one lemma for each function of
`Transport` and `PPSession` that says what it leaves of `Local`.  `Watchdog`
counts messages, which is what the lemmas on `Without` are for: `Clear` leaves none.

The second part is about two partners, the server between them, and everybody
else.  Its hypothesis is `OwnNames`: no two processes log in with one name, and
who is wanted by somebody wants nobody else.  That is how the program is to be used,
and nothing in it enforces it; `restart` shows what an old partner's words do to
a new process with the same name.  `HandshakeInv` says

* `Line`, of each connection: the login is the first word and sent once, what
  follows is addressed to the partner, and the server's end is as the client's;
* `Entry`: the table holds a process under its own name only, and every one
  that is connected and has logged in;
* `Known`: who has heard of its partner, or sent or received a message, has
  logged in, and so has the partner, so that the server drops nothing that a
  living partner should get;
* `Orderly`, of each process: `MSG_START` and `MSG_CREATE_SESSION` are handled
  once, `MSG_DO_INITIATE` only after the partner was heard of;
* `Pair`, of two partners: only one of them hears of the other's login, and
  what is on the two halves of each way between them is exactly what their two
  states imply: nothing, one message that opens (`initiate` or `accept`) with
  candidates behind it, or candidates only.

The argument for `Pair` is that the server serves logins one after the other and
tells only those who are in the table, so of two partners the second is
announced to the first and never the other way round.  It is stated of values
(two states, four streams), so that each kind of step is one lemma without a
primed variable: sending, relaying, dropping, reading each kind of message,
logging in, dying.  `HandshakeRefined` then needs no more than the states: each
step of a process is one of the abstract handshake because `Pair` says where the
partner is.

The third part follows the candidates, under the same hypothesis and for any set
of refused ones.  To each process some of its partner's have come (`Came`: all of
`got`), of which it has taken some (`Took`: the channel and the worker's queue),
and it has some of its own to give (`Gives`: what the handler in hand has sent,
kept back and ready).  One lemma for each function of `Transport` and `PPSession` says that
it moves candidates along this line and neither loses, doubles nor overtakes one
(`Flows`); `Passes` adds what a step brings in, the candidate `Gather` has
found or those of the message that is read (`Hands`).  `Kept` then sums up one
way between two partners: what has come to the one, what the two streams carry
(`Carried`) and what the other has left are the candidates gathered so far, in
order.  `Settled`, of each process alone, is the other half of the property: what
it took is what came in messages without a refused candidate.  Three facts come
from the second part: the server delivers to a living partner or to nobody who
lives (`SendRelays`), nobody is refused a login, and only messages of type
`transport` hold candidates (`Tidy`), so that `initiate` and `accept` may be read
without looking at theirs.  The sums are over sequences of any length; that
`Concat` splits where the sequence does is in `QueueLemmas` (`ConcatBoth`).

Only model-checked:

* liveness and what rests on fairness, for which TLAPS has no rules: the last
  conjunct of `Handshake!Spec` (`Settles`) and the fairness of `SyncCall`
  included;
* the statements of the violation runs, which are false.

## Plan

1. Done: the modules above, their runs, the two refinements, and the theorems
   above.
2. Left: an abstract channel (`Gather`, `Flip`, `Reallocate` of `IceProber`) that
   `P2PChannel` and `PortAllocator` implement together.

## Not modelled

Byte encodings (STUN, the candidate's text form, words that span two reads);
what makes `VerifyCandidate` refuse a candidate, beyond that it may; `HasChannel`,
which holds whenever it is asked, as there is one channel and `CompleteNegotiation`
has created it; `origin_port_` of a remote candidate, which outlives its port and is
only compared, with a result that neither kind of port reads; relay, TCP and raw
ports, which the prober disables; XMPP, media and tunnel
sessions of libjingle, which it does not use; the Android user interface and
the bundled OpenSSL and expat, nearly all of the repository's lines; `Reject`,
`Terminate` and `Info` of `PPSession`,
which nobody calls and which `IceProber` drops; `Reset` of the channel,
`SocketMonitor::Stop`, `Release` and the waiting `Destroy` of `SignalThread`, and
the second address of `StunPort`, which nobody calls; what the monitor's report
says beyond which connections there are, which one is best and writability; the
destruction of sessions, allocators and threads at the end of the process, which
`exit` cuts short.
