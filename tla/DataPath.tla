------------------------------ MODULE DataPath ------------------------------
(***************************************************************************)
(* What IceProber does with the channel once a session is under way        *)
(* (prober.cpp): it sends a packet every second, from the signaling thread *)
(* and, when the channel's writability changes, from the worker thread,    *)
(* and it reads the reports of a SocketMonitor (socketmonitor.cc), which   *)
(* polls the channel on the worker thread and reports on the signaling     *)
(* thread.  The channel is reduced to its connections, the best of them    *)
(* and writability; how SortConnections decides is in P2PChannel.          *)
(***************************************************************************)
EXTENDS Naturals, Sequences, FiniteSets

CONSTANTS
    Conns,       \* connections
    NULL,        \* no connection
    MaxChanges,  \* bound: sorts and deletions of the channel
    MaxReports   \* bound: reports that the signaling thread is late with

ASSUME DataAssumption ==
    /\ NULL \notin Conns
    /\ MaxChanges \in Nat
    /\ MaxReports \in Nat \ {0}

VARIABLES
    chan,      \* connections_, best_connection_ and writable_
    changes,   \* changes of the channel so far
    target,    \* setupTarget has run
    mon,       \* the monitor: "none", "started" or "monitoring", its
               \* connection_infos_, and whether MSG_MONITOR_POLL is delayed
    delayed,   \* MSG_DO_DATA messages that are not due yet
    queue,     \* the signaling thread's queue
    pc,        \* where the signaling thread is, and the pointer or the copy
               \* of connection_infos_ that it holds there
    seen,      \* what onMonitorCallback last wrote to the file
    notices    \* calls of onChannelWriteable by the channel

vars == <<chan, changes, target, mon, delayed, queue, pc, seen, notices>>
dataVars == <<delayed, notices>>

NoChannel == [conns |-> {}, best |-> NULL, writable |-> FALSE]
Idle == [at |-> "idle", conn |-> NULL, infos |-> NoChannel]

\* Mutation: the constructor leaves a member unset.
NewMonitorUnset == [state |-> "unset", infos |-> NoChannel, poll |-> FALSE]

NewMonitor == [state |-> "none", infos |-> NoChannel, poll |-> FALSE]

Init ==
    /\ chan = NoChannel
    /\ changes = 0
    /\ target = FALSE
    /\ mon = NewMonitor
    /\ delayed = 0
    /\ queue = <<>>
    /\ pc = Idle
    /\ seen = NoChannel
    /\ notices = 0

Count(id) == Cardinality({k \in DOMAIN queue : queue[k] = id})

-----------------------------------------------------------------------------
(* The worker thread.                                                      *)

\* onChannelWriteable, called by set_writable.  The packet itself, sent on
\* the thread that owns the channel, changes nothing here.
OnChannelWriteable(was) ==
    IF target /\ chan'.writable # was
    THEN delayed' = delayed + 1 /\ notices' = notices + 1
    ELSE UNCHANGED dataVars

\* Mutation: only the polls on time are reported.
OnConnectionMonitorQuiet ==
    /\ mon' = IF mon.state = "monitoring" THEN [mon EXCEPT !.infos = chan'] ELSE mon
    /\ UNCHANGED queue

\* OnConnectionMonitor and PollSocket(false).
OnConnectionMonitor ==
    IF mon.state = "monitoring"
    THEN /\ mon' = [mon EXCEPT !.infos = chan']
         /\ queue' = Append(queue, "MONITOR_SIGNAL")
    ELSE UNCHANGED <<mon, queue>>

\* Connections come up and SortConnections runs: it may switch the best one
\* and change writability, and tells the monitor.
SortConnections ==
    /\ changes < MaxChanges
    /\ changes' = changes + 1
    /\ \E new \in SUBSET Conns, w \in BOOLEAN :
          \E b \in IF chan.conns \cup new = {} THEN {NULL} ELSE chan.conns \cup new :
             /\ w => b # NULL
             /\ chan' = [conns |-> chan.conns \cup new, best |-> b, writable |-> w]
    /\ OnChannelWriteable(chan.writable)
    /\ OnConnectionMonitor
    /\ UNCHANGED <<target, pc, seen>>

\* A Connection deletes itself, because it has timed out or although it has
\* come back to life since (OnlyDoomedDeleted of P2PChannel);
\* OnConnectionDestroyed.
ConnectionDestroyed ==
    /\ changes < MaxChanges
    /\ changes' = changes + 1
    /\ \E c \in chan.conns :
          chan' = [chan EXCEPT !.conns = @ \ {c},
                               !.best = IF @ = c THEN NULL ELSE @]
    /\ UNCHANGED <<target, mon, delayed, queue, pc, seen, notices>>

\* Mutation: a poll on time does not gather the infos again.
PollSocketStale == [state |-> "monitoring", infos |-> mon.infos, poll |-> TRUE]

\* PollSocket(true).
PollSocket == [state |-> "monitoring", infos |-> chan, poll |-> TRUE]

\* MSG_MONITOR_START, then MSG_MONITOR_POLL when it is due.
OnMonitorPoll ==
    /\ mon.state = "started" \/ mon.poll
    /\ Count("MONITOR_SIGNAL") < MaxReports
    /\ mon' = PollSocket
    /\ queue' = Append(queue, "MONITOR_SIGNAL")
    /\ UNCHANGED <<chan, changes, target, pc, seen, dataVars>>

-----------------------------------------------------------------------------
(* The signaling thread.                                                   *)

\* setupTarget, once, after Initiate or Accept; the channel may be writable
\* by then.
SetupTarget ==
    /\ pc = Idle
    /\ ~target
    /\ target' = TRUE
    /\ mon' = [mon EXCEPT !.state = "started"]
    /\ UNCHANGED <<chan, changes, queue, pc, seen, dataVars>>

Dispatch(id) ==
    /\ pc = Idle
    /\ queue # <<>>
    /\ Head(queue) = id
    /\ queue' = Tail(queue)

\* Mutation: doData_s starts the chain again as well as going on with it.
DoDataTwice == delayed' = delayed + 2

\* signal_thread_->PostDelayed(1000, this, MSG_DO_DATA).
PostData == delayed' = delayed + 1

\* doData_s, SendPacket: the test of best_connection_.
DoData_s ==
    /\ Dispatch("DO_DATA")
    /\ pc' = [pc EXCEPT !.at = IF chan.best = NULL THEN "sent" ELSE "tested"]
    /\ UNCHANGED <<chan, changes, target, mon, delayed, seen, notices>>

\* SendPacket: best_connection_ is read again, and Send is called on it.
SendOn ==
    /\ pc.at = "tested"
    /\ pc' = [pc EXCEPT !.at = "sending", !.conn = chan.best]
    /\ UNCHANGED <<chan, changes, target, mon, delayed, queue, seen, notices>>

\* Send returns (when it fails, best_connection_ is read once more, for its
\* error).
Sent ==
    /\ pc.at = "sending"
    /\ pc' = [pc EXCEPT !.at = "sent", !.conn = NULL]
    /\ UNCHANGED <<chan, changes, target, mon, delayed, queue, seen, notices>>

DataAgain ==
    /\ pc.at = "sent"
    /\ PostData
    /\ pc' = Idle
    /\ UNCHANGED <<chan, changes, target, mon, queue, seen, notices>>

\* MSG_MONITOR_SIGNAL: connection_infos_ is copied under crit_, which is
\* released for the callback.
OnMonitorSignal ==
    /\ Dispatch("MONITOR_SIGNAL")
    /\ pc' = [pc EXCEPT !.at = "reporting", !.infos = mon.infos]
    /\ UNCHANGED <<chan, changes, target, mon, delayed, seen, notices>>

OnMonitorCallback ==
    /\ pc.at = "reporting"
    /\ seen' = pc.infos
    /\ pc' = Idle
    /\ UNCHANGED <<chan, changes, target, mon, delayed, queue, notices>>

\* A second has passed.
DataDue ==
    /\ delayed > 0
    /\ delayed' = delayed - 1
    /\ queue' = Append(queue, "DO_DATA")
    /\ UNCHANGED <<chan, changes, target, mon, pc, seen, notices>>

-----------------------------------------------------------------------------
SignalingStep ==
    \/ DoData_s \/ SendOn \/ Sent \/ DataAgain
    \/ OnMonitorSignal \/ OnMonitorCallback

Next ==
    \/ SortConnections \/ ConnectionDestroyed \/ OnMonitorPoll
    \/ SetupTarget \/ SignalingStep \/ DataDue

\* Both threads run and delayed messages become due.
Spec ==
    /\ Init
    /\ [][Next]_vars
    /\ WF_vars(SignalingStep)
    /\ WF_vars(OnMonitorPoll)
    /\ WF_vars(DataDue)

-----------------------------------------------------------------------------
(* Properties.                                                             *)

Channels == [conns : SUBSET Conns, best : Conns \cup {NULL}, writable : BOOLEAN]

\* Every variable of the data path and the monitor has its type.
TypeOK ==
    /\ chan \in Channels
    /\ changes \in 0 .. MaxChanges
    /\ target \in BOOLEAN
    /\ mon \in [state : {"none", "started", "monitoring"}, infos : Channels,
                poll : BOOLEAN]
    /\ delayed \in Nat
    /\ queue \in Seq({"DO_DATA", "MONITOR_SIGNAL"})
    /\ pc \in [at : {"idle", "tested", "sending", "sent", "reporting"},
               conn : Conns \cup {NULL}, infos : Channels]
    /\ seen \in Channels
    /\ notices \in Nat

\* When no report is queued or in hand, the file shows the last poll, although
\* all reports share connection_infos_ and the lock is released for the
\* callback: an old report never comes last.  A poll between two others may go
\* unseen, overwritten before it is reported.
LastPollSeen ==
    (Count("MONITOR_SIGNAL") = 0 /\ pc.at # "reporting") => seen = mon.infos

\* Every change of writability that the prober hears of starts a chain of
\* MSG_DO_DATA, and no chain ends, forks or starts otherwise: the number of
\* packets per second is the number of changes (onChannelWriteable reposts).
\* The code sets no limit to that number, so none is claimed.
ChainPerNotice ==
    delayed + Count("DO_DATA")
        + (IF pc.at \in {"tested", "sending", "sent"} THEN 1 ELSE 0) = notices

\* Once the channel stops changing, the file shows it as it is: also after a
\* deletion, which tells the monitor nothing.
ReportsSettle == <>[](target => seen = chan)

\* "This can get called on any thread that is convenient to write from!"
\* (p2ptransportchannel.cc:508): the connection that SendPacket sends on
\* exists until it has.
SendIsSafe == pc.at = "sending" => pc.conn \in chan.conns
=============================================================================
