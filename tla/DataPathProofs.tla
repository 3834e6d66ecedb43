--------------------------- MODULE DataPathProofs ---------------------------
(***************************************************************************)
(* Proofs about DataPath, for any connections, any number of changes of    *)
(* the channel and any number of reports that are late.                    *)
(***************************************************************************)
EXTENDS DataPath, QueueLemmas

Signal == "MONITOR_SIGNAL"
Data   == "DO_DATA"

\* The module's Count is that of the lemmas.
LEMMA CountIsCountOf ==
    ASSUME NEW id
    PROVE  Count(id) = CountOf(queue, {id}) /\ Count(id)' = CountOf(queue', {id})
BY DEF Count, CountOf, Places

\* What appending and dispatching do to the numbers of the two messages.
LEMMA Appended ==
    ASSUME TypeOK, NEW m \in {Signal, Data}, queue' = Append(queue, m), NEW id
    PROVE  /\ queue' \in Seq({Data, Signal})
           /\ Count(id) \in Nat
           /\ Count(id)' = Count(id) + (IF m = id THEN 1 ELSE 0)
<1>1. queue \in Seq({Data, Signal}) /\ m \in {Data, Signal}
  BY DEF TypeOK, Signal, Data
<1>2. CountOf(queue, {id}) \in Nat
  BY <1>1, PlacesFinite
<1>3. CountOf(queue', {id}) = CountOf(queue, {id}) + (IF m \in {id} THEN 1 ELSE 0)
  BY <1>1, CountAppend
<1> QED BY <1>1, <1>2, <1>3, CountIsCountOf

\* What dispatching the next message does to the queue.
LEMMA Dispatched ==
    ASSUME TypeOK, NEW m, Dispatch(m), NEW id
    PROVE  /\ queue' \in Seq({Data, Signal})
           /\ Count(id) \in Nat
           /\ Count(id)' \in Nat
           /\ Count(id)' = Count(id) - (IF m = id THEN 1 ELSE 0)
<1>1. queue \in Seq({Data, Signal}) /\ queue # <<>> /\ Head(queue) = m /\ queue' = Tail(queue)
  BY DEF TypeOK, Signal, Data, Dispatch
<1>2. CountOf(queue, {id}) \in Nat
  BY <1>1, PlacesFinite
<1>3. CountOf(queue', {id}) = CountOf(queue, {id}) - (IF m \in {id} THEN 1 ELSE 0)
  BY <1>1, CountTail
<1>4. queue' \in Seq({Data, Signal})
  BY <1>1
<1>5. CountOf(queue', {id}) \in Nat
  BY <1>4, PlacesFinite
<1> QED BY <1>2, <1>3, <1>4, <1>5, CountIsCountOf

\* A queue that stays keeps its numbers.
LEMMA Kept ==
    ASSUME TypeOK, queue' = queue, NEW id
    PROVE  Count(id) \in Nat /\ Count(id)' = Count(id)
<1>1. queue \in Seq({Data, Signal})
  BY DEF TypeOK, Signal, Data
<1>2. CountOf(queue, {id}) \in Nat
  BY <1>1, PlacesFinite
<1> QED BY <1>2, CountIsCountOf

-----------------------------------------------------------------------------
(* Types.                                                                  *)

\* The types hold at the start ...
LEMMA TypeInit == ASSUME Init PROVE TypeOK
<1>1. NoChannel \in Channels
  BY DEF NoChannel, Channels
<1>2. /\ mon \in [state : {"none", "started", "monitoring"}, infos : Channels,
                  poll : BOOLEAN]
      /\ pc \in [at : {"idle", "tested", "sending", "sent", "reporting"},
                 conn : Conns \cup {NULL}, infos : Channels]
  BY <1>1 DEF Init, NewMonitor, Idle
<1>3. queue \in Seq({"DO_DATA", "MONITOR_SIGNAL"})
  BY DEF Init
<1>4. changes \in 0 .. MaxChanges /\ delayed \in Nat /\ notices \in Nat
  BY DataAssumption DEF Init
<1> QED BY <1>1, <1>2, <1>3, <1>4 DEF Init, TypeOK

\* ... and every step of both threads preserves them.
LEMMA TypeStep ==
    ASSUME TypeOK, [Next]_vars PROVE TypeOK'
<1> USE DataAssumption
<1>q. queue \in Seq({Data, Signal}) /\ Data = "DO_DATA" /\ Signal = "MONITOR_SIGNAL"
  BY DEF TypeOK, Data, Signal
<1>1. CASE SortConnections
  <2>1. chan' \in Channels /\ changes' \in 0 .. MaxChanges
    BY <1>1 DEF SortConnections, TypeOK, Channels
  <2>2. delayed' \in Nat /\ notices' \in Nat
    BY <1>1 DEF SortConnections, OnChannelWriteable, dataVars, TypeOK
  <2>3. queue' \in Seq({Data, Signal})
    BY <1>1, <1>q, Appended DEF SortConnections, OnConnectionMonitor
  <2>4. mon' \in [state : {"none", "started", "monitoring"}, infos : Channels,
                  poll : BOOLEAN]
    BY <1>1, <2>1 DEF SortConnections, OnConnectionMonitor, TypeOK
  <2> QED BY <1>1, <1>q, <2>1, <2>2, <2>3, <2>4 DEF SortConnections, TypeOK
<1>2. CASE ConnectionDestroyed
  <2>1. chan' \in Channels
    <3>1. PICK c \in chan.conns :
             chan' = [chan EXCEPT !.conns = @ \ {c}, !.best = IF @ = c THEN NULL ELSE @]
      BY <1>2 DEF ConnectionDestroyed
    <3>2. chan.conns \ {c} \in SUBSET Conns
      BY DEF TypeOK, Channels
    <3>3. (IF chan.best = c THEN NULL ELSE chan.best) \in Conns \cup {NULL}
      BY DEF TypeOK, Channels
    <3> QED BY <3>1, <3>2, <3>3 DEF TypeOK, Channels
  <2> QED BY <1>2, <2>1 DEF ConnectionDestroyed, TypeOK
<1>3. CASE OnMonitorPoll
  <2>1. queue' \in Seq({Data, Signal})
    BY <1>3, <1>q, Appended DEF OnMonitorPoll
  <2> QED BY <1>3, <1>q, <2>1 DEF OnMonitorPoll, PollSocket, dataVars, TypeOK
<1>4. CASE SetupTarget
  BY <1>4 DEF SetupTarget, dataVars, TypeOK
<1>5. CASE DoData_s
  <2>1. queue' \in Seq({Data, Signal})
    BY <1>5, Dispatched DEF DoData_s
  <2> QED BY <1>5, <1>q, <2>1 DEF DoData_s, TypeOK
<1>6. CASE SendOn \/ Sent
  BY <1>6, ZenonT(40) DEF SendOn, Sent, TypeOK, Channels
<1>7. CASE DataAgain
  BY <1>7 DEF DataAgain, PostData, Idle, NoChannel, Channels, TypeOK
<1>8. CASE OnMonitorSignal
  <2>1. queue' \in Seq({Data, Signal})
    BY <1>8, Dispatched DEF OnMonitorSignal
  <2> QED BY <1>8, <1>q, <2>1 DEF OnMonitorSignal, TypeOK
<1>9. CASE OnMonitorCallback
  BY <1>9 DEF OnMonitorCallback, Idle, NoChannel, Channels, TypeOK
<1>10. CASE DataDue
  <2>1. queue' \in Seq({Data, Signal})
    BY <1>10, <1>q, Appended DEF DataDue
  <2> QED BY <1>10, <1>q, <2>1 DEF DataDue, TypeOK
<1>11. CASE UNCHANGED vars
  BY <1>11 DEF vars, TypeOK
<1> QED BY <1>1, <1>2, <1>3, <1>4, <1>5, <1>6, <1>7, <1>8, <1>9, <1>10, <1>11
        DEF Next, SignalingStep

\* Type correctness of the prober's data path, of the channel as it sees it
\* and of the monitor.
THEOREM DataTypes == Spec => []TypeOK
<1>1. Init => TypeOK
  BY TypeInit
<1>2. TypeOK /\ [Next]_vars => TypeOK'
  BY TypeStep
<1> QED BY <1>1, <1>2, PTL DEF Spec

-----------------------------------------------------------------------------
(* Reports.                                                                *)

\* LastPollSeen is not inductive: the report that the signaling thread is
\* writing must be the last one too, when no other has been posted.
ReportInv ==
    /\ TypeOK
    /\ LastPollSeen
    /\ Count(Signal) = 0 /\ pc.at = "reporting" => pc.infos = mon.infos

\* Every step keeps it: infos change only together with a new report.
LEMMA ReportStep ==
    ASSUME ReportInv, [Next]_vars PROVE ReportInv'
<1>0. TypeOK /\ TypeOK'
  BY TypeStep DEF ReportInv
<1>q. Data # Signal /\ Signal = "MONITOR_SIGNAL"
  BY DEF Data, Signal
<1> USE DEF ReportInv, LastPollSeen
<1>1. ASSUME queue' = Append(queue, Signal) PROVE ReportInv'
  <2>1. Count(Signal)' # 0
    BY <1>0, <1>1, Appended
  <2> QED BY <1>0, <1>q, <2>1
<1>2. ASSUME queue' = queue, mon'.infos = mon.infos, seen' = seen, pc.at # "reporting",
             pc'.at # "reporting"
      PROVE  ReportInv'
  <2>1. Count(Signal)' = Count(Signal)
    BY <1>0, <1>2, Kept
  <2> QED BY <1>0, <1>q, <1>2, <2>1
<1>3. ASSUME queue' = queue, mon'.infos = mon.infos, seen' = seen, pc' = pc
      PROVE  ReportInv'
  <2>1. Count(Signal)' = Count(Signal)
    BY <1>0, <1>3, Kept
  <2> QED BY <1>0, <1>q, <1>3, <2>1
<1>4. CASE SortConnections
  <2>1. CASE mon.state = "monitoring"
    BY <1>4, <2>1, <1>1, <1>q DEF SortConnections, OnConnectionMonitor
  <2>2. CASE mon.state # "monitoring"
    BY <1>4, <2>2, <1>3 DEF SortConnections, OnConnectionMonitor
  <2> QED BY <2>1, <2>2
<1>5. CASE ConnectionDestroyed
  BY <1>5, <1>3 DEF ConnectionDestroyed
<1>6. CASE OnMonitorPoll
  BY <1>6, <1>1, <1>q DEF OnMonitorPoll
<1>7. CASE SetupTarget
  BY <1>7, <1>3, <1>0 DEF SetupTarget, TypeOK
<1>8. CASE DoData_s
  <2>1. Count(Signal)' = Count(Signal)
    <3>1. Dispatch(Data) /\ Data # Signal
      BY <1>8, <1>q DEF DoData_s, Data
    <3>2. Count(Signal)' = Count(Signal) - 0 /\ Count(Signal) \in Nat
      BY <1>0, <3>1, Dispatched
    <3> QED BY <3>2
  <2>2. pc.at # "reporting" /\ pc'.at # "reporting" /\ UNCHANGED <<seen, mon>>
    BY <1>8, <1>0 DEF DoData_s, Dispatch, Idle, TypeOK
  <2> QED BY <1>0, <1>q, <2>1, <2>2
<1>9. CASE SendOn \/ Sent \/ DataAgain
  <2>1. /\ UNCHANGED <<queue, mon, seen>>
        /\ pc.at # "reporting"
        /\ pc'.at # "reporting"
    <3>1. CASE SendOn
      BY <3>1, <1>0 DEF SendOn, TypeOK
    <3>2. CASE Sent
      BY <3>2, <1>0 DEF Sent, TypeOK
    <3>3. CASE DataAgain
      BY <3>3 DEF DataAgain, Idle
    <3> QED BY <1>9, <3>1, <3>2, <3>3
  <2> QED BY <1>2, <2>1
<1>10. CASE OnMonitorSignal
  <2>1. pc'.at = "reporting" /\ pc'.infos = mon'.infos
    BY <1>10, <1>0 DEF OnMonitorSignal, TypeOK
  <2> QED BY <1>0, <2>1
<1>11. CASE OnMonitorCallback
  <2>1. /\ pc.at = "reporting" /\ pc'.at = "idle"
        /\ seen' = pc.infos /\ mon' = mon /\ queue' = queue
    BY <1>11, <1>0 DEF OnMonitorCallback, Idle, TypeOK
  <2>2. Count(Signal)' = Count(Signal)
    BY <1>0, <2>1, Kept
  <2> QED BY <1>0, <1>q, <2>1, <2>2
<1>12. CASE DataDue
  <2>1. Count(Signal)' = Count(Signal)
    <3>1. queue' = Append(queue, Data)
      BY <1>12 DEF DataDue, Data
    <3>2. Count(Signal)' = Count(Signal) + 0 /\ Count(Signal) \in Nat
      BY <1>0, <1>q, <3>1, Appended
    <3> QED BY <3>2
  <2>2. UNCHANGED <<seen, mon, pc>>
    BY <1>12 DEF DataDue
  <2> QED BY <1>0, <1>q, <2>1, <2>2
<1>13. CASE UNCHANGED vars
  BY <1>13, <1>3 DEF vars
<1> QED BY <1>4, <1>5, <1>6, <1>7, <1>8, <1>9, <1>10, <1>11, <1>12, <1>13
        DEF Next, SignalingStep

\* The shared connection_infos_ of socketmonitor.cc and the lock it releases
\* for the callback lose no update: however far the signaling thread is
\* behind, the last report it writes is of the last poll.
THEOREM LastPollIsSeen == Spec => []LastPollSeen
<1>1. Init => ReportInv
  <2> SUFFICES ASSUME Init PROVE ReportInv
    OBVIOUS
  <2>1. TypeOK
    BY TypeInit
  <2>2. seen = mon.infos /\ pc.at = "idle"
    BY DEF Init, NewMonitor, NoChannel, Idle
  <2> QED BY <2>1, <2>2 DEF ReportInv, LastPollSeen
<1>2. ReportInv /\ [Next]_vars => ReportInv'
  BY ReportStep
<1>3. ReportInv => LastPollSeen
  BY DEF ReportInv
<1> QED BY <1>1, <1>2, <1>3, PTL DEF Spec

-----------------------------------------------------------------------------
(* Chains of packets.                                                      *)

\* A step neither ends nor forks a chain.
LEMMA ChainStep ==
    ASSUME TypeOK, ChainPerNotice, [Next]_vars PROVE ChainPerNotice'
<1> USE DEF ChainPerNotice
<1>0. /\ Data # Signal /\ Data = "DO_DATA" /\ Signal = "MONITOR_SIGNAL"
      /\ delayed \in Nat /\ notices \in Nat
  BY DEF Data, Signal, TypeOK
<1>k. queue' = queue => Count(Data) \in Nat /\ Count(Data)' = Count(Data)
  BY Kept
<1>s. queue' = Append(queue, Signal) => Count(Data) \in Nat /\ Count(Data)' = Count(Data)
  <2> SUFFICES ASSUME queue' = Append(queue, Signal)
               PROVE  Count(Data) \in Nat /\ Count(Data)' = Count(Data)
    OBVIOUS
  <2>1. Count(Data)' = Count(Data) + 0 /\ Count(Data) \in Nat
    BY <1>0, Appended
  <2> QED BY <2>1
<1>1. CASE SortConnections
  <2>1. queue' = queue \/ queue' = Append(queue, Signal)
    BY <1>1, <1>0 DEF SortConnections, OnConnectionMonitor
  <2>2. Count(Data) \in Nat /\ Count(Data)' = Count(Data)
    BY <2>1, <1>k, <1>s
  <2>3. /\ pc' = pc
        /\ \/ delayed' = delayed /\ notices' = notices
           \/ delayed' = delayed + 1 /\ notices' = notices + 1
    BY <1>1 DEF SortConnections, OnChannelWriteable, dataVars
  <2>4. CASE delayed' = delayed /\ notices' = notices
    BY <1>0, <2>2, <2>3, <2>4
  <2>5. CASE delayed' = delayed + 1 /\ notices' = notices + 1
    BY <1>0, <2>2, <2>3, <2>5
  <2> QED BY <2>3, <2>4, <2>5
<1>2. CASE ConnectionDestroyed \/ SetupTarget \/ UNCHANGED vars
  BY <1>2, <1>0, <1>k DEF ConnectionDestroyed, SetupTarget, dataVars, vars
<1>3. CASE OnMonitorPoll
  <2>1. queue' = Append(queue, Signal) /\ UNCHANGED <<pc, delayed, notices>>
    BY <1>3, <1>0 DEF OnMonitorPoll, dataVars
  <2> QED BY <1>0, <1>s, <2>1
<1>4. CASE DoData_s
  <2>1. Count(Data)' = Count(Data) - 1 /\ Count(Data) \in Nat
    BY <1>4, <1>0, Dispatched DEF DoData_s
  <2>2. pc.at = "idle" /\ pc'.at \in {"tested", "sent"} /\ UNCHANGED <<delayed, notices>>
    BY <1>4 DEF DoData_s, Dispatch, Idle, TypeOK
  <2> QED BY <1>0, <2>1, <2>2
<1>5. CASE SendOn \/ Sent
  BY <1>5, <1>0, <1>k DEF SendOn, Sent, TypeOK
<1>6. CASE DataAgain
  <2>1. /\ pc.at = "sent" /\ pc'.at = "idle"
        /\ delayed' = delayed + 1 /\ UNCHANGED <<queue, notices>>
    BY <1>6 DEF DataAgain, PostData, Idle
  <2> QED BY <1>0, <1>k, <2>1
<1>7. CASE OnMonitorSignal
  <2>1. Count(Data)' = Count(Data) - 0 /\ Count(Data) \in Nat
    BY <1>7, <1>0, Dispatched DEF OnMonitorSignal
  <2>2. pc.at = "idle" /\ pc'.at = "reporting" /\ UNCHANGED <<delayed, notices>>
    BY <1>7 DEF OnMonitorSignal, Dispatch, Idle, TypeOK
  <2> QED BY <1>0, <2>1, <2>2
<1>8. CASE OnMonitorCallback
  <2>1. pc.at = "reporting" /\ pc'.at = "idle" /\ UNCHANGED <<queue, delayed, notices>>
    BY <1>8 DEF OnMonitorCallback, Idle
  <2> QED BY <1>0, <1>k, <2>1
<1>9. CASE DataDue
  <2>1. Count(Data)' = Count(Data) + 1 /\ Count(Data) \in Nat
    BY <1>9, <1>0, Appended DEF DataDue
  <2>2. delayed > 0 /\ delayed' = delayed - 1 /\ UNCHANGED <<pc, notices>>
    BY <1>9 DEF DataDue
  <2> QED BY <1>0, <2>1, <2>2
<1> QED BY <1>1, <1>2, <1>3, <1>4, <1>5, <1>6, <1>7, <1>8, <1>9 DEF Next, SignalingStep

\* doData_s and onChannelWriteable of prober.cpp repost MSG_DO_DATA so that the
\* packets per second are exactly the changes of writability so far: for any
\* number of them, no chain is lost and none forks.
THEOREM OneChainPerNotice == Spec => []ChainPerNotice
<1>1. Init => TypeOK /\ ChainPerNotice
  <2> SUFFICES ASSUME Init PROVE TypeOK /\ ChainPerNotice
    OBVIOUS
  <2>1. TypeOK
    BY TypeInit
  <2>2. Count("DO_DATA") = 0
    BY CountIsCountOf, CountEmpty DEF Init
  <2>3. pc.at = "idle" /\ delayed = 0 /\ notices = 0
    BY DEF Init, Idle
  <2> QED BY <2>1, <2>2, <2>3 DEF ChainPerNotice
<1>2. TypeOK /\ ChainPerNotice /\ [Next]_vars => (TypeOK /\ ChainPerNotice)'
  BY TypeStep, ChainStep
<1> QED BY <1>1, <1>2, PTL DEF Spec
=============================================================================
