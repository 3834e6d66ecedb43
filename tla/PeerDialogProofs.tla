-------------------------- MODULE PeerDialogProofs --------------------------
(***************************************************************************)
(* Proofs about PeerDialog, for any number of processes and names.         *)
(***************************************************************************)
EXTENDS PeerDialog, SequenceTheorems, TLAPS

(***************************************************************************)
(* Types.                                                                  *)
(***************************************************************************)
LEMMA PresenceTyped ==
    ASSUME NEW n \in Names \cup {NoName}
    PROVE  LoginWord(n) \in Words /\ OfflineWord(n) \in Words
BY DEF Words, Word, LoginWord, OfflineWord

\* An online word about registered names is typed.
LEMMA OnlineTyped ==
    ASSUME NEW S \in SUBSET Names PROVE OnlineWord(S) \in Words
BY DEF Words, Word, OnlineWord

\* Words that carry a body are typed.
LEMMA CarrierTyped ==
    ASSUME NEW n \in Names \cup {NoName}, NEW b \in Bodies \cup {NoBody}
    PROVE  SendWord(n, b) \in Words /\ MessageWord(n, b) \in Words
BY DEF Words, Word, SendWord, MessageWord

\* So is the end of a stream.
LEMMA FinTyped == FinWord \in Words
BY DEF Words, Word, FinWord

\* A broadcast leaves typed streams.
LEMMA WriteAllTyped ==
    ASSUME TypeOK, NEW S, NEW w \in Words
    PROVE  WriteAll(S, w) \in [Procs -> Seq(Words)]
BY DEF TypeOK, WriteAll

\* Entries of the table have names.
LEMMA RegisteredTyped == Registered \in SUBSET Names
BY DEF Registered

\* What Receives gives: a typed word, and typed streams after it.
LEMMA ReceivesTyped ==
    ASSUME TypeOK, NEW p \in Procs, NEW w, Receives(p, w)
    PROVE  /\ w \in Words
           /\ w = Head(c2s[p])
           /\ c2s' \in [Procs -> Seq(Words)]
BY DEF TypeOK, Receives

\* The types hold at the start ...
LEMMA TypeInit == ASSUME Init PROVE TypeOK
BY PeerAssumption DEF Init, ServerInit, TypeOK

\* ... and every step of server and clients preserves them.
LEMMA TypeStep ==
    ASSUME TypeOK, [Next]_vars PROVE TypeOK'
<1> USE DEF TypeOK
<1>1. CASE \E p \in Procs : ServerStep(p) /\ UNCHANGED peerVars
  <2> PICK p \in Procs : ServerStep(p) /\ UNCHANGED peerVars
    BY <1>1
  <2> UNCHANGED <<sock, view, sends>>
    BY DEF peerVars
  <2>1. CASE LoginKicked(p)
    <3> PICK n \in Names : /\ Receives(p, LoginWord(n))
                           /\ pid' = [pid EXCEPT ![p] = n]
                           /\ conn' = [conn EXCEPT ![p] = "ended"]
                           /\ s2c' = [s2c EXCEPT ![p] = @ \o Kick]
                           /\ UNCHANGED <<up, peerObjects>>
      BY <2>1 DEF LoginKicked
    <3>1. Kick \in Seq(Words)
      BY FinTyped DEF Kick
    <3>2. s2c' \in [Procs -> Seq(Words)]
      BY <3>1
    <3> QED BY <3>2, ReceivesTyped
  <2>2. CASE LoginAccepted(p)
    <3> PICK n \in Names :
            /\ Receives(p, LoginWord(n))
            /\ pid' = [pid EXCEPT ![p] = n]
            /\ s2c' = [WriteAll(Users, LoginWord(n)) EXCEPT
                          ![p] = @ \o OnlineList]
            /\ peerObjects' = [peerObjects EXCEPT ![n] = p]
            /\ UNCHANGED <<up, conn>>
      BY <2>2 DEF LoginAccepted
    <3>1. OnlineList \in Seq(Words)
      BY OnlineTyped, RegisteredTyped DEF OnlineList
    <3>2. WriteAll(Users, LoginWord(n)) \in [Procs -> Seq(Words)]
      BY WriteAllTyped, PresenceTyped
    <3>3. s2c' \in [Procs -> Seq(Words)]
      BY <3>1, <3>2
    <3> QED BY <3>3, ReceivesTyped
  <2>3. CASE Send(p)
    <3> PICK to \in Names :
            /\ Receives(p, SendWord(to, Head(c2s[p]).body))
            /\ s2c' = IF pid[p] # NoName /\ to \in Registered
                      THEN WriteAll({peerObjects[to]},
                                MessageWord(pid[p], Head(c2s[p]).body))
                      ELSE s2c
            /\ UNCHANGED <<up, conn, pid, peerObjects>>
      BY <2>3 DEF Send
    <3>0. Head(c2s[p]) \in Words
      BY ReceivesTyped
    <3>1. Head(c2s[p]).body \in Bodies \cup {NoBody}
      BY <3>0 DEF Words
    <3>2. MessageWord(pid[p], Head(c2s[p]).body) \in Words
      BY <3>1, CarrierTyped
    <3>3. s2c' \in [Procs -> Seq(Words)]
      BY <3>2, WriteAllTyped
    <3> QED BY <3>3, ReceivesTyped
  <2>4. CASE OnClose(p)
    <3>1. OfflineWord(pid[p]) \in Words
      BY PresenceTyped
    <3>2. s2c' \in [Procs -> Seq(Words)]
      BY <2>4, <3>1, WriteAllTyped DEF OnClose
    <3>3. peerObjects' \in [Names -> Procs \cup {NoProc}]
      BY <2>4 DEF OnClose
    <3>4. Receives(p, FinWord)
      BY <2>4 DEF OnClose
    <3> QED BY <2>4, <3>2, <3>3, <3>4, ReceivesTyped DEF OnClose
  <2> QED BY <2>1, <2>2, <2>3, <2>4 DEF ServerStep
<1>2. CASE \E p \in Procs : PeerStep(p)
  <2> PICK p \in Procs : PeerStep(p)
    BY <1>2
  <2>1. CASE OnConnectEvent(p)
    <3>1. LoginWord(MyName[p]) \in Words
      BY PresenceTyped, PeerAssumption
    <3> QED BY <2>1, <3>1 DEF OnConnectEvent
  <2>2. CASE SendMessage(p)
    <3> PICK to \in Names, b \in Bodies :
            c2s' = [c2s EXCEPT ![p] = Append(@, SendWord(to, b))]
      BY <2>2 DEF SendMessage
    <3>1. SendWord(to, b) \in Words
      BY CarrierTyped
    <3>2. c2s' \in [Procs -> Seq(Words)]
      BY <3>1
    <3>3. sends' \in [Procs -> 0 .. MaxSends]
      BY <2>2, PeerAssumption DEF SendMessage
    <3> QED BY <2>2, <3>2, <3>3 DEF SendMessage
  <2>3. CASE ProcessXML(p)
    <3>1. Head(s2c[p]) \in Words
      BY <2>3 DEF ProcessXML
    <3>2. Head(s2c[p]).who \in SUBSET (Names \cup {NoName})
      BY <3>1 DEF Words
    <3>3. Learn(view[p], Head(s2c[p])) \in SUBSET (Names \cup {NoName})
      BY <3>2 DEF Learn
    <3>4. view' \in [Procs -> SUBSET (Names \cup {NoName})]
      BY <2>3, <3>3 DEF ProcessXML
    <3> QED BY <2>3, <3>4 DEF ProcessXML
  <2>4. CASE CloseSocket(p)
    BY <2>4, FinTyped DEF CloseSocket
  <2> QED BY <2>1, <2>2, <2>3, <2>4 DEF PeerStep, OnCloseEvent, Exit
<1>3. CASE ServerDies /\ UNCHANGED peerVars
  <2>1. s2c' \in [Procs -> Seq(Words)]
    BY <1>3, FinTyped, WriteAllTyped DEF ServerDies
  <2> QED BY <1>3, <2>1 DEF ServerDies, peerVars
<1>4. CASE UNCHANGED vars
  BY <1>4 DEF vars, serverVars, peerVars
<1> QED BY <1>1, <1>2, <1>3, <1>4 DEF Next

\* The server's table and streams and the clients' sockets keep their types
\* in every reachable state (index.js, peer.cpp).
THEOREM TypeCorrect == Spec => []TypeOK
BY TypeInit, TypeStep, PTL DEF Spec

(***************************************************************************)
(* The table.  RegistryCoherent is inductive together with the shape of    *)
(* the streams: nothing flows before the connection, a login word is the   *)
(* first of its stream and waits on a socket that has no entry, and a      *)
(* socket that has not logged in is told nothing but its end.              *)
(***************************************************************************)
NothingBefore ==
    \A p \in Procs : sock[p] = "none" =>
        c2s[p] = <<>> /\ conn[p] = "none" /\ pid[p] = NoName

LoginFirst ==
    \A p \in Procs : \A i \in DOMAIN c2s[p] : c2s[p][i].type = "login" =>
        i = 1 /\ pid[p] = NoName /\ c2s[p][i].who = {MyName[p]}

ToldNothing ==
    \A p \in Procs : pid[p] = NoName =>
        view[p] = {} /\ \A i \in DOMAIN s2c[p] : s2c[p][i].type = "fin"

EndedHasPid ==
    \A p \in Procs : conn[p] = "ended" => pid[p] # NoName

TableInv == /\ TypeOK
            /\ RegistryCoherent
            /\ NothingBefore
            /\ LoginFirst
            /\ ToldNothing
            /\ EndedHasPid

\* The invariant holds at the start.
LEMMA TableInit == ASSUME Init PROVE TableInv
BY TypeInit, PeerAssumption
   DEF Init, ServerInit, TableInv, NothingBefore, LoginFirst, ToldNothing,
       EndedHasPid, RegistryCoherent, Registered

\* What Head and Tail leave of a stream that is not empty.
LEMMA TailElements ==
    ASSUME NEW S, NEW s \in Seq(S), s # <<>>
    PROVE  /\ Len(s) \in Nat /\ Len(s) >= 1
           /\ s[1] = Head(s)
           /\ Tail(s) \in Seq(S)
           /\ DOMAIN Tail(s) = 1 .. Len(s) - 1
           /\ \A i \in 1 .. Len(s) - 1 : Tail(s)[i] = s[i + 1]
BY HeadTailProperties, EmptySeq

\* What Append adds to a stream.
LEMMA AppendElements ==
    ASSUME NEW S, NEW s \in Seq(S), NEW e \in S
    PROVE  /\ Append(s, e) \in Seq(S)
           /\ Append(s, e)[Len(s) + 1] = e
           /\ Len(s) \in Nat
           /\ DOMAIN s = 1 .. Len(s)
           /\ DOMAIN Append(s, e) = 1 .. Len(s) + 1
           /\ \A i \in 1 .. Len(s) : Append(s, e)[i] = s[i]
BY AppendProperties

\* The word that Receives takes is the stream's first.
LEMMA ReceivesFirst ==
    ASSUME TypeOK, NEW p \in Procs, NEW w, Receives(p, w)
    PROVE  /\ 1 \in DOMAIN c2s[p]
           /\ w = c2s[p][1]
           /\ conn[p] \in {"open", "ended"}
<1> c2s[p] \in Seq(Words) /\ c2s[p] # <<>>
  BY DEF TypeOK, Receives
<1> QED BY TailElements DEF Receives

\* A login word comes from a socket that has no entry, and names its process.
LEMMA LoginIsNew ==
    ASSUME TableInv, NEW p \in Procs, NEW n \in Names, Receives(p, LoginWord(n))
    PROVE  /\ n = MyName[p]
           /\ pid[p] = NoName
           /\ p \notin Users
<1>1. c2s[p][1] = LoginWord(n) /\ 1 \in DOMAIN c2s[p]
  BY ReceivesFirst DEF TableInv
<1>2. c2s[p][1].type = "login" /\ c2s[p][1].who = {n}
  BY <1>1 DEF LoginWord, Word
<1>3. pid[p] = NoName /\ {n} = {MyName[p]}
  BY <1>1, <1>2 DEF TableInv, LoginFirst
<1>4. p \notin Users
  BY <1>3, ServerAssumption DEF TableInv, RegistryCoherent, Users, Registered
<1> QED BY <1>3, <1>4

\* A user has logged in, and holds one entry, under its own name.
LEMMA UserPid ==
    ASSUME TableInv, NEW p \in Users
    PROVE  /\ p \in Procs
           /\ pid[p] \in Registered
           /\ peerObjects[pid[p]] = p
           /\ pid[p] # NoName
           /\ conn[p] = "open"
<1> PICK n \in Registered : p = peerObjects[n]
  BY DEF Users
<1>1. n \in Names /\ p \in Procs /\ pid[p] = n /\ conn[p] = "open"
  BY DEF TableInv, RegistryCoherent, Registered, TypeOK
<1> QED BY <1>1, ServerAssumption

\* A server step consumes p's first word, and no login word is left behind.
LEMMA ServerKeepsLoginFirst ==
    ASSUME TableInv, NEW p \in Procs, NEW w, Receives(p, w),
           \A q \in Procs \ {p} : pid'[q] = pid[q]
    PROVE  LoginFirst'
<1> SUFFICES ASSUME NEW q \in Procs, NEW i \in DOMAIN c2s'[q],
                    c2s'[q][i].type = "login"
             PROVE  i = 1 /\ pid'[q] = NoName /\ c2s'[q][i].who = {MyName[q]}
  BY DEF LoginFirst
<1>1. /\ c2s' = [c2s EXCEPT ![p] = Tail(@)]
      /\ c2s \in [Procs -> Seq(Words)]
      /\ c2s[p] # <<>>
  BY DEF Receives, TableInv, TypeOK
<1>2. CASE q = p
  <2>1. c2s'[q] = Tail(c2s[p])
    BY <1>1, <1>2
  <2>2. /\ i \in 1 .. Len(c2s[p]) - 1
        /\ c2s'[q][i] = c2s[p][i + 1]
        /\ Len(c2s[p]) \in Nat
    BY <1>1, <2>1, TailElements
  <2>3. i + 1 \in DOMAIN c2s[p] /\ i + 1 # 1
    BY <1>1, <2>2
  <2> QED BY <2>2, <2>3 DEF TableInv, LoginFirst
<1>3. CASE q # p
  BY <1>1, <1>3 DEF TableInv, LoginFirst
<1> QED BY <1>2, <1>3

\* A server step touches no socket that is not connected.
LEMMA ServerKeepsNothingBefore ==
    ASSUME TableInv, NEW p \in Procs, NEW w, Receives(p, w), sock' = sock,
           \A q \in Procs \ {p} : pid'[q] = pid[q] /\ conn'[q] = conn[q]
    PROVE  NothingBefore'
<1>1. sock[p] # "none"
  BY DEF Receives, TableInv, NothingBefore
<1>2. \A q \in Procs \ {p} : c2s'[q] = c2s[q]
  BY DEF Receives, TableInv, TypeOK
<1> QED BY <1>1, <1>2 DEF TableInv, NothingBefore

\* Words written to users do not reach a socket that has not logged in.
LEMMA WriteToUsers ==
    ASSUME TableInv, NEW S \in SUBSET Users, NEW w, NEW q \in Procs, pid[q] = NoName
    PROVE  WriteAll(S, w)[q] = s2c[q]
BY UserPid DEF WriteAll

\* A word other than a login at the end of a stream disturbs nothing.
LEMMA AppendKeepsLoginFirst ==
    ASSUME TableInv, NEW p \in Procs, NEW w \in Words, w.type # "login",
           c2s' = [c2s EXCEPT ![p] = Append(@, w)], pid' = pid
    PROVE  LoginFirst'
<1> SUFFICES ASSUME NEW q \in Procs, NEW i \in DOMAIN c2s'[q],
                    c2s'[q][i].type = "login"
             PROVE  i = 1 /\ pid'[q] = NoName /\ c2s'[q][i].who = {MyName[q]}
  BY DEF LoginFirst
<1>1. c2s \in [Procs -> Seq(Words)]
  BY DEF TableInv, TypeOK
<1>2. CASE q = p
  <2>1. c2s'[q] = Append(c2s[p], w)
    BY <1>1, <1>2
  <2>2. i # Len(c2s[p]) + 1
    BY <1>1, <2>1, AppendElements
  <2>3. i \in DOMAIN c2s[p] /\ c2s'[q][i] = c2s[p][i]
    BY <1>1, <2>1, <2>2, AppendElements
  <2> QED BY <1>2, <2>3 DEF TableInv, LoginFirst
<1>3. CASE q # p
  BY <1>1, <1>3 DEF TableInv, LoginFirst
<1> QED BY <1>2, <1>3

\* Every step of server and clients preserves the invariant.
LEMMA TableStep ==
    ASSUME TableInv, [Next]_vars PROVE TableInv'
<1>0. TypeOK' /\ TypeOK
  BY TypeStep DEF TableInv
<1>1. ASSUME NEW p \in Procs, ServerStep(p), UNCHANGED peerVars
      PROVE  TableInv'
  <2> sock' = sock /\ view' = view
    BY <1>1 DEF peerVars
  <2>1. CASE LoginKicked(p)
    <3> PICK n \in Names : /\ Receives(p, LoginWord(n))
                           /\ pid' = [pid EXCEPT ![p] = n]
                           /\ conn' = [conn EXCEPT ![p] = "ended"]
                           /\ s2c' = [s2c EXCEPT ![p] = @ \o Kick]
                           /\ UNCHANGED <<up, peerObjects>>
      BY <2>1 DEF LoginKicked
    <3>0. \A m \in Registered : peerObjects[m] # p
      BY LoginIsNew DEF Users
    <3>1. RegistryCoherent'
      BY <3>0, <1>0 DEF TableInv, TypeOK, RegistryCoherent, Registered
    <3>2. NothingBefore' /\ LoginFirst'
      BY ServerKeepsNothingBefore, ServerKeepsLoginFirst, <1>0 DEF TypeOK
    <3>3. ToldNothing' /\ EndedHasPid'
      BY ServerAssumption, <1>0, ZenonT(40) DEF TableInv, TypeOK, ToldNothing, EndedHasPid
    <3> QED BY <1>0, <3>1, <3>2, <3>3 DEF TableInv
  <2>2. CASE LoginAccepted(p)
    <3> PICK n \in Names :
            /\ Receives(p, LoginWord(n))
            /\ n \notin Registered
            /\ pid' = [pid EXCEPT ![p] = n]
            /\ s2c' = [WriteAll(Users, LoginWord(n)) EXCEPT
                          ![p] = @ \o OnlineList]
            /\ peerObjects' = [peerObjects EXCEPT ![n] = p]
            /\ UNCHANGED <<up, conn>>
      BY <2>2 DEF LoginAccepted
    <3>1. RegistryCoherent'
      <4> SUFFICES ASSUME NEW m \in Names, peerObjects'[m] # NoProc
                   PROVE  LET r == peerObjects'[m] IN
                          pid'[r] = m /\ conn'[r] = "open" /\ MyName[r] = m
        BY DEF RegistryCoherent, Registered
      <4>1. n = MyName[p] /\ p \notin Users
        BY LoginIsNew
      <4>2. CASE m = n
        <5>1. peerObjects'[m] = p /\ pid'[p] = n
          BY <4>2, <1>0 DEF TypeOK
        <5>2. conn'[p] = "open"
          BY ReceivesFirst, LoginIsNew, <1>0 DEF TableInv, EndedHasPid
        <5> QED BY <5>1, <5>2, <4>1, <4>2
      <4>3. CASE m # n
        <5>1. peerObjects'[m] = peerObjects[m] /\ m \in Registered
          BY <4>3, <1>0 DEF TypeOK, Registered
        <5>2. peerObjects[m] # p
          BY <5>1, <4>1 DEF Users
        <5>3. pid'[peerObjects[m]] = pid[peerObjects[m]]
          BY <5>1, <5>2, <1>0 DEF TypeOK, Registered
        <5> QED BY <5>1, <5>3 DEF TableInv, RegistryCoherent
      <4> QED BY <4>2, <4>3
    <3>2. NothingBefore' /\ LoginFirst'
      BY ServerKeepsNothingBefore, ServerKeepsLoginFirst, <1>0 DEF TypeOK
    <3>3. ToldNothing'
      <4> SUFFICES ASSUME NEW q \in Procs, pid'[q] = NoName
                   PROVE  /\ view[q] = {}
                          /\ \A i \in DOMAIN s2c'[q] : s2c'[q][i].type = "fin"
        BY DEF ToldNothing
      <4>1. q # p /\ pid[q] = NoName
        BY ServerAssumption, <1>0 DEF TypeOK
      <4>2. s2c'[q] = s2c[q]
        BY <4>1, WriteToUsers, <1>0 DEF WriteAll
      <4> QED BY <4>1, <4>2 DEF TableInv, ToldNothing
    <3>4. EndedHasPid'
      BY ServerAssumption, <1>0 DEF TableInv, TypeOK, EndedHasPid
    <3> QED BY <1>0, <3>1, <3>2, <3>3, <3>4 DEF TableInv
  <2>3. CASE Send(p)
    <3> PICK to \in Names :
            /\ Receives(p, SendWord(to, Head(c2s[p]).body))
            /\ s2c' = IF pid[p] # NoName /\ to \in Registered
                      THEN WriteAll({peerObjects[to]},
                                MessageWord(pid[p], Head(c2s[p]).body))
                      ELSE s2c
            /\ UNCHANGED <<up, conn, pid, peerObjects>>
      BY <2>3 DEF Send
    <3>1. RegistryCoherent'
      BY DEF TableInv, RegistryCoherent, Registered
    <3>2. NothingBefore' /\ LoginFirst'
      BY ServerKeepsNothingBefore, ServerKeepsLoginFirst
    <3>3. to \in Registered => {peerObjects[to]} \in SUBSET Users
      BY DEF Users
    <3>4. ToldNothing'
      BY <3>3, WriteToUsers DEF TableInv, ToldNothing
    <3>5. EndedHasPid'
      BY DEF TableInv, EndedHasPid
    <3> QED BY <1>0, <3>1, <3>2, <3>4, <3>5 DEF TableInv
  <2>4. CASE OnClose(p)
    <3>1. /\ Receives(p, FinWord)
          /\ conn' = [conn EXCEPT ![p] = "closed"]
          /\ UNCHANGED <<up, pid>>
      BY <2>4 DEF OnClose
    <3>2. RegistryCoherent'
      <4> SUFFICES ASSUME NEW m \in Names, peerObjects'[m] # NoProc
                   PROVE  LET r == peerObjects'[m] IN
                          pid'[r] = m /\ conn'[r] = "open" /\ MyName[r] = m
        BY DEF RegistryCoherent, Registered
      <4>1. peerObjects'[m] = peerObjects[m] /\ m \in Registered
        BY <2>4, <1>0 DEF OnClose, TypeOK, Registered, OwnsEntry
      <4>2. peerObjects[m] # p
        <5> SUFFICES ASSUME peerObjects[m] = p PROVE FALSE
          OBVIOUS
        <5>1. pid[p] = m
          BY <4>1 DEF TableInv, RegistryCoherent
        <5>2. OwnsEntry(p)
          BY <4>1, <5>1 DEF OwnsEntry
        <5>3. peerObjects'[m] = NoProc
          BY <2>4, <5>1, <5>2, <1>0 DEF OnClose, TypeOK
        <5> QED BY <5>3
      <4>3. conn'[peerObjects[m]] = conn[peerObjects[m]]
        BY <3>1, <4>1, <4>2, <1>0 DEF TypeOK, Registered
      <4> QED BY <3>1, <4>1, <4>3 DEF TableInv, RegistryCoherent
    <3>3. NothingBefore' /\ LoginFirst'
      BY <3>1, ServerKeepsNothingBefore, ServerKeepsLoginFirst, <1>0 DEF TypeOK
    <3>4. {peerObjects[n] : n \in Registered \ {pid[p]}} \in SUBSET Users
      BY DEF Users
    <3>5. ToldNothing'
      BY <2>4, <3>4, WriteToUsers DEF OnClose, TableInv, ToldNothing
    <3>6. EndedHasPid'
      BY <3>1, <1>0 DEF TableInv, EndedHasPid, TypeOK
    <3> QED BY <1>0, <3>2, <3>3, <3>5, <3>6 DEF TableInv
  <2> QED BY <1>1, <2>1, <2>2, <2>3, <2>4 DEF ServerStep
<1>2. ASSUME NEW p \in Procs, PeerStep(p)
      PROVE  TableInv'
  <2>1. CASE OnConnectEvent(p)
    <3>1. RegistryCoherent'
      BY <2>1, <1>0 DEF OnConnectEvent, TableInv, RegistryCoherent, Registered, TypeOK
    <3>2. NothingBefore'
      BY <2>1, <1>0 DEF OnConnectEvent, TableInv, NothingBefore, TypeOK
    <3>3. LoginFirst'
      <4>1. c2s[p] = <<>> /\ pid[p] = NoName
        BY <2>1 DEF OnConnectEvent, TableInv, NothingBefore
      <4>2. c2s'[p] = <<LoginWord(MyName[p])>>
        BY <2>1, <4>1, <1>0 DEF OnConnectEvent, TypeOK
      <4>3. LoginWord(MyName[p]).who = {MyName[p]}
        BY DEF LoginWord, Word
      <4>4. \A q \in Procs \ {p} : c2s'[q] = c2s[q]
        BY <2>1, <1>0 DEF OnConnectEvent, TypeOK
      <4>5. pid' = pid
        BY <2>1 DEF OnConnectEvent
      <4> QED BY <4>1, <4>2, <4>3, <4>4, <4>5 DEF TableInv, LoginFirst
    <3>4. ToldNothing' /\ EndedHasPid'
      BY <2>1, <1>0
         DEF OnConnectEvent, TableInv, ToldNothing, EndedHasPid, TypeOK
    <3> QED BY <1>0, <3>1, <3>2, <3>3, <3>4 DEF TableInv
  <2>2. CASE SendMessage(p)
    <3> PICK to \in Names, b \in Bodies :
            c2s' = [c2s EXCEPT ![p] = Append(@, SendWord(to, b))]
      BY <2>2 DEF SendMessage
    <3>1. SendWord(to, b) \in Words /\ SendWord(to, b).type # "login"
      BY CarrierTyped DEF SendWord, Word
    <3>2. LoginFirst'
      BY <2>2, <3>1, AppendKeepsLoginFirst DEF SendMessage
    <3>3. NothingBefore'
      BY <2>2, <1>0 DEF SendMessage, TableInv, NothingBefore, TypeOK
    <3> QED BY <2>2, <1>0, <3>2, <3>3
            DEF SendMessage, TableInv, RegistryCoherent, Registered,
                ToldNothing, EndedHasPid
  <2>3. CASE ProcessXML(p)
    <3>1. s2c[p] \in Seq(Words) /\ s2c[p] # <<>>
      BY <2>3, <1>0 DEF ProcessXML, TypeOK
    <3>2. 1 \in DOMAIN s2c[p] /\ s2c[p][1] = Head(s2c[p])
      BY <3>1, TailElements
    <3>3. pid[p] # NoName
      BY <2>3, <3>2 DEF ProcessXML, TableInv, ToldNothing
    <3>4. ToldNothing'
      BY <2>3, <3>3, <1>0 DEF ProcessXML, TableInv, ToldNothing, TypeOK
    <3> QED BY <2>3, <1>0, <3>4
            DEF ProcessXML, TableInv, RegistryCoherent, Registered,
                NothingBefore, LoginFirst, EndedHasPid
  <2>4. CASE CloseSocket(p)
    <3>1. FinWord \in Words /\ FinWord.type # "login"
      BY FinTyped DEF FinWord, Word
    <3>2. LoginFirst'
      BY <2>4, <3>1, AppendKeepsLoginFirst DEF CloseSocket
    <3>3. NothingBefore'
      BY <2>4, <1>0 DEF CloseSocket, TableInv, NothingBefore, TypeOK
    <3> QED BY <2>4, <1>0, <3>2, <3>3
            DEF CloseSocket, TableInv, RegistryCoherent, Registered,
                ToldNothing, EndedHasPid
  <2> QED BY <1>2, <2>1, <2>2, <2>3, <2>4 DEF PeerStep, OnCloseEvent, Exit
<1>3. CASE ServerDies /\ UNCHANGED peerVars
  <2>1. Registered' = {}
    BY <1>3 DEF ServerDies, Registered
  <2>2. RegistryCoherent'
    BY <2>1 DEF RegistryCoherent
  <2>3. NothingBefore' /\ LoginFirst'
    BY <1>3, <1>0 DEF ServerDies, peerVars, TableInv, NothingBefore, LoginFirst, TypeOK
  <2>4. ToldNothing'
    <3> SUFFICES ASSUME NEW q \in Procs, pid'[q] = NoName
                 PROVE  /\ view'[q] = {}
                        /\ \A i \in DOMAIN s2c'[q] : s2c'[q][i].type = "fin"
      BY DEF ToldNothing
    <3>1. /\ view'[q] = {}
          /\ \A i \in DOMAIN s2c[q] : s2c[q][i].type = "fin"
      BY <1>3 DEF ServerDies, peerVars, TableInv, ToldNothing
    <3>2. s2c'[q] = s2c[q] \/ s2c'[q] = Append(s2c[q], FinWord)
      BY <1>3 DEF ServerDies, WriteAll
    <3>3. FinWord \in Words /\ FinWord.type = "fin"
      BY FinTyped DEF FinWord, Word
    <3>4. s2c[q] \in Seq(Words)
      BY <1>0 DEF TypeOK
    <3>5. ASSUME s2c'[q] = Append(s2c[q], FinWord), NEW i \in DOMAIN s2c'[q]
          PROVE  s2c'[q][i].type = "fin"
      BY <3>1, <3>3, <3>4, <3>5, AppendElements
    <3> QED BY <3>1, <3>2, <3>5
  <2>5. EndedHasPid'
    BY <1>3, <1>0 DEF ServerDies, EndedHasPid, TypeOK
  <2> QED BY <1>0, <2>2, <2>3, <2>4, <2>5 DEF TableInv
<1>4. CASE UNCHANGED vars
  BY <1>4 DEF vars, serverVars, peerVars, TableInv, RegistryCoherent, Registered,
              NothingBefore, LoginFirst, ToldNothing, EndedHasPid, TypeOK
<1> QED BY <1>1, <1>2, <1>3, <1>4 DEF Next

\* An entry of peerObjects always belongs to an open socket that carries its
\* very name (index.js:22-104), whatever the clients do.
THEOREM RegistryIsCoherent == Spec => []RegistryCoherent
<1>1. Init => TableInv
  BY TableInit
<1>2. TableInv /\ [Next]_vars => TableInv'
  BY TableStep
<1>3. TableInv => RegistryCoherent
  BY DEF TableInv
<1> QED BY <1>1, <1>2, <1>3, PTL DEF Spec

\* Address and port tell any two sockets apart when written together.
SidsDistinct == \A p, q \in Procs : sid(p) = sid(q) => p = q

\* With sids that tell sockets apart, onClose removes the closing socket's
\* own entry and no other (index.js:86-97).  Without that assumption the
\* property is false: run sid_collision.
THEOREM OnlyRealUsersDeleted ==
    ASSUME SidsDistinct PROVE Spec => RealUserOnly
<1>1. Init => TableInv
  BY TableInit
<1>2. TableInv /\ [Next]_vars => TableInv'
  BY TableStep
<1>3. TableInv /\ [Next]_vars =>
          [\A n \in Registered :
              (up' /\ peerObjects'[n] = NoProc) =>
                  conn'[peerObjects[n]] = "closed"]_vars
  <2> SUFFICES ASSUME TableInv, Next, NEW n \in Registered,
                      up', peerObjects'[n] = NoProc
               PROVE  conn'[peerObjects[n]] = "closed"
    OBVIOUS
  <2>0. n \in Names /\ peerObjects[n] # NoProc /\ peerObjects[n] \in Procs
    BY DEF Registered, TableInv, TypeOK
  <2>1. ASSUME NEW p \in Procs, ServerStep(p) PROVE conn'[peerObjects[n]] = "closed"
    <3>1. CASE OnClose(p)
      <4>1. pid[p] = n /\ OwnsEntry(p)
        BY <3>1, <2>0 DEF OnClose, TableInv, TypeOK
      <4>2. p = peerObjects[n]
        BY <4>1, <2>0 DEF OwnsEntry, SidsDistinct
      <4> QED BY <3>1, <4>2 DEF OnClose, TableInv, TypeOK
    <3>2. CASE LoginAccepted(p)
      BY <3>2, <2>0, ServerAssumption DEF LoginAccepted, TableInv, TypeOK
    <3>3. CASE LoginKicked(p) \/ Send(p)
      BY <3>3, <2>0 DEF LoginKicked, Send
    <3> QED BY <2>1, <3>1, <3>2, <3>3 DEF ServerStep
  <2>2. ASSUME NEW p \in Procs, PeerStep(p) PROVE FALSE
    BY <2>0, <2>2 DEF PeerStep, OnConnectEvent, SendMessage, ProcessXML,
                      OnCloseEvent, Exit, CloseSocket
  <2>3. CASE ServerDies
    BY <2>3 DEF ServerDies
  <2> QED BY <2>1, <2>2, <2>3 DEF Next
<1> QED BY <1>1, <1>2, <1>3, PTL DEF Spec, RealUserOnly

(***************************************************************************)
(* Presence.  The belief a reader will end up with depends on the last     *)
(* word about a name only, so appending a word and reading the first one   *)
(* change it in the expected way.                                          *)
(***************************************************************************)
LEMMA BeliefAppend ==
    ASSUME NEW v, NEW q \in Seq(Words), NEW w \in Words, NEW n
    PROVE  Belief(v, Append(q, w), n) <=>
               IF About(w, n) THEN w.type # "offline" ELSE Belief(v, q, n)
<1> DEFINE a == Append(q, w)
           l == Len(q)
<1>0. /\ l \in Nat
      /\ DOMAIN q = 1 .. l
      /\ DOMAIN a = 1 .. l + 1
      /\ a[l + 1] = w
      /\ \A i \in 1 .. l : a[i] = q[i]
  BY AppendElements
<1> HIDE DEF a, l
<1>1. CASE About(w, n)
  <2>1. ASSUME NEW i \in DOMAIN a, About(a[i], n),
               \A j \in DOMAIN a : j > i => ~About(a[j], n)
        PROVE  i = l + 1
    BY <1>0, <1>1, <2>1
  <2>2. l + 1 \in DOMAIN a /\ \A j \in DOMAIN a : ~(j > l + 1)
    BY <1>0
  <2>3. Belief(v, a, n) <=> w.type # "offline"
    BY <1>0, <1>1, <2>1, <2>2 DEF Belief
  <2> QED BY <1>1, <2>3 DEF a
<1>2. CASE ~About(w, n)
  <2>1. (\A j \in DOMAIN a : ~About(a[j], n)) <=> (\A j \in DOMAIN q : ~About(q[j], n))
    BY <1>0, <1>2
  <2>2. ASSUME NEW i \in DOMAIN a, About(a[i], n)
        PROVE  /\ i \in DOMAIN q /\ a[i] = q[i]
               /\ (\A j \in DOMAIN a : j > i => ~About(a[j], n)) <=>
                      (\A j \in DOMAIN q : j > i => ~About(q[j], n))
    BY <1>0, <1>2, <2>2
  <2>3. ASSUME NEW i \in DOMAIN q, About(q[i], n)
        PROVE  i \in DOMAIN a /\ a[i] = q[i]
    BY <1>0
  <2>4. Belief(v, a, n) <=> Belief(v, q, n)
    BY <2>1, <2>2, <2>3 DEF Belief
  <2> QED BY <1>2, <2>4 DEF a
<1> QED BY <1>1, <1>2

\* Reading the next word does not change what the reader will believe.
LEMMA BeliefTail ==
    ASSUME NEW v, NEW q \in Seq(Words), q # <<>>, NEW n
    PROVE  Belief(Learn(v, Head(q)), Tail(q), n) <=> Belief(v, q, n)
<1> DEFINE h == Head(q)
           t == Tail(q)
           l == Len(q)
<1>0. /\ l \in Nat /\ l >= 1
      /\ DOMAIN q = 1 .. l
      /\ DOMAIN t = 1 .. l - 1
      /\ q[1] = h
      /\ \A i \in 1 .. l - 1 : t[i] = q[i + 1]
  BY TailElements
<1>1. n \in Learn(v, h) <=> IF About(h, n) THEN h.type # "offline" ELSE n \in v
  BY DEF Learn, About
<1> HIDE DEF h, t, l
<1>2. \A j \in DOMAIN q : j # 1 => j - 1 \in DOMAIN t /\ t[j - 1] = q[j]
  BY <1>0
<1>3. \A j \in DOMAIN t : j + 1 \in DOMAIN q /\ j + 1 # 1 /\ t[j] = q[j + 1]
  BY <1>0
<1>4. 1 \in DOMAIN q /\ \A j \in DOMAIN q : j # 1 => j > 1
  BY <1>0
<1>5. ASSUME NEW i \in DOMAIN t
      PROVE  (\A j \in DOMAIN t : j > i => ~About(t[j], n)) <=>
                 (\A j \in DOMAIN q : j > i + 1 => ~About(q[j], n))
  BY <1>0, <1>2, <1>3
<1>6. (\A j \in DOMAIN t : ~About(t[j], n)) <=>
          (\A j \in DOMAIN q : j > 1 => ~About(q[j], n))
  BY <1>0, <1>2, <1>3
<1>7. ASSUME Belief(Learn(v, h), t, n) PROVE Belief(v, q, n)
  <2>1. CASE \E i \in DOMAIN t : /\ About(t[i], n)
                                 /\ t[i].type # "offline"
                                 /\ \A j \in DOMAIN t : j > i => ~About(t[j], n)
    BY <2>1, <1>3, <1>5 DEF Belief
  <2>2. CASE n \in Learn(v, h) /\ \A j \in DOMAIN t : ~About(t[j], n)
    <3>1. CASE About(h, n)
      BY <2>2, <3>1, <1>0, <1>1, <1>4, <1>6 DEF Belief
    <3>2. CASE ~About(h, n)
      <4>1. n \in v
        BY <2>2, <3>2, <1>1
      <4>2. \A j \in DOMAIN q : ~About(q[j], n)
        BY <2>2, <3>2, <1>0, <1>4, <1>6
      <4> QED BY <4>1, <4>2 DEF Belief
    <3> QED BY <3>1, <3>2
  <2> QED BY <1>7, <2>1, <2>2 DEF Belief
<1>8. ASSUME Belief(v, q, n) PROVE Belief(Learn(v, h), t, n)
  <2>1. CASE n \in v /\ \A j \in DOMAIN q : ~About(q[j], n)
    <3>1. n \in Learn(v, h)
      BY <2>1, <1>0, <1>1, <1>4
    <3>2. \A j \in DOMAIN t : ~About(t[j], n)
      BY <2>1, <1>3
    <3> QED BY <3>1, <3>2 DEF Belief
  <2>2. ASSUME NEW i \in DOMAIN q, About(q[i], n), q[i].type # "offline",
               \A j \in DOMAIN q : j > i => ~About(q[j], n)
        PROVE  Belief(Learn(v, h), t, n)
    <3>1. CASE i = 1
      <4>1. n \in Learn(v, h)
        BY <2>2, <3>1, <1>0, <1>1
      <4>2. \A j \in DOMAIN t : ~About(t[j], n)
        BY <2>2, <3>1, <1>6
      <4> QED BY <4>1, <4>2 DEF Belief
    <3>2. CASE i # 1
      <4>1. i - 1 \in DOMAIN t /\ t[i - 1] = q[i] /\ (i - 1) + 1 = i
        BY <3>2, <1>0, <1>2
      <4>2. \A j \in DOMAIN t : j > i - 1 => ~About(t[j], n)
        BY <4>1, <2>2, <1>5
      <4> QED BY <4>1, <4>2, <2>2 DEF Belief
    <3> QED BY <3>1, <3>2
  <2> QED BY <1>8, <2>1, <2>2 DEF Belief
<1> QED BY <1>7, <1>8 DEF h, t

\* The words of the server and what they are about.
LEMMA AboutPresence ==
    ASSUME NEW k, NEW n
    PROVE  /\ About(LoginWord(k), n) <=> n = k
           /\ About(OfflineWord(k), n) <=> n = k
           /\ LoginWord(k).type # "offline"
           /\ OfflineWord(k).type = "offline"
BY DEF About, LoginWord, OfflineWord, Word

\* An online word is about the names in it.
LEMMA AboutOnline ==
    ASSUME NEW S, NEW n
    PROVE  /\ About(OnlineWord(S), n) <=> n \in S
           /\ OnlineWord(S).type # "offline"
BY DEF About, OnlineWord, Word

\* A message is about nobody's presence.
LEMMA AboutMessage ==
    ASSUME NEW k, NEW n, NEW b PROVE ~About(MessageWord(k, b), n)
BY DEF About, MessageWord, Word

\* A word other than "offline" only adds to what its reader will believe.
LEMMA BeliefTold ==
    ASSUME NEW v, NEW q \in Seq(Words), NEW w \in Words, NEW n,
           w.type # "offline"
    PROVE  Belief(v, Append(q, w), n) <=> (About(w, n) \/ Belief(v, q, n))
BY BeliefAppend

\* Concatenating one word is appending it.
LEMMA ConcatOne ==
    ASSUME NEW S, NEW s \in Seq(S), NEW e \in S PROVE s \o <<e>> = Append(s, e)
OBVIOUS

\* Presence is exact at the start: nobody has logged in.
LEMMA PresenceInit == ASSUME Init PROVE PresenceExact
BY DEF Init, ServerInit, PresenceExact, Users, Registered

\* Every step keeps presence exact, given the invariant of the table.
LEMMA PresenceStep ==
    ASSUME TableInv, PresenceExact, [Next]_vars
    PROVE  PresenceExact'
<1>0. TypeOK /\ TypeOK' /\ TableInv'
  BY TableStep DEF TableInv
<1> SUFFICES ASSUME NEW r \in Users', NEW m \in Names,
                    sock'[r] = "open", m # pid'[r]
             PROVE  Belief(view'[r], s2c'[r], m) <=> m \in Registered'
  BY DEF PresenceExact
<1>r. /\ r \in Procs /\ pid'[r] \in Names /\ peerObjects'[pid'[r]] = r
      /\ s2c[r] \in Seq(Words) /\ view[r] \in SUBSET (Names \cup {NoName})
  BY <1>0, UserPid DEF TypeOK, Users, Registered, TableInv, RegistryCoherent
\* What held before, for a user whose socket was open.
<1>h. ASSUME r \in Users, sock[r] = "open", m # pid[r]
      PROVE  Belief(view[r], s2c[r], m) <=> m \in Registered
  BY <1>h DEF PresenceExact
<1>1. ASSUME NEW p \in Procs, ServerStep(p), UNCHANGED peerVars
      PROVE  Belief(view'[r], s2c'[r], m) <=> m \in Registered'
  <2>0. sock' = sock /\ view' = view
    BY <1>1 DEF peerVars
  <2>1. CASE LoginKicked(p)
    <3> PICK n \in Names : /\ Receives(p, LoginWord(n))
                           /\ pid' = [pid EXCEPT ![p] = n]
                           /\ s2c' = [s2c EXCEPT ![p] = @ \o Kick]
                           /\ peerObjects' = peerObjects
      BY <2>1 DEF LoginKicked
    <3>1. r \in Users /\ r # p
      BY LoginIsNew DEF Users, Registered
    <3>2. s2c'[r] = s2c[r] /\ pid'[r] = pid[r] /\ Registered' = Registered
      BY <3>1, <1>0, <1>r DEF TypeOK, Registered
    <3> QED BY <1>h, <2>0, <3>1, <3>2
  <2>2. CASE LoginAccepted(p)
    <3> PICK n \in Names :
            /\ Receives(p, LoginWord(n))
            /\ n \notin Registered
            /\ pid' = [pid EXCEPT ![p] = n]
            /\ s2c' = [WriteAll(Users, LoginWord(n)) EXCEPT
                          ![p] = @ \o OnlineList]
            /\ peerObjects' = [peerObjects EXCEPT ![n] = p]
      BY <2>2 DEF LoginAccepted
    <3>1. p \notin Users /\ pid[p] = NoName /\ pid'[p] = n
      BY LoginIsNew, <1>0 DEF TypeOK
    <3>2. Registered' = Registered \cup {n}
      BY <1>0, ServerAssumption DEF Registered, TypeOK
    <3>3. CASE r = p
      <4>1. s2c'[r] = s2c[p] \o OnlineList
        BY <3>1, <3>3, <1>0 DEF WriteAll, TypeOK
      <4>2. /\ view'[r] = {}
            /\ \A i \in DOMAIN s2c[p] : s2c[p][i].type = "fin"
        BY <3>1, <3>3, <2>0 DEF TableInv, ToldNothing
      <4>3. ~Belief({}, s2c[p], m)
        BY <4>2 DEF Belief, About
      <4>4. CASE Registered = {}
        <5>1. s2c'[r] = s2c[p]
          BY <4>1, <4>4, <1>r, <3>3 DEF OnlineList
        <5> QED BY <5>1, <4>2, <4>3, <4>4, <3>1, <3>2, <3>3
      <4>5. CASE Registered # {}
        <5>1. OnlineWord(Registered) \in Words
          BY OnlineTyped, RegisteredTyped
        <5> DEFINE w == OnlineWord(Registered)
        <5>2. s2c'[r] = s2c[p] \o <<w>> /\ s2c[p] \in Seq(Words) /\ w \in Words
          BY <4>1, <4>5, <5>1, <1>r, <3>3 DEF OnlineList
        <5>3. About(w, m) <=> m \in Registered
          BY AboutOnline
        <5>4. w.type # "offline"
          BY AboutOnline
        <5> HIDE DEF w
        <5>5. s2c'[r] = Append(s2c[p], w)
          BY <5>2, ConcatOne, Zenon
        <5>6. Belief({}, s2c'[r], m) <=> (About(w, m) \/ Belief({}, s2c[p], m))
          BY <5>2, <5>4, <5>5, BeliefTold, ZenonT(40)
        <5>7. Belief({}, s2c'[r], m) <=> m \in Registered
          BY <5>3, <5>6, <4>3
        <5> QED BY <5>7, <4>2, <3>1, <3>2, <3>3
      <4> QED BY <4>4, <4>5
    <3>4. CASE r # p
      <4>1. r \in Users /\ pid'[r] = pid[r]
        BY <3>4, <1>0, <1>r, ServerAssumption DEF Users, Registered, TypeOK
      <4>2. s2c'[r] = Append(s2c[r], LoginWord(n))
        BY <4>1, <3>4, <1>r DEF WriteAll
      <4>3. LoginWord(n) \in Words
        BY PresenceTyped
      <4>4. Belief(view[r], s2c'[r], m) <=> (m = n \/ Belief(view[r], s2c[r], m))
        <5> DEFINE w == LoginWord(n)
        <5>1. w.type # "offline" /\ (About(w, m) <=> m = n)
          BY AboutPresence
        <5>2. s2c'[r] = Append(s2c[r], w) /\ w \in Words /\ s2c[r] \in Seq(Words)
          BY <4>2, <4>3, <1>r
        <5> HIDE DEF w
        <5>3. Belief(view[r], s2c'[r], m) <=>
                  (About(w, m) \/ Belief(view[r], s2c[r], m))
          BY <5>1, <5>2, BeliefTold, Zenon
        <5> QED BY <5>1, <5>3
      <4> QED BY <4>1, <4>4, <1>h, <2>0, <3>2
    <3> QED BY <3>3, <3>4
  <2>3. CASE Send(p)
    <3> PICK to \in Names :
            /\ Receives(p, SendWord(to, Head(c2s[p]).body))
            /\ s2c' = IF pid[p] # NoName /\ to \in Registered
                      THEN WriteAll({peerObjects[to]},
                                MessageWord(pid[p], Head(c2s[p]).body))
                      ELSE s2c
            /\ pid' = pid /\ peerObjects' = peerObjects
      BY <2>3 DEF Send
    <3>0. Head(c2s[p]) \in Words
      BY ReceivesTyped, <1>0
    <3>1. MessageWord(pid[p], Head(c2s[p]).body) \in Words
      BY <3>0, CarrierTyped, <1>0 DEF Words, TypeOK
    <3>2. \/ s2c'[r] = s2c[r]
          \/ s2c'[r] = Append(s2c[r], MessageWord(pid[p], Head(c2s[p]).body))
      BY <1>r DEF WriteAll
    <3>3. Belief(view[r], s2c'[r], m) <=> Belief(view[r], s2c[r], m)
      <4> DEFINE w == MessageWord(pid[p], Head(c2s[p]).body)
      <4>1. ~About(w, m)
        BY AboutMessage
      <4>2. Belief(view[r], Append(s2c[r], w), m) <=>
                IF About(w, m) THEN w.type # "offline"
                               ELSE Belief(view[r], s2c[r], m)
        BY <3>1, <1>r, BeliefAppend
      <4> QED BY <3>2, <4>1, <4>2
    <3>4. r \in Users /\ Registered' = Registered
      BY DEF Users, Registered
    <3> QED BY <3>3, <3>4, <1>h, <2>0
  <2>4. CASE OnClose(p)
    <3>1. pid' = pid
      BY <2>4 DEF OnClose
    <3>2. CASE ~OwnsEntry(p)
      <4>1. s2c' = s2c /\ peerObjects' = peerObjects
        BY <2>4, <3>2 DEF OnClose
      <4>2. r \in Users /\ Registered' = Registered
        BY <4>1 DEF Users, Registered
      <4> QED BY <3>1, <4>1, <4>2, <1>h, <2>0
    <3>3. CASE OwnsEntry(p)
      <4> DEFINE n == pid[p]
      <4>0. n \in Registered /\ n \in Names
        BY <3>3 DEF OwnsEntry, Registered
      <4>1. /\ peerObjects' = [peerObjects EXCEPT ![n] = NoProc]
            /\ s2c' = WriteAll({peerObjects[k] : k \in Registered \ {n}},
                               OfflineWord(n))
        BY <2>4, <3>3 DEF OnClose
      <4>2. Registered' = Registered \ {n}
        BY <4>0, <4>1, <1>0 DEF Registered, TypeOK
      <4>3. /\ pid[r] \in Registered \ {n}
            /\ r = peerObjects[pid[r]]
        BY <1>r, <3>1, <4>0, <4>1, <4>2, <1>0, ServerAssumption DEF TypeOK, Registered
      <4>4. r \in Users
        BY <4>3 DEF Users
      <4>5. s2c'[r] = Append(s2c[r], OfflineWord(n))
        BY <4>1, <4>3, <1>r DEF WriteAll
      <4>6. OfflineWord(n) \in Words
        BY <4>0, PresenceTyped
      <4>7. Belief(view[r], s2c'[r], m) <=> (m # n /\ Belief(view[r], s2c[r], m))
        <5>1. Belief(view[r], s2c'[r], m) <=>
                  IF About(OfflineWord(n), m) THEN OfflineWord(n).type # "offline"
                                              ELSE Belief(view[r], s2c[r], m)
          BY <4>5, <4>6, <1>r, BeliefAppend
        <5> QED BY <5>1, AboutPresence
      <4> QED BY <4>2, <4>4, <4>7, <1>h, <2>0, <3>1
    <3> QED BY <3>2, <3>3
  <2> QED BY <1>1, <2>1, <2>2, <2>3, <2>4 DEF ServerStep
<1>2. ASSUME NEW p \in Procs, PeerStep(p)
      PROVE  Belief(view'[r], s2c'[r], m) <=> m \in Registered'
  <2>0. pid' = pid /\ peerObjects' = peerObjects
    BY <1>2 DEF PeerStep, OnConnectEvent, SendMessage, ProcessXML,
                OnCloseEvent, Exit, CloseSocket
  <2>1. r \in Users /\ Registered' = Registered
    BY <2>0 DEF Users, Registered
  <2>2. sock[r] = "open"
    <3>1. sock[r] # "none"
      BY <2>1, UserPid DEF TableInv, NothingBefore
    <3>2. sock[r] # "closed"
      BY <1>2, <1>0, <1>r
         DEF PeerStep, OnConnectEvent, SendMessage, ProcessXML, OnCloseEvent,
             Exit, CloseSocket, TypeOK
    <3> QED BY <3>1, <3>2, <1>0, <1>r DEF TypeOK
  <2>3. CASE ProcessXML(p) /\ p = r
    <3>1. /\ s2c[r] # <<>>
          /\ view'[r] = Learn(view[r], Head(s2c[r]))
          /\ s2c'[r] = Tail(s2c[r])
      BY <2>3, <1>0, <1>r DEF ProcessXML, TypeOK
    <3>2. Belief(view'[r], s2c'[r], m) <=> Belief(view[r], s2c[r], m)
      BY <3>1, <1>r, BeliefTail
    <3> QED BY <3>2, <1>h, <2>0, <2>1, <2>2
  <2>4. CASE ~(ProcessXML(p) /\ p = r)
    <3>1. view'[r] = view[r] /\ s2c'[r] = s2c[r]
      BY <1>2, <2>4, <1>0, <1>r
         DEF PeerStep, OnConnectEvent, SendMessage, ProcessXML, OnCloseEvent,
             Exit, CloseSocket, TypeOK
    <3> QED BY <3>1, <1>h, <2>0, <2>1, <2>2
  <2> QED BY <2>3, <2>4
<1>3. CASE ServerDies
  BY <1>3 DEF ServerDies, Users, Registered
<1>4. CASE UNCHANGED vars
  <2>1. /\ r \in Users /\ Registered' = Registered /\ pid' = pid
        /\ view' = view /\ s2c' = s2c /\ sock' = sock
    BY <1>4 DEF vars, serverVars, peerVars, Users, Registered
  <2> QED BY <2>1, <1>h
<1> QED BY <1>1, <1>2, <1>3, <1>4 DEF Next

\* The online list, the login and offline broadcasts and the table update of
\* index.js fit together: no logged-in peer is ever on the way to a wrong
\* belief about who is in the table.
THEOREM PresenceIsExact == Spec => []PresenceExact
<1>1. Init => TableInv /\ PresenceExact
  BY TableInit, PresenceInit
<1>2. TableInv /\ PresenceExact /\ [Next]_vars => (TableInv /\ PresenceExact)'
  BY TableStep, PresenceStep
<1> QED BY <1>1, <1>2, PTL DEF Spec
=============================================================================
