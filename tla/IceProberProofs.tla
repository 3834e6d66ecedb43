--------------------------- MODULE IceProberProofs --------------------------
(***************************************************************************)
(* Proofs about IceProber.  The first part holds for any processes: types, *)
(* the two threads of one process, the watchdog.  The second part is about *)
(* the handshake of two partners through the server, and needs that no two *)
(* processes log in with the same name and that who is wanted wants nobody *)
(* else (OwnNames).  The third part, under the same assumption, follows    *)
(* each candidate from one partner to the other.                           *)
(***************************************************************************)
EXTENDS IceProber, QueueLemmas

Msgs == [type : {"initiate", "accept", "transport"}, cands : Seq(Candidates)]

WorkMsgs == {ReadyMsg} \cup {CandidateMsg(c) : c \in Candidates}

\* The words of the streams.
Words == {w \in [type : {"login", "online", "offline", "send", "message", "fin"},
                 who : SUBSET Names, body : Msgs \cup {NoBody}] :
            w.type \in {"send", "message"} => w.body \in Msgs}

\* A process in the middle of a handler: out may hold messages.
Mid(p) ==
    [main : {"login", "on"}, sock : {"none", "connecting", "open"},
     dead : Reasons, io : BOOLEAN, remoteOnline : BOOLEAN, targets : Nat,
     state : States, pending : BOOLEAN, timer : BOOLEAN, out : Seq(Msgs),
     proxy : {"INIT", "CONNECTING", "NEGOTIATED"}, connectReq : BOOLEAN,
     ready : Seq(Candidates), unsent : Seq(Candidates),
     twritable : BOOLEAN, writable : BOOLEAN, waiting : BOOLEAN,
     session : BOOLEAN, remote : Seq(Candidates), got : Seq(Seq(Candidates)),
     made : 0 .. MaxCand[p], allocs : 0 .. MaxAlloc[p], flips : 0 .. MaxFlips[p],
     sigq : Seq(SignalIds), wq : Seq(WorkMsgs)]

\* The message m is in the queue, or is the one that is handled, h.
Comes(s, h, m) == Has(s.sigq, m) \/ h = m

Stranded(s, h) ==
    /\ s.ready # <<>> => Comes(s, h, "CANDIDATEREADY")
    /\ s.waiting => Comes(s, h, "REQUESTSIGNALING") \/ Has(s.wq, ReadyMsg)
    /\ s.writable # s.twritable => Comes(s, h, "WRITESTATE")
    /\ s.unsent # <<>> => s.pending

\* What there is only once the channel was told to connect.
ConnectMsgs == {"CANDIDATEREADY", "REQUESTSIGNALING", "CONNECTING", "WRITESTATE", "TIMEOUT"}

Unconnected(s, h) ==
    /\ h \in ConnectMsgs => s.connectReq
    /\ ~s.connectReq =>
          /\ s.proxy = "INIT" /\ s.ready = <<>> /\ s.remote = <<>> /\ s.wq = <<>>
          /\ ~s.waiting /\ ~s.session /\ ~s.writable /\ ~s.twritable /\ ~s.timer
          /\ \A m \in ConnectMsgs : ~Has(s.sigq, m)

\* MSG_CONNECTING is handled once, before any MSG_WRITESTATE.
Ordered(s, h) ==
    /\ Comes(s, h, "CONNECTING") => ~s.twritable
    /\ h \in {"CONNECTING", "WRITESTATE"} => ~Has(s.sigq, "CONNECTING")
    /\ \A i, j \in DOMAIN s.sigq :
          s.sigq[i] = "CONNECTING" /\ s.sigq[j] \in {"CONNECTING", "WRITESTATE"} => i <= j

Timeouts(s) == CountOf(s.sigq, {"TIMEOUT"}) + (IF s.timer THEN 1 ELSE 0)

Timed(s, h) ==
    Timeouts(s) = IF s.connectReq /\ ~Comes(s, h, "CONNECTING") /\ ~s.twritable THEN 1 ELSE 0

Local(p, s, h) ==
    s \in Mid(p) /\ Stranded(s, h) /\ Unconnected(s, h) /\ Ordered(s, h) /\ Timed(s, h)

ServerType ==
    /\ up \in BOOLEAN
    /\ conn \in [Procs -> {"none", "open", "ended", "closed"}]
    /\ pid \in [Procs -> Names \cup {NoName}]
    /\ peerObjects \in [Names -> Procs \cup {NoProc}]
    /\ c2s \in [Procs -> Seq(Words)]
    /\ s2c \in [Procs -> Seq(Words)]

\* What a handler leaves: the process has ended, or all is in order.
Keeps(p, r, h) == r \in Mid(p) /\ (r.dead = "no" => Local(p, r, h))

\* A process between two handlers.
Process(p, s) == s = ProberInit \/ (Keeps(p, s, "none") /\ s.out = <<>>)

ProberInv ==
    /\ ServerType
    /\ DOMAIN pr = Procs
    /\ \A p \in Procs : Process(p, pr[p])

-----------------------------------------------------------------------------
(* Posting a message and taking one.                                       *)

\* What Post of m does to the queue of s.
Posted(r, s, m) ==
    /\ r.sigq \in Seq(SignalIds)
    /\ \A k : Has(r.sigq, k) <=> Has(s.sigq, k) \/ k = m
    /\ Timeouts(r) = Timeouts(s) + (IF m = "TIMEOUT" THEN 1 ELSE 0)
    /\ (\A i, j \in DOMAIN s.sigq :
          s.sigq[i] = "CONNECTING" /\ s.sigq[j] \in {"CONNECTING", "WRITESTATE"} => i <= j)
       /\ (m = "CONNECTING" => ~Has(s.sigq, "CONNECTING") /\ ~Has(s.sigq, "WRITESTATE"))
       => \A i, j \in DOMAIN r.sigq :
          r.sigq[i] = "CONNECTING" /\ r.sigq[j] \in {"CONNECTING", "WRITESTATE"} => i <= j

LEMMA PostIs ==
    ASSUME NEW s, s.sigq \in Seq(SignalIds), NEW m \in SignalIds, NEW r,
           r.sigq = Append(s.sigq, m), r.timer = s.timer
    PROVE  Posted(r, s, m)
<1>q. PICK q \in Seq(SignalIds) : q = s.sigq
  OBVIOUS
<1>k. PICK k : k = Append(q, m)
  OBVIOUS
<1>1. /\ k \in Seq(SignalIds) /\ Len(k) = Len(q) + 1 /\ k[Len(q) + 1] = m
      /\ \A i \in 1 .. Len(q) : k[i] = q[i]
  BY <1>k
<1>2. DOMAIN k = (1 .. Len(q)) \cup {Len(q) + 1} /\ DOMAIN q = 1 .. Len(q)
  BY <1>1
<1>3. \A x : Has(k, x) <=> Has(q, x) \/ x = m
  BY <1>1, <1>2 DEF Has
<1>4. CountOf(k, {"TIMEOUT"}) = CountOf(q, {"TIMEOUT"}) + (IF m = "TIMEOUT" THEN 1 ELSE 0)
  BY <1>k, CountAppend
<1>5. CountOf(q, {"TIMEOUT"}) \in Nat
  BY PlacesFinite
<1>6. Timeouts(r) = Timeouts(s) + (IF m = "TIMEOUT" THEN 1 ELSE 0)
  BY <1>4, <1>5, <1>q, <1>k DEF Timeouts
<1>7. ASSUME \A i, j \in DOMAIN q :
                q[i] = "CONNECTING" /\ q[j] \in {"CONNECTING", "WRITESTATE"} => i <= j,
             m = "CONNECTING" => ~Has(q, "CONNECTING") /\ ~Has(q, "WRITESTATE"),
             NEW i \in DOMAIN k, NEW j \in DOMAIN k,
             k[i] = "CONNECTING", k[j] \in {"CONNECTING", "WRITESTATE"}
      PROVE  i <= j
  <2>1. CASE i \in DOMAIN q /\ j \in DOMAIN q
    BY <1>1, <1>2, <1>7, <2>1
  <2>2. CASE i = Len(q) + 1 /\ j \in DOMAIN q
    BY <1>1, <1>2, <1>7, <2>2 DEF Has
  <2>3. CASE j = Len(q) + 1
    BY <1>1, <1>2, <2>3
  <2> QED BY <1>2, <2>1, <2>2, <2>3
<1> QED BY <1>1, <1>3, <1>6, <1>7, <1>q, <1>k DEF Posted

\* What Get of the first message does to it.
Taken(r, s, m) ==
    /\ r.sigq \in Seq(SignalIds) /\ m \in SignalIds
    /\ \A k : Has(r.sigq, k) => Has(s.sigq, k)
    /\ \A k : Has(s.sigq, k) => Has(r.sigq, k) \/ k = m
    /\ Has(s.sigq, m)
    /\ m # "TIMEOUT" => Timeouts(r) = Timeouts(s)
    /\ (\A i, j \in DOMAIN s.sigq :
          s.sigq[i] = "CONNECTING" /\ s.sigq[j] \in {"CONNECTING", "WRITESTATE"} => i <= j)
       => /\ \A i, j \in DOMAIN r.sigq :
                r.sigq[i] = "CONNECTING" /\ r.sigq[j] \in {"CONNECTING", "WRITESTATE"} => i <= j
          /\ m \in {"CONNECTING", "WRITESTATE"} => ~Has(r.sigq, "CONNECTING")

LEMMA TakeIs ==
    ASSUME NEW s, s.sigq \in Seq(SignalIds), s.sigq # <<>>, NEW m, m = Head(s.sigq), NEW r,
           r.sigq = Tail(s.sigq), r.timer = s.timer
    PROVE  Taken(r, s, m)
<1>q. PICK q \in Seq(SignalIds) : q = s.sigq /\ q # <<>>
  OBVIOUS
<1>k. PICK k : k = Tail(q)
  OBVIOUS
<1>1. /\ k \in Seq(SignalIds) /\ m \in SignalIds /\ q[1] = m
      /\ \A i \in DOMAIN k : i \in Nat /\ i + 1 \in DOMAIN q /\ k[i] = q[i + 1]
      /\ \A i \in DOMAIN q : i = 1 \/ (i \in Nat /\ i - 1 \in DOMAIN k /\ k[i - 1] = q[i])
      /\ 1 \in DOMAIN q
  BY <1>k, <1>q
<1>2. /\ \A x : Has(k, x) => Has(q, x)
      /\ \A x : Has(q, x) => Has(k, x) \/ x = m
      /\ Has(q, m)
  BY ZenonT(60), <1>1 DEF Has
<1>4. CountOf(k, {"TIMEOUT"}) = CountOf(q, {"TIMEOUT"}) - (IF m = "TIMEOUT" THEN 1 ELSE 0)
  BY <1>k, <1>q, CountTail
<1>5. CountOf(q, {"TIMEOUT"}) \in Nat
  BY PlacesFinite
<1>6. m # "TIMEOUT" => Timeouts(r) = Timeouts(s)
  BY <1>4, <1>5, <1>q, <1>k DEF Timeouts
<1>7. ASSUME \A i, j \in DOMAIN q :
                q[i] = "CONNECTING" /\ q[j] \in {"CONNECTING", "WRITESTATE"} => i <= j
      PROVE  /\ \A i, j \in DOMAIN k :
                    k[i] = "CONNECTING" /\ k[j] \in {"CONNECTING", "WRITESTATE"} => i <= j
             /\ m \in {"CONNECTING", "WRITESTATE"} => ~Has(k, "CONNECTING")
  <2>1. \A i, j \in DOMAIN k :
            k[i] = "CONNECTING" /\ k[j] \in {"CONNECTING", "WRITESTATE"} => i <= j
    BY <1>1, <1>7
  <2>2. ASSUME m \in {"CONNECTING", "WRITESTATE"}, NEW i \in DOMAIN k, k[i] = "CONNECTING"
        PROVE  FALSE
    <3>1. i + 1 <= 1
      BY <1>1, <1>7, <2>2
    <3>2. i \in 1 .. Len(k)
      BY <1>1
    <3> QED BY <3>1, <3>2
  <2> QED BY <2>1, <2>2 DEF Has
<1> QED BY <1>1, <1>2, <1>6, <1>7, <1>q, <1>k DEF Taken

-----------------------------------------------------------------------------
(* One process: what its handlers keep.                                    *)

\* The members that Local looks at.
Same(r, s) ==
    /\ r.ready = s.ready /\ r.unsent = s.unsent /\ r.pending = s.pending
    /\ r.waiting = s.waiting /\ r.wq = s.wq /\ r.writable = s.writable
    /\ r.twritable = s.twritable /\ r.connectReq = s.connectReq /\ r.proxy = s.proxy
    /\ r.remote = s.remote /\ r.session = s.session /\ r.timer = s.timer
    /\ r.sigq = s.sigq

LEMMA SameKeeps ==
    ASSUME NEW p, NEW s, NEW h, Local(p, s, h), NEW r \in Mid(p), Same(r, s)
    PROVE  Local(p, r, h)
<1>1. Stranded(r, h)
  BY DEF Local, Stranded, Same, Comes
<1>2. Unconnected(r, h)
  BY DEF Local, Unconnected, Same
<1>3. Ordered(r, h)
  BY DEF Local, Ordered, Same, Comes
<1>4. Timed(r, h)
  BY DEF Local, Timed, Same, Comes, Timeouts
<1> QED BY <1>1, <1>2, <1>3, <1>4 DEF Local

\* The message that was handled is forgotten.
LEMMA Forgotten ==
    ASSUME NEW p, NEW s, NEW h, h \notin ConnectMsgs, Local(p, s, h)
    PROVE  Local(p, s, "none")
<1>1. \A m \in ConnectMsgs : Comes(s, "none", m) <=> Comes(s, h, m)
  BY DEF Comes, ConnectMsgs
<1>2. {"CANDIDATEREADY", "REQUESTSIGNALING", "WRITESTATE", "CONNECTING"} \subseteq ConnectMsgs
      /\ "none" \notin ConnectMsgs
  BY DEF ConnectMsgs
<1>3. Stranded(s, "none")
  BY <1>1, <1>2 DEF Local, Stranded
<1>4. Unconnected(s, "none")
  BY <1>2 DEF Local, Unconnected
<1>5. Ordered(s, "none")
  BY <1>1, <1>2 DEF Local, Ordered
<1>6. Timed(s, "none")
  BY <1>1, <1>2 DEF Local, Timed
<1> QED BY <1>3, <1>4, <1>5, <1>6 DEF Local

\* The queue with another message.
Posts(s, m) == [s EXCEPT !.sigq = Append(@, m)]

\* Everything but the queue.
But(r, s) ==
    /\ r.ready = s.ready /\ r.unsent = s.unsent /\ r.pending = s.pending
    /\ r.waiting = s.waiting /\ r.wq = s.wq /\ r.writable = s.writable
    /\ r.twritable = s.twritable /\ r.connectReq = s.connectReq /\ r.proxy = s.proxy
    /\ r.remote = s.remote /\ r.session = s.session /\ r.timer = s.timer
    /\ r.out = s.out /\ r.dead = s.dead /\ r.state = s.state

LEMMA PostsIs ==
    ASSUME NEW p, NEW s \in Mid(p), NEW m \in SignalIds, NEW r, r = Posts(s, m)
    PROVE  r \in Mid(p) /\ Posted(r, s, m) /\ But(r, s) /\ r.sigq = Append(s.sigq, m)
<1>1. s.sigq \in Seq(SignalIds)
  BY DEF Mid
<1>q. PICK q \in Seq(SignalIds) : q = s.sigq
  BY <1>1
<1>a. Append(q, m) \in Seq(SignalIds)
  OBVIOUS
<1>k. PICK k \in Seq(SignalIds) : k = Append(s.sigq, m)
  BY <1>q, <1>a
<1>2. r = [s EXCEPT !.sigq = k]
  BY <1>k DEF Posts
<1>3. r \in Mid(p)
  BY ZenonT(60), <1>2 DEF Mid
<1>4. r.sigq = k /\ But(r, s)
  BY <1>2 DEF Mid, But
<1>5. r.timer = s.timer
  BY <1>4 DEF But
<1>6. Posted(r, s, m)
  BY <1>1, <1>4, <1>5, <1>k, PostIs
<1> QED BY <1>3, <1>4, <1>6, <1>k

LEMMA PostKeeps ==
    ASSUME NEW p, NEW s, NEW h, Local(p, s, h), NEW m \in SignalIds \ {"CONNECTING", "TIMEOUT"},
           m \in ConnectMsgs => s.connectReq, NEW r, r = Posts(s, m)
    PROVE  Local(p, r, h)
<1>1. r \in Mid(p) /\ Posted(r, s, m) /\ But(r, s)
  BY PostsIs DEF Local
<1>2. \A k : Comes(s, h, k) => Comes(r, h, k)
  BY <1>1 DEF Comes, Posted
<1>3. Has(r.sigq, "CONNECTING") <=> Has(s.sigq, "CONNECTING")
  BY <1>1 DEF Posted
<1>4. Timeouts(r) = Timeouts(s)
  <2>1. Timeouts(s) \in Nat
    BY DEF Local, Timed
  <2> QED BY <1>1, <2>1 DEF Posted
<1>5. Stranded(r, h)
  BY <1>1, <1>2 DEF Local, Stranded, But
<1>6. Unconnected(r, h)
  <2>1. ~s.connectReq => \A k \in ConnectMsgs : ~Has(r.sigq, k)
    BY <1>1 DEF Local, Unconnected, Posted
  <2> QED BY <1>1, <2>1 DEF Local, Unconnected, But
<1>7. Ordered(r, h)
  <2>1. \A i, j \in DOMAIN r.sigq :
          r.sigq[i] = "CONNECTING" /\ r.sigq[j] \in {"CONNECTING", "WRITESTATE"} => i <= j
    BY <1>1 DEF Local, Ordered, Posted
  <2> QED BY <1>1, <1>3, <2>1 DEF Local, Ordered, But, Comes
<1>8. Timed(r, h)
  BY <1>1, <1>3, <1>4 DEF Local, Timed, But, Comes
<1> QED BY <1>1, <1>5, <1>6, <1>7, <1>8 DEF Local

\* Get: the message is now the one that is handled.
Got(r, s, m) ==
    /\ s.sigq # <<>> /\ m = Head(s.sigq) /\ m # "TIMEOUT"
    /\ r = [s EXCEPT !.sigq = Tail(@), !.io = FALSE]

LEMMA TakeKeeps ==
    ASSUME NEW p, NEW s, Local(p, s, "none"), NEW m, NEW r, Got(r, s, m)
    PROVE  Local(p, r, m) /\ m \in SignalIds /\ r.dead = s.dead /\ r.state = s.state /\ r.out = s.out
<1>0. /\ s.sigq # <<>> /\ m = Head(s.sigq) /\ m # "TIMEOUT"
      /\ r = [s EXCEPT !.sigq = Tail(@), !.io = FALSE]
  BY DEF Got
<1>1. s \in Mid(p) /\ s.sigq \in Seq(SignalIds)
  BY DEF Local, Mid
<1>q. PICK q \in Seq(SignalIds) : q = s.sigq /\ q # <<>>
  BY <1>0, <1>1
<1>a. Tail(q) \in Seq(SignalIds)
  BY <1>q
<1>k. PICK k \in Seq(SignalIds) : k = Tail(s.sigq)
  BY <1>q, <1>a
<1>2. r = [s EXCEPT !.sigq = k, !.io = FALSE]
  BY <1>0, <1>k
<1>3. r \in Mid(p)
  BY <1>1, <1>2 DEF Mid
<1>4. r.sigq = k /\ But(r, s)
  BY <1>1, <1>2 DEF Mid, But
<1>5. Taken(r, s, m)
  BY <1>0, <1>1, <1>4, <1>k, TakeIs DEF But
<1>6. \A k1 : Comes(s, "none", k1) => Comes(r, m, k1) \/ k1 = "none"
  BY <1>5 DEF Comes, Taken
<1>7. Stranded(r, m)
  BY <1>4, <1>6 DEF Local, Stranded, But
<1>8. Unconnected(r, m)
  <2>1. ~s.connectReq => (\A k1 \in ConnectMsgs : ~Has(r.sigq, k1)) /\ m \notin ConnectMsgs
    BY <1>5 DEF Local, Unconnected, Taken
  <2> QED BY <1>4, <2>1 DEF Local, Unconnected, But
<1>9. Comes(r, m, "CONNECTING") <=> Comes(s, "none", "CONNECTING")
  BY <1>5 DEF Comes, Taken
<1>10. Ordered(r, m)
  BY <1>4, <1>5, <1>9 DEF Local, Ordered, But, Taken
<1>11. Timed(r, m)
  BY <1>0, <1>4, <1>5, <1>9 DEF Local, Timed, But, Taken
<1> QED BY <1>3, <1>4, <1>5, <1>7, <1>8, <1>10, <1>11 DEF Local, But, Taken

LEMMA Two ==
    ASSUME NEW S, NEW q \in Seq(S), NEW x \in S, NEW y \in S
    PROVE  q \o <<x, y>> = Append(Append(q, x), y)
<1>1. PICK l : l = q \o <<x, y>>
  OBVIOUS
<1>2. PICK k : k = Append(Append(q, x), y)
  OBVIOUS
<1>3. l \in Seq(S) /\ Len(l) = Len(q) + 2
  BY <1>1
<1>4. k \in Seq(S) /\ Len(k) = Len(q) + 2
  BY <1>2
<1>5. \A i \in 1 .. Len(q) + 2 : l[i] = k[i]
  BY <1>1, <1>2
<1> QED BY <1>1, <1>2, <1>3, <1>4, <1>5

LEMMA Three ==
    ASSUME NEW S, NEW q \in Seq(S), NEW x \in S, NEW y \in S, NEW z \in S
    PROVE  q \o <<x, y, z>> = Append(Append(Append(q, x), y), z)
<1>1. PICK l : l = q \o <<x, y, z>>
  OBVIOUS
<1>2. PICK k : k = Append(Append(Append(q, x), y), z)
  OBVIOUS
<1>3. l \in Seq(S) /\ Len(l) = Len(q) + 3
  BY <1>1
<1>4. k \in Seq(S) /\ Len(k) = Len(q) + 3
  BY <1>2
<1>5. \A i \in 1 .. Len(q) + 3 : l[i] = k[i]
  BY <1>1, <1>2
<1> QED BY <1>1, <1>2, <1>3, <1>4, <1>5

\* SetState posts MSG_STATE, and before it what onStateChanged posts.
LEMMA SetStateIs ==
    ASSUME NEW p, NEW s \in Mid(p), NEW x \in States, NEW r, r = SetState(s, x)
    PROVE  r = IF x = "RECEIVEDINITIATE"
               THEN Posts(Posts([s EXCEPT !.state = x], "DO_ACCEPT"), "STATE")
               ELSE Posts([s EXCEPT !.state = x], "STATE")
<1>1. s.sigq \in Seq(SignalIds)
  BY DEF Mid
<1>q. PICK q \in Seq(SignalIds) : q = s.sigq
  BY <1>1
<1>2. "DO_ACCEPT" \in SignalIds /\ "STATE" \in SignalIds
  BY DEF SignalIds
<1>3. q \o <<"DO_ACCEPT", "STATE">> = Append(Append(q, "DO_ACCEPT"), "STATE")
  BY <1>2, Two
<1>4. q \o <<"STATE">> = Append(q, "STATE")
  BY <1>2
<1>5. CASE x = "RECEIVEDINITIATE"
  <2>1. r = [s EXCEPT !.state = x, !.sigq = Append(Append(q, "DO_ACCEPT"), "STATE")]
    BY <1>3, <1>5, <1>q DEF SetState
  <2> QED BY <1>5, <1>q, <2>1 DEF Posts, Mid
<1>6. CASE x # "RECEIVEDINITIATE"
  <2>1. r = [s EXCEPT !.state = x, !.sigq = Append(q, "STATE")]
    BY <1>4, <1>6, <1>q DEF SetState
  <2> QED BY <1>6, <1>q, <2>1 DEF Posts, Mid
<1> QED BY <1>5, <1>6

LEMMA SetStateKeeps ==
    ASSUME NEW p, NEW s, NEW h, Local(p, s, h), NEW x \in States, NEW r, r = SetState(s, x)
    PROVE  Local(p, r, h) /\ r.dead = s.dead
<1>0. s \in Mid(p)
  BY DEF Local
<1>t. PICK t : t = [s EXCEPT !.state = x]
  OBVIOUS
<1>1. t \in Mid(p)
  BY <1>0, <1>t DEF Mid
<1>2. Same(t, s) /\ t.dead = s.dead
  BY <1>0, <1>t DEF Mid, Same
<1>3. Local(p, t, h)
  BY <1>1, <1>2, SameKeeps
<1>4. /\ "DO_ACCEPT" \in SignalIds \ {"CONNECTING", "TIMEOUT"} /\ "DO_ACCEPT" \notin ConnectMsgs
      /\ "STATE" \in SignalIds \ {"CONNECTING", "TIMEOUT"} /\ "STATE" \notin ConnectMsgs
  BY DEF SignalIds, ConnectMsgs
<1>a. PICK a : a = Posts(t, "DO_ACCEPT")
  OBVIOUS
<1>5. Local(p, a, h) /\ a.dead = t.dead
  <2>1. Local(p, a, h)
    BY <1>3, <1>4, <1>a, PostKeeps
  <2>2. "DO_ACCEPT" \in SignalIds
    BY <1>4
  <2> QED BY <1>1, <1>a, <2>1, <2>2, PostsIs DEF But
<1>b. PICK b : b = Posts(t, "STATE")
  OBVIOUS
<1>c. PICK c : c = Posts(a, "STATE")
  OBVIOUS
<1>6. Local(p, b, h) /\ b.dead = t.dead
  <2>1. Local(p, b, h)
    BY <1>3, <1>4, <1>b, PostKeeps
  <2>2. "STATE" \in SignalIds
    BY <1>4
  <2> QED BY <1>1, <1>b, <2>1, <2>2, PostsIs DEF But
<1>7. Local(p, c, h) /\ c.dead = t.dead
  <2>1. Local(p, c, h)
    BY <1>5, <1>4, <1>c, PostKeeps
  <2>2. "STATE" \in SignalIds /\ a \in Mid(p)
    BY <1>4, <1>5 DEF Local
  <2> QED BY <1>5, <1>c, <2>1, <2>2, PostsIs DEF But
<1>8. r = IF x = "RECEIVEDINITIATE" THEN c ELSE b
  BY <1>0, <1>t, <1>a, <1>b, <1>c, SetStateIs
<1> QED BY <1>2, <1>6, <1>7, <1>8


\* ConnectChannels posts three messages, the first time.
LEMMA ConnectIs ==
    ASSUME NEW p, NEW s \in Mid(p), ~s.connectReq, NEW r, r = ConnectChannels(s)
    PROVE  /\ r \in Mid(p) /\ r.connectReq /\ r.waiting
           /\ r.ready = s.ready /\ r.unsent = s.unsent /\ r.pending = s.pending
           /\ r.writable = s.writable /\ r.twritable = s.twritable
           /\ r.dead = s.dead /\ r.out = s.out /\ r.state = s.state /\ r.wq = s.wq
           /\ r.timer = s.timer
           /\ \E a, b : /\ a.timer = s.timer /\ b.timer = s.timer
                        /\ Posted(a, s, "CANDIDATEREADY")
                        /\ Posted(b, a, "REQUESTSIGNALING")
                        /\ Posted(r, b, "CONNECTING")
<1>1. s.sigq \in Seq(SignalIds)
  BY DEF Mid
<1>q. PICK q \in Seq(SignalIds) : q = s.sigq
  BY <1>1
<1>2. "CANDIDATEREADY" \in SignalIds /\ "REQUESTSIGNALING" \in SignalIds /\ "CONNECTING" \in SignalIds
  BY DEF SignalIds
<1>a. PICK a : a = [sigq |-> Append(q, "CANDIDATEREADY"), timer |-> s.timer]
  OBVIOUS
<1>b. PICK b : b = [sigq |-> Append(Append(q, "CANDIDATEREADY"), "REQUESTSIGNALING"),
                    timer |-> s.timer]
  OBVIOUS
<1>3. Append(q, "CANDIDATEREADY") \in Seq(SignalIds)
  BY <1>2
<1>4. Append(Append(q, "CANDIDATEREADY"), "REQUESTSIGNALING") \in Seq(SignalIds)
  BY <1>2
<1>5. Append(Append(Append(q, "CANDIDATEREADY"), "REQUESTSIGNALING"), "CONNECTING")
        \in Seq(SignalIds)
  BY <1>2
<1>k. PICK k \in Seq(SignalIds) :
        k = Append(Append(Append(q, "CANDIDATEREADY"), "REQUESTSIGNALING"), "CONNECTING")
  BY <1>5
<1>6. q \o <<"CANDIDATEREADY", "REQUESTSIGNALING", "CONNECTING">> = k
  BY <1>2, <1>k, Three
<1>7. r = [s EXCEPT !.connectReq = TRUE, !.waiting = TRUE, !.sigq = k]
  BY <1>6, <1>q DEF ConnectChannels
<1>8. r \in Mid(p)
  BY ZenonT(60), <1>7 DEF Mid
<1>9. /\ r.connectReq /\ r.waiting /\ r.sigq = k
      /\ r.ready = s.ready /\ r.unsent = s.unsent /\ r.pending = s.pending
      /\ r.writable = s.writable /\ r.twritable = s.twritable
      /\ r.dead = s.dead /\ r.out = s.out /\ r.state = s.state /\ r.wq = s.wq
      /\ r.timer = s.timer
  BY <1>7 DEF Mid
<1>10. Posted(a, s, "CANDIDATEREADY")
  BY <1>1, <1>2, <1>q, <1>a, PostIs
<1>11. Posted(b, a, "REQUESTSIGNALING")
  <2>1. a.sigq \in Seq(SignalIds) /\ b.sigq = Append(a.sigq, "REQUESTSIGNALING") /\ b.timer = a.timer
    BY <1>3, <1>a, <1>b
  <2> QED BY <1>2, <2>1, PostIs
<1>12. Posted(r, b, "CONNECTING")
  <2>1. b.sigq \in Seq(SignalIds) /\ r.sigq = Append(b.sigq, "CONNECTING") /\ r.timer = b.timer
    BY <1>4, <1>k, <1>b, <1>9
  <2> QED BY <1>2, <2>1, PostIs
<1>13. a.timer = s.timer /\ b.timer = s.timer
  BY <1>a, <1>b
<1> QED BY <1>8, <1>9, <1>10, <1>11, <1>12, <1>13

LEMMA ConnectKeeps ==
    ASSUME NEW p, NEW s, NEW h, Local(p, s, h), NEW x \in {"CONNECTING", "NEGOTIATED"},
           NEW r, r = ConnectChannels([s EXCEPT !.proxy = x])
    PROVE  Local(p, r, h) /\ r.dead = s.dead /\ r.connectReq
<1>0. s \in Mid(p)
  BY DEF Local
<1>t. PICK t : t = [s EXCEPT !.proxy = x]
  OBVIOUS
<1>1. t \in Mid(p)
  BY <1>0, <1>t DEF Mid
<1>2. /\ t.ready = s.ready /\ t.unsent = s.unsent /\ t.pending = s.pending
      /\ t.waiting = s.waiting /\ t.wq = s.wq /\ t.writable = s.writable
      /\ t.twritable = s.twritable /\ t.connectReq = s.connectReq
      /\ t.remote = s.remote /\ t.session = s.session /\ t.timer = s.timer
      /\ t.sigq = s.sigq /\ t.dead = s.dead
  BY <1>0, <1>t DEF Mid
<1>3. CASE s.connectReq
  <2>1. r = t
    BY <1>2, <1>3, <1>t DEF ConnectChannels
  <2>2. Stranded(t, h)
    BY <1>2 DEF Local, Stranded, Comes
  <2>3. Unconnected(t, h)
    BY <1>2, <1>3 DEF Unconnected
  <2>4. Ordered(t, h)
    BY <1>2 DEF Local, Ordered, Comes
  <2>5. Timed(t, h)
    BY <1>2 DEF Local, Timed, Comes, Timeouts
  <2> QED BY <1>1, <1>2, <1>3, <2>1, <2>2, <2>3, <2>4, <2>5 DEF Local
<1>4. CASE ~s.connectReq
  <2>0. ~t.connectReq /\ r = ConnectChannels(t)
    BY <1>2, <1>4, <1>t
  <2>1. /\ r \in Mid(p) /\ r.connectReq /\ r.waiting
        /\ r.ready = t.ready /\ r.unsent = t.unsent /\ r.pending = t.pending
        /\ r.writable = t.writable /\ r.twritable = t.twritable
        /\ r.dead = t.dead
    BY <1>1, <2>0, ConnectIs
  <2>2. PICK a, b : /\ a.timer = t.timer /\ b.timer = t.timer
                    /\ Posted(a, t, "CANDIDATEREADY")
                    /\ Posted(b, a, "REQUESTSIGNALING")
                    /\ Posted(r, b, "CONNECTING")
    BY <1>1, <2>0, ConnectIs
  <2>3. /\ s.ready = <<>> /\ ~s.writable /\ ~s.twritable /\ h \notin ConnectMsgs
        /\ \A m \in ConnectMsgs : ~Has(s.sigq, m)
    BY <1>4 DEF Local, Unconnected
  <2>4. ~Has(s.sigq, "CONNECTING") /\ ~Has(s.sigq, "WRITESTATE")
        /\ h # "CONNECTING" /\ h # "WRITESTATE"
    BY <2>3 DEF ConnectMsgs
  <2>5. Has(r.sigq, "REQUESTSIGNALING") /\ Has(r.sigq, "CONNECTING")
    BY <2>2 DEF Posted
  <2>f. s.writable = FALSE /\ s.twritable = FALSE
    <3>1. s.writable \in BOOLEAN /\ s.twritable \in BOOLEAN
      BY <1>0 DEF Mid
    <3> QED BY <2>3, <3>1
  <2>6. Stranded(r, h)
    <3>1. r.ready = <<>> /\ r.writable = r.twritable
      BY <1>2, <2>1, <2>3, <2>f
    <3>2. r.unsent # <<>> => r.pending
      BY <1>2, <2>1 DEF Local, Stranded
    <3> QED BY <2>5, <3>1, <3>2 DEF Stranded, Comes
  <2>7. Unconnected(r, h)
    BY <2>1 DEF Unconnected
  <2>8. Timeouts(r) = 0
    <3>1. Timeouts(s) = 0
      BY <1>4 DEF Local, Timed
    <3>2. Timeouts(t) = 0
      BY <1>2, <3>1 DEF Timeouts
    <3>3. Timeouts(a) = 0
      BY <2>2, <3>2 DEF Posted
    <3>4. Timeouts(b) = 0
      BY <2>2, <3>3 DEF Posted
    <3> QED BY <2>2, <3>4 DEF Posted
  <2>9. Timed(r, h)
    BY <2>5, <2>8 DEF Timed, Comes
  <2>10. Ordered(r, h)
    <3>1. \A i, j \in DOMAIN a.sigq :
            a.sigq[i] = "CONNECTING" /\ a.sigq[j] \in {"CONNECTING", "WRITESTATE"} => i <= j
      BY <1>2, <2>2 DEF Local, Ordered, Posted
    <3>2. \A i, j \in DOMAIN b.sigq :
            b.sigq[i] = "CONNECTING" /\ b.sigq[j] \in {"CONNECTING", "WRITESTATE"} => i <= j
      BY <2>2, <3>1 DEF Posted
    <3>3. ~Has(b.sigq, "CONNECTING") /\ ~Has(b.sigq, "WRITESTATE")
      BY <1>2, <2>2, <2>4 DEF Posted
    <3>4. \A i, j \in DOMAIN r.sigq :
            r.sigq[i] = "CONNECTING" /\ r.sigq[j] \in {"CONNECTING", "WRITESTATE"} => i <= j
      BY <2>2, <3>2, <3>3 DEF Posted
    <3> QED BY <1>2, <2>1, <2>3, <2>4, <3>4 DEF Ordered
  <2> QED BY <1>2, <2>1, <2>6, <2>7, <2>9, <2>10 DEF Local
<1> QED BY <1>3, <1>4

LEMMA KeepsForgotten ==
    ASSUME NEW p, NEW r, NEW h, h \notin ConnectMsgs, Keeps(p, r, h) PROVE Keeps(p, r, "none")
BY Forgotten DEF Keeps

LEMMA LocalKeeps == ASSUME NEW p, NEW r, NEW h, Local(p, r, h) PROVE Keeps(p, r, h)
BY DEF Keeps, Local

\* An ASSERT, or an exit.
LEMMA DeadKeeps ==
    ASSUME NEW p, NEW s \in Mid(p), NEW h, NEW d \in Reasons \ {"no"}, NEW r, r = [s EXCEPT !.dead = d]
    PROVE  Keeps(p, r, h)
<1>1. r \in Mid(p)
  BY DEF Mid
<1>2. r.dead # "no"
  BY DEF Mid
<1> QED BY <1>1, <1>2 DEF Keeps

\* The members that Local looks at, but for the candidates kept back.
Alike(r, s) ==
    /\ r.ready = s.ready
    /\ r.waiting = s.waiting /\ r.wq = s.wq /\ r.writable = s.writable
    /\ r.twritable = s.twritable /\ r.connectReq = s.connectReq /\ r.proxy = s.proxy
    /\ r.remote = s.remote /\ r.session = s.session /\ r.timer = s.timer
    /\ r.sigq = s.sigq

LEMMA AlikeKeeps ==
    ASSUME NEW p, NEW s, NEW h, Local(p, s, h), NEW r \in Mid(p), Alike(r, s),
           r.unsent # <<>> => r.pending
    PROVE  Local(p, r, h)
<1>1. Stranded(r, h)
  BY DEF Local, Stranded, Alike, Comes
<1>2. Unconnected(r, h)
  BY DEF Local, Unconnected, Alike
<1>3. Ordered(r, h)
  BY DEF Local, Ordered, Alike, Comes
<1>4. Timed(r, h)
  BY DEF Local, Timed, Alike, Comes, Timeouts
<1> QED BY <1>1, <1>2, <1>3, <1>4 DEF Local

LEMMA SendMsgKeeps ==
    ASSUME NEW p, NEW s, NEW h, Local(p, s, h), NEW m \in Msgs, NEW r, r = SendMsg(s, m)
    PROVE  Local(p, r, h) /\ r.dead = s.dead
<1>0. s \in Mid(p) /\ s.out \in Seq(Msgs)
  BY DEF Local, Mid
<1>q. PICK q \in Seq(Msgs) : q = s.out
  BY <1>0
<1>a. Append(q, m) \in Seq(Msgs)
  OBVIOUS
<1>k. PICK k \in Seq(Msgs) : k = Append(s.out, m)
  BY <1>q, <1>a
<1>1. r = [s EXCEPT !.out = k]
  BY <1>k DEF SendMsg
<1>2. r \in Mid(p)
  BY ZenonT(60), <1>0, <1>1 DEF Mid
<1>3. Same(r, s) /\ r.dead = s.dead
  BY <1>0, <1>1 DEF Mid, Same
<1> QED BY <1>2, <1>3, SameKeeps

LEMMA ProxiesKeep ==
    ASSUME NEW p, NEW s, NEW h, Local(p, s, h), NEW r, r = CreateTransportProxies(s)
    PROVE  Local(p, r, h) /\ r.dead = s.dead
<1>0. s \in Mid(p)
  BY DEF Local
<1>1. r = [s EXCEPT !.pending = TRUE]
  BY DEF CreateTransportProxies
<1>2. r \in Mid(p)
  BY ZenonT(60), <1>0, <1>1 DEF Mid
<1>3. Alike(r, s) /\ r.pending /\ r.dead = s.dead
  BY <1>0, <1>1 DEF Mid, Alike
<1> QED BY <1>2, <1>3, AlikeKeeps

LEMMA MsgType ==
    ASSUME NEW c \in Seq(Candidates), NEW y \in {"initiate", "accept", "transport"}
    PROVE  Msg(y, c) \in Msgs
BY DEF Msg, Msgs

LEMMA FlushKeeps ==
    ASSUME NEW p, NEW s, NEW h, Local(p, s, h), NEW r, r = SendAllUnsentTransportInfoMessages(s)
    PROVE  Local(p, r, h) /\ r.dead = s.dead
<1>0. s \in Mid(p) /\ s.unsent \in Seq(Candidates) /\ s.out \in Seq(Msgs)
  BY DEF Local, Mid
<1>q. PICK q \in Seq(Msgs) : q = s.out
  BY <1>0
<1>m. PICK m \in Msgs : m = Msg("transport", s.unsent)
  BY <1>0, MsgType
<1>a. Append(q, m) \in Seq(Msgs)
  OBVIOUS
<1>k. PICK k \in Seq(Msgs) : k = Append(s.out, m)
  BY <1>q, <1>a
<1>e. <<>> \in Seq(Candidates)
  OBVIOUS
<1>1. CASE s.unsent = <<>>
  <2>1. r = [s EXCEPT !.pending = FALSE]
    BY <1>0, <1>1 DEF SendAllUnsentTransportInfoMessages, Mid
  <2>2. r \in Mid(p)
    BY ZenonT(60), <1>0, <2>1 DEF Mid
  <2>3. Alike(r, s) /\ r.unsent = s.unsent /\ r.dead = s.dead
    BY <1>0, <2>1 DEF Mid, Alike
  <2> QED BY <1>1, <2>2, <2>3, AlikeKeeps
<1>2. CASE s.unsent # <<>>
  <2>1. r = [s EXCEPT !.pending = FALSE, !.out = k, !.unsent = <<>>]
    BY <1>0, <1>2, <1>k, <1>m DEF SendAllUnsentTransportInfoMessages, Mid, SendMsg
  <2>2. r \in Mid(p)
    BY ZenonT(60), <1>0, <1>e, <2>1 DEF Mid
  <2>3. Alike(r, s) /\ r.unsent = <<>> /\ r.dead = s.dead
    BY <1>0, <2>1 DEF Mid, Alike
  <2> QED BY <2>2, <2>3, AlikeKeeps
<1> QED BY <1>1, <1>2

LEMMA CompleteKeeps ==
    ASSUME NEW p, NEW s, NEW h, Local(p, s, h), NEW r, r = CompleteNegotiation(s)
    PROVE  Local(p, r, h) /\ r.dead = s.dead /\ r.connectReq
<1>0. s \in Mid(p)
  BY DEF Local
<1>1. CASE s.proxy = "NEGOTIATED"
  <2>1. s.connectReq
    BY <1>1 DEF Local, Unconnected
  <2> QED BY <1>1, <2>1 DEF CompleteNegotiation
<1>2. CASE s.proxy # "NEGOTIATED"
  <2>1. r = ConnectChannels([s EXCEPT !.proxy = "NEGOTIATED"])
    BY <1>2 DEF CompleteNegotiation
  <2> QED BY <2>1, ConnectKeeps
<1> QED BY <1>1, <1>2

LEMMA SpeculativeKeeps ==
    ASSUME NEW p, NEW s, NEW h, Local(p, s, h), NEW r, r = SpeculativelyConnectChannels(s)
    PROVE  Keeps(p, r, h)
<1>1. CASE s.proxy = "NEGOTIATED"
  <2>1. r = [s EXCEPT !.dead = "assert"] /\ s \in Mid(p) /\ "assert" \in Reasons \ {"no"}
    BY <1>1 DEF SpeculativelyConnectChannels, Local, Reasons
  <2> QED BY <2>1, DeadKeeps
<1>2. CASE s.proxy # "NEGOTIATED"
  <2>1. r = ConnectChannels([s EXCEPT !.proxy = "CONNECTING"])
    BY <1>2 DEF SpeculativelyConnectChannels
  <2>2. Local(p, r, h)
    BY <2>1, ConnectKeeps
  <2> QED BY <2>2, LocalKeeps
<1> QED BY <1>1, <1>2

LEMMA InitiateKeeps ==
    ASSUME NEW p, NEW s, NEW h, Local(p, s, h), NEW r, r = Initiate(s)
    PROVE  Keeps(p, r, h)
<1>1. CASE s.state # "INIT"
  BY <1>1, LocalKeeps DEF Initiate
<1>2. CASE s.state = "INIT"
  <2>a. PICK a : a = CreateTransportProxies(s)
    OBVIOUS
  <2>b. PICK b : b = SendMsg(a, Msg("initiate", <<>>))
    OBVIOUS
  <2>c. PICK c : c = SetState(b, "SENTINITIATE")
    OBVIOUS
  <2>1. r = SpeculativelyConnectChannels(c)
    BY <1>2, <2>a, <2>b, <2>c DEF Initiate
  <2>2. Local(p, a, h)
    BY <2>a, ProxiesKeep
  <2>3. Msg("initiate", <<>>) \in Msgs
    BY DEF Msg, Msgs
  <2>4. Local(p, b, h)
    BY <2>2, <2>3, <2>b, SendMsgKeeps
  <2>5. "SENTINITIATE" \in States
    BY DEF States
  <2>6. Local(p, c, h)
    BY <2>4, <2>5, <2>c, SetStateKeeps
  <2> QED BY <2>1, <2>6, SpeculativeKeeps
<1> QED BY <1>1, <1>2

LEMMA AcceptKeeps ==
    ASSUME NEW p, NEW s, NEW h, Local(p, s, h), NEW r, r = Accept(s)
    PROVE  Keeps(p, r, h)
<1>1. CASE s.state # "RECEIVEDINITIATE"
  BY <1>1, LocalKeeps DEF Accept
<1>2. CASE s.state = "RECEIVEDINITIATE"
  <2>b. PICK b : b = SendMsg(s, Msg("accept", <<>>))
    OBVIOUS
  <2>c. PICK c : c = SetState(b, "SENTACCEPT")
    OBVIOUS
  <2>1. r = SendAllUnsentTransportInfoMessages(c)
    BY <1>2, <2>b, <2>c DEF Accept
  <2>3. Msg("accept", <<>>) \in Msgs
    BY DEF Msg, Msgs
  <2>4. Local(p, b, h)
    BY <2>3, <2>b, SendMsgKeeps
  <2>5. "SENTACCEPT" \in States
    BY DEF States
  <2>6. Local(p, c, h)
    BY <2>4, <2>5, <2>c, SetStateKeeps
  <2>7. Local(p, r, h)
    BY <2>1, <2>6, FlushKeeps
  <2> QED BY <2>7, LocalKeeps
<1> QED BY <1>1, <1>2

LEMMA CheckStateKeeps ==
    ASSUME NEW p, NEW s \in Mid(p), NEW h, NEW x, NEW t, s.state = x => Local(p, t, h),
           NEW r, r = CheckState(s, x, t)
    PROVE  Keeps(p, r, h)
<1>1. CASE s.state # x
  <2>1. r = [s EXCEPT !.dead = "assert"] /\ "assert" \in Reasons \ {"no"}
    BY <1>1 DEF CheckState, Reasons
  <2> QED BY <2>1, DeadKeeps
<1>2. CASE s.state = x
  BY <1>2, LocalKeeps DEF CheckState
<1> QED BY <1>1, <1>2

LEMMA OnInitiateKeeps ==
    ASSUME NEW p, NEW s, NEW h, Local(p, s, h), NEW r, r = OnInitiateMessage(s)
    PROVE  Keeps(p, r, h)
<1>a. PICK a : a = CreateTransportProxies(s)
  OBVIOUS
<1>b. PICK b : b = SetState(a, "RECEIVEDINITIATE")
  OBVIOUS
<1>c. PICK c : c = CompleteNegotiation(b)
  OBVIOUS
<1>1. r = CheckState(s, "INIT", c) /\ s \in Mid(p)
  BY <1>a, <1>b, <1>c DEF OnInitiateMessage, Local
<1>2. Local(p, a, h)
  BY <1>a, ProxiesKeep
<1>3. "RECEIVEDINITIATE" \in States
  BY DEF States
<1>4. Local(p, b, h)
  BY <1>2, <1>3, <1>b, SetStateKeeps
<1>5. Local(p, c, h)
  BY <1>4, <1>c, CompleteKeeps
<1> QED BY <1>1, <1>5, CheckStateKeeps

LEMMA OnAcceptKeeps ==
    ASSUME NEW p, NEW s, NEW h, Local(p, s, h), NEW r, r = OnAcceptMessage(s)
    PROVE  Keeps(p, r, h)
<1>a. PICK a : a = SendAllUnsentTransportInfoMessages(s)
  OBVIOUS
<1>b. PICK b : b = SetState(a, "RECEIVEDACCEPT")
  OBVIOUS
<1>c. PICK c : c = CompleteNegotiation(b)
  OBVIOUS
<1>1. r = CheckState(s, "SENTINITIATE", c) /\ s \in Mid(p)
  BY <1>a, <1>b, <1>c DEF OnAcceptMessage, Local
<1>2. Local(p, a, h)
  BY <1>a, FlushKeeps
<1>3. "RECEIVEDACCEPT" \in States
  BY DEF States
<1>4. Local(p, b, h)
  BY <1>2, <1>3, <1>b, SetStateKeeps
<1>5. Local(p, c, h)
  BY <1>4, <1>c, CompleteKeeps
<1> QED BY <1>1, <1>5, CheckStateKeeps

\* The worker's queue changes, and a signaling-ready message is not lost
\* while the channel waits for one.
LEMMA WorkerKeeps ==
    ASSUME NEW p, NEW s, NEW h, NEW g, Local(p, s, h), s.connectReq, NEW k \in Seq(WorkMsgs),
           s.waiting => Comes(s, g, "REQUESTSIGNALING") \/ Has(k, ReadyMsg),
           h # "REQUESTSIGNALING" => g = h, h = "REQUESTSIGNALING" => g = "none",
           NEW r, r = [s EXCEPT !.wq = k]
    PROVE  Local(p, r, g) /\ r.dead = s.dead
<1>0. s \in Mid(p)
  BY DEF Local
<1>1. r \in Mid(p)
  BY <1>0 DEF Mid
<1>2. /\ r.ready = s.ready /\ r.unsent = s.unsent /\ r.pending = s.pending
      /\ r.waiting = s.waiting /\ r.wq = k /\ r.writable = s.writable
      /\ r.twritable = s.twritable /\ r.connectReq = s.connectReq /\ r.proxy = s.proxy
      /\ r.remote = s.remote /\ r.session = s.session /\ r.timer = s.timer
      /\ r.sigq = s.sigq /\ r.dead = s.dead
  BY <1>0 DEF Mid
<1>3. \A m : m # "REQUESTSIGNALING" => (Comes(s, h, m) => Comes(r, g, m))
  BY <1>2 DEF Comes
<1>4. Comes(r, g, "CONNECTING") <=> Comes(s, h, "CONNECTING")
  BY <1>2 DEF Comes
<1>5. Stranded(r, g)
  BY <1>2, <1>3 DEF Local, Stranded, Comes
<1>6. Unconnected(r, g)
  BY <1>2 DEF Unconnected
<1>7. Ordered(r, g)
  BY <1>2, <1>4 DEF Local, Ordered
<1>8. Timed(r, g)
  BY <1>2, <1>4 DEF Local, Timed, Timeouts
<1> QED BY <1>1, <1>2, <1>5, <1>6, <1>7, <1>8 DEF Local

\* The message c is noted as come.
Noted(s, c) == [s EXCEPT !.got = Append(@, c)]

LEMMA NotedKeeps ==
    ASSUME NEW p, NEW s, NEW h, Local(p, s, h), NEW c \in Seq(Candidates), NEW r, r = Noted(s, c)
    PROVE  Local(p, r, h) /\ r.dead = s.dead
<1>0. s \in Mid(p) /\ s.got \in Seq(Seq(Candidates))
  BY DEF Local, Mid
<1>u. PICK U : U = Seq(Candidates)
  OBVIOUS
<1>x. PICK x \in Seq(U) : x = s.got
  BY <1>0, <1>u
<1>d. PICK d \in U : d = c
  BY <1>u
<1>g. PICK g \in Seq(U) : g = Append(s.got, c)
  <2>1. Append(x, d) \in Seq(U)
    OBVIOUS
  <2> QED BY <1>x, <1>d, <2>1
<1>1. r = [s EXCEPT !.got = g]
  BY <1>g DEF Noted
<1>2. r \in Mid(p)
  BY ZenonT(60), <1>0, <1>1, <1>u DEF Mid
<1>3. Same(r, s) /\ r.dead = s.dead
  BY <1>0, <1>1 DEF Mid, Same
<1> QED BY <1>2, <1>3, SameKeeps

\* Either all the candidates of a message go on to the worker or none.
LEMMA OnTransportInfoCases ==
    ASSUME NEW s, NEW c, NEW r, r = OnTransportInfoMessage(s, c),
           NEW t, t = CompleteNegotiation(Noted(s, c))
    PROVE  r = IF \A i \in DOMAIN c : VerifyCandidate(c[i]) THEN OnRemoteCandidates(t, c) ELSE t
BY DEF OnTransportInfoMessage, RemoteCandidates, Noted

LEMMA OnTransportInfoKeeps ==
    ASSUME NEW p, NEW s, Local(p, s, "none"), NEW cands \in Seq(Candidates),
           NEW r, r = OnTransportInfoMessage(s, cands)
    PROVE  Keeps(p, r, "none")
<1>n. PICK n : n = Noted(s, cands)
  OBVIOUS
<1>c. PICK c : c = CompleteNegotiation(n)
  OBVIOUS
<1>0. Local(p, n, "none")
  BY <1>n, NotedKeeps
<1>1. Local(p, c, "none") /\ c.connectReq
  BY <1>0, <1>c, CompleteKeeps
<1>9. r = OnRemoteCandidates(c, cands) \/ r = c
  BY <1>n, <1>c, OnTransportInfoCases
<1>2. c.wq \in Seq(WorkMsgs)
  BY <1>1 DEF Local, Mid
<1>q. PICK q \in Seq(WorkMsgs) : q = c.wq
  BY <1>2
<1>d. PICK d : d = [i \in DOMAIN cands |-> CandidateMsg(cands[i])]
  OBVIOUS
<1>3. d \in Seq(WorkMsgs)
  <2>1. \A i \in 1 .. Len(cands) : CandidateMsg(cands[i]) \in WorkMsgs
    BY DEF CandidateMsg, WorkMsgs
  <2> QED BY <1>d, <2>1
<1>4. q \o d \in Seq(WorkMsgs)
  BY <1>3
<1>k. PICK k \in Seq(WorkMsgs) : k = c.wq \o d
  BY <1>q, <1>4
<1>5. Has(q, ReadyMsg) => Has(q \o d, ReadyMsg)
  BY <1>3 DEF Has
<1>6. c.waiting => Comes(c, "none", "REQUESTSIGNALING") \/ Has(k, ReadyMsg)
  BY <1>1, <1>5, <1>k, <1>q DEF Local, Stranded
<1>7. CASE r = OnRemoteCandidates(c, cands)
  <2>1. r = [c EXCEPT !.wq = k]
    BY <1>7, <1>d, <1>k DEF OnRemoteCandidates
  <2>2. Local(p, r, "none")
    BY ZenonT(60), <1>1, <1>6, <2>1, WorkerKeeps
  <2> QED BY <2>2, LocalKeeps
<1>8. CASE r = c
  BY <1>1, <1>8, LocalKeeps
<1> QED BY <1>7, <1>8, <1>9

LEMMA OnStateKeeps ==
    ASSUME NEW p, NEW s, NEW h, Local(p, s, h), NEW r, r = OnState(s)
    PROVE  Keeps(p, r, h)
<1>1. CASE s.state \in {"SENTACCEPT", "RECEIVEDACCEPT"}
  <2>1. r = SetState(s, "INPROGRESS") /\ "INPROGRESS" \in States
    BY <1>1 DEF OnState, States
  <2>2. Local(p, r, h)
    BY <2>1, SetStateKeeps
  <2> QED BY <2>2, LocalKeeps
<1>2. CASE s.state \notin {"SENTACCEPT", "RECEIVEDACCEPT"}
  BY <1>2, LocalKeeps DEF OnState
<1> QED BY <1>1, <1>2

\* MSG_CANDIDATEREADY was handled: nothing is left in ready_candidates_.
LEMMA ReadyKeeps ==
    ASSUME NEW p, NEW s, Local(p, s, "CANDIDATEREADY"), NEW r \in Mid(p), r.ready = <<>>,
           r.waiting = s.waiting, r.wq = s.wq, r.writable = s.writable, r.twritable = s.twritable,
           r.connectReq = s.connectReq, r.timer = s.timer, r.sigq = s.sigq,
           r.unsent # <<>> => r.pending
    PROVE  Local(p, r, "none")
<1>0. s.connectReq
  BY DEF Local, Unconnected, ConnectMsgs
<1>1. \A m : m # "CANDIDATEREADY" => (Comes(s, "CANDIDATEREADY", m) => Comes(r, "none", m))
  BY DEF Comes
<1>2. Comes(r, "none", "CONNECTING") <=> Comes(s, "CANDIDATEREADY", "CONNECTING")
  BY DEF Comes
<1>3. Stranded(r, "none")
  BY <1>1 DEF Local, Stranded
<1>4. Unconnected(r, "none")
  BY <1>0 DEF Unconnected, ConnectMsgs
<1>5. Ordered(r, "none")
  BY <1>2 DEF Local, Ordered
<1>6. Timed(r, "none")
  BY <1>2 DEF Local, Timed, Timeouts
<1> QED BY <1>3, <1>4, <1>5, <1>6 DEF Local

LEMMA OnCandidatesReadyKeeps ==
    ASSUME NEW p, NEW s, Local(p, s, "CANDIDATEREADY"), NEW r, r = OnCandidatesReady(s)
    PROVE  Keeps(p, r, "none")
<1>0. /\ s \in Mid(p) /\ s.ready \in Seq(Candidates) /\ s.unsent \in Seq(Candidates)
      /\ s.out \in Seq(Msgs)
  BY DEF Local, Mid
<1>1. s.connectReq
  BY DEF Local, Unconnected, ConnectMsgs
<1>2. s.unsent # <<>> => s.pending
  BY DEF Local, Stranded
<1>u. PICK u \in Seq(Candidates) : u = s.unsent
  BY <1>0
<1>y. PICK y \in Seq(Candidates) : y = s.ready
  BY <1>0
<1>q. PICK q \in Seq(Msgs) : q = s.out
  BY <1>0
<1>m. PICK m \in Msgs : m = Msg("transport", s.ready)
  BY <1>0, MsgType
<1>3. Append(q, m) \in Seq(Msgs) /\ u \o y \in Seq(Candidates)
  OBVIOUS
<1>k. PICK k \in Seq(Msgs) : k = Append(s.out, m)
  BY <1>q, <1>3
<1>v. PICK v \in Seq(Candidates) : v = s.unsent \o s.ready
  BY <1>u, <1>y, <1>3
<1>e. <<>> \in Seq(Candidates)
  OBVIOUS
<1>4. CASE s.ready = <<>>
  <2>1. r = [s EXCEPT !.ready = <<>>]
    BY <1>1, <1>4 DEF OnCandidatesReady
  <2>2. r \in Mid(p)
    BY ZenonT(60), <1>0, <1>e, <2>1 DEF Mid
  <2>3. /\ r.ready = <<>> /\ r.waiting = s.waiting /\ r.wq = s.wq /\ r.writable = s.writable
        /\ r.twritable = s.twritable /\ r.connectReq = s.connectReq /\ r.timer = s.timer
        /\ r.sigq = s.sigq /\ r.unsent = s.unsent /\ r.pending = s.pending
    BY <1>0, <2>1 DEF Mid
  <2>4. Local(p, r, "none")
    BY <1>2, <2>2, <2>3, ReadyKeeps
  <2> QED BY <2>4, LocalKeeps
<1>5. CASE s.ready # <<>> /\ s.pending
  <2>1. r = [s EXCEPT !.ready = <<>>, !.unsent = v]
    BY <1>0, <1>1, <1>5, <1>v DEF OnCandidatesReady, Mid
  <2>2. r \in Mid(p)
    BY ZenonT(60), <1>0, <1>e, <2>1 DEF Mid
  <2>3. /\ r.ready = <<>> /\ r.waiting = s.waiting /\ r.wq = s.wq /\ r.writable = s.writable
        /\ r.twritable = s.twritable /\ r.connectReq = s.connectReq /\ r.timer = s.timer
        /\ r.sigq = s.sigq /\ r.pending = s.pending
    BY <1>0, <2>1 DEF Mid
  <2>4. Local(p, r, "none")
    BY <1>5, <2>2, <2>3, ReadyKeeps
  <2> QED BY <2>4, LocalKeeps
<1>6. CASE s.ready # <<>> /\ ~s.pending
  <2>1. r = [s EXCEPT !.ready = <<>>, !.out = k]
    BY <1>0, <1>1, <1>6, <1>k, <1>m DEF OnCandidatesReady, Mid, SendMsg
  <2>2. r \in Mid(p)
    BY ZenonT(60), <1>0, <1>e, <2>1 DEF Mid
  <2>3. /\ r.ready = <<>> /\ r.waiting = s.waiting /\ r.wq = s.wq /\ r.writable = s.writable
        /\ r.twritable = s.twritable /\ r.connectReq = s.connectReq /\ r.timer = s.timer
        /\ r.sigq = s.sigq /\ r.unsent = s.unsent /\ r.pending = s.pending
    BY <1>0, <2>1 DEF Mid
  <2>4. Local(p, r, "none")
    BY <1>2, <2>2, <2>3, ReadyKeeps
  <2> QED BY <2>4, LocalKeeps
<1> QED BY <1>4, <1>5, <1>6

\* onSignalRequest: the answer is on its way to the worker.
LEMMA OnSignalingReadyKeeps ==
    ASSUME NEW p, NEW s, Local(p, s, "REQUESTSIGNALING"), NEW r, r = OnSignalingReady(s)
    PROVE  Keeps(p, r, "none")
<1>0. s.wq \in Seq(WorkMsgs) /\ s.connectReq
  BY DEF Local, Mid, Unconnected, ConnectMsgs
<1>q. PICK q \in Seq(WorkMsgs) : q = s.wq
  BY <1>0
<1>1. ReadyMsg \in WorkMsgs
  BY DEF ReadyMsg, WorkMsgs
<1>2. Append(q, ReadyMsg) \in Seq(WorkMsgs)
  BY <1>1
<1>k. PICK k \in Seq(WorkMsgs) : k = Append(s.wq, ReadyMsg)
  BY <1>q, <1>2
<1>3. Has(k, ReadyMsg)
  <2>1. Len(q) + 1 \in DOMAIN Append(q, ReadyMsg) /\ Append(q, ReadyMsg)[Len(q) + 1] = ReadyMsg
    BY <1>1
  <2> QED BY <1>k, <1>q, <2>1 DEF Has
<1>4. r = [s EXCEPT !.wq = k]
  BY <1>k DEF OnSignalingReady
<1>5. Local(p, r, "none")
  BY <1>0, <1>3, <1>4, WorkerKeeps
<1> QED BY <1>5, LocalKeeps

LEMMA ArmType ==
    ASSUME NEW p, NEW s \in Mid(p), NEW w \in BOOLEAN, NEW n \in BOOLEAN, NEW k \in Seq(SignalIds)
    PROVE  [s EXCEPT !.twritable = w, !.timer = n, !.sigq = k] \in Mid(p)
BY DEF Mid

\* Clear(this, MSG_TIMEOUT), then the watchdog is armed again or not.
LEMMA ArmKeeps ==
    ASSUME NEW p, NEW s, NEW h \in {"CONNECTING", "WRITESTATE"}, Local(p, s, h),
           NEW w \in BOOLEAN, w # s.writable => Has(s.sigq, "WRITESTATE"),
           NEW r, r = OnTransportWritable([s EXCEPT !.twritable = w])
    PROVE  Keeps(p, r, "none")
<1>0. s \in Mid(p) /\ s.sigq \in Seq(SignalIds) /\ s.connectReq /\ ~Has(s.sigq, "CONNECTING")
  BY DEF Local, Mid, Unconnected, ConnectMsgs, Ordered
<1>q. PICK q \in Seq(SignalIds) : q = s.sigq
  BY <1>0
<1>1. /\ Without(q, {"TIMEOUT"}) \in Seq(SignalIds)
      /\ CountOf(Without(q, {"TIMEOUT"}), {"TIMEOUT"}) = CountOf(q, {"TIMEOUT"} \ {"TIMEOUT"})
  BY CountWithout
<1>k. PICK k \in Seq(SignalIds) : k = Without(s.sigq, {"TIMEOUT"})
  BY <1>1, <1>q
<1>2. CountOf(k, {"TIMEOUT"}) = 0
  <2>1. {"TIMEOUT"} \ {"TIMEOUT"} = {}
    OBVIOUS
  <2>2. CountOf(q, {}) = 0
    BY CountZero
  <2> QED BY <1>1, <1>k, <1>q, <2>1, <2>2
<1>3. ASSUME NEW m PROVE Has(k, m) <=> m \notin {"TIMEOUT"} /\ Has(q, m)
  <2>1. (\E i \in DOMAIN Without(q, {"TIMEOUT"}) : Without(q, {"TIMEOUT"})[i] = m)
              <=> m \notin {"TIMEOUT"} /\ \E i \in DOMAIN q : q[i] = m
    BY HeldWithout, ZenonT(30)
  <2> QED BY <1>k, <1>q, <2>1 DEF Has
<1>4. r = [s EXCEPT !.twritable = w, !.timer = ~w, !.sigq = k]
  BY <1>0, <1>k DEF OnTransportWritable, Mid
<1>n. PICK n \in BOOLEAN : n = ~w
  OBVIOUS
<1>5. r \in Mid(p)
  <2>1. r = [s EXCEPT !.twritable = w, !.timer = n, !.sigq = k]
    BY <1>4, <1>n
  <2>2. s \in Mid(p)
    BY <1>0
  <2>3. [s EXCEPT !.twritable = w, !.timer = n, !.sigq = k] \in Mid(p)
    BY <2>2, ArmType, ZenonT(30)
  <2> QED BY <2>1, <2>3, ZenonT(30)
<1>6. /\ r.ready = s.ready /\ r.unsent = s.unsent /\ r.pending = s.pending
      /\ r.waiting = s.waiting /\ r.wq = s.wq /\ r.writable = s.writable
      /\ r.twritable = w /\ r.connectReq = s.connectReq
      /\ r.timer = n /\ r.sigq = k /\ r.dead = s.dead
  BY <1>0, <1>4, <1>n DEF Mid
<1>7. /\ \A m \in ConnectMsgs \ {"TIMEOUT"} : Has(k, m) <=> Has(s.sigq, m)
      /\ ~Has(k, "CONNECTING")
      /\ {"CANDIDATEREADY", "REQUESTSIGNALING", "WRITESTATE"} \subseteq ConnectMsgs \ {"TIMEOUT"}
  BY <1>0, <1>3, <1>q DEF ConnectMsgs
<1>8. Stranded(r, "none")
  <2>1. r.ready # <<>> => Has(k, "CANDIDATEREADY")
    BY <1>6, <1>7 DEF Local, Stranded, Comes
  <2>2. r.waiting => Has(k, "REQUESTSIGNALING") \/ Has(r.wq, ReadyMsg)
    BY <1>6, <1>7 DEF Local, Stranded, Comes
  <2>3. r.writable # r.twritable => Has(k, "WRITESTATE")
    BY <1>6, <1>7
  <2>4. r.unsent # <<>> => r.pending
    BY <1>6 DEF Local, Stranded
  <2> QED BY <1>6, <2>1, <2>2, <2>3, <2>4 DEF Stranded, Comes
<1>9. Unconnected(r, "none")
  BY <1>0, <1>6 DEF Unconnected, ConnectMsgs
<1>10. Ordered(r, "none")
  BY SMTT(40), <1>6, <1>7 DEF Ordered, Comes, Has
<1>11. Timed(r, "none")
  <2>1. ~Comes(r, "none", "CONNECTING")
    BY <1>6, <1>7 DEF Comes
  <2>2. Timeouts(r) = IF n THEN 1 ELSE 0
    BY <1>2, <1>6 DEF Timeouts
  <2> QED BY <1>0, <1>6, <1>n, <2>1, <2>2 DEF Timed
<1> QED BY <1>5, <1>8, <1>9, <1>10, <1>11 DEF Keeps, Local

LEMMA OnTransportWritableKeeps ==
    ASSUME NEW p, NEW s, Local(p, s, "CONNECTING"), NEW r, r = OnTransportWritable(s)
    PROVE  Keeps(p, r, "none")
<1>1. s \in Mid(p) /\ s.twritable \in BOOLEAN
  BY DEF Local, Mid
<1>w. PICK w \in BOOLEAN : w = s.twritable
  BY <1>1
<1>2. s = [s EXCEPT !.twritable = w]
  BY <1>1, <1>w DEF Mid
<1>3. s.writable # s.twritable => Has(s.sigq, "WRITESTATE")
  BY DEF Local, Stranded, Comes
<1> QED BY <1>2, <1>3, <1>w, ArmKeeps

LEMMA OnWritableStateKeeps ==
    ASSUME NEW p, NEW s, Local(p, s, "WRITESTATE"), NEW r, r = OnChannelWritableState_s(s)
    PROVE  Keeps(p, r, "none")
<1>0. s \in Mid(p) /\ s.twritable \in BOOLEAN /\ s.writable \in BOOLEAN
  BY DEF Local, Mid
<1>w. PICK w \in BOOLEAN : w = s.writable
  BY <1>0
<1>1. CASE s.twritable = s.writable
  <2>1. r = s
    BY <1>1 DEF OnChannelWritableState_s
  <2>2. s.connectReq
    BY DEF Local, Unconnected, ConnectMsgs
  <2>3. \A m \in {"CANDIDATEREADY", "REQUESTSIGNALING", "CONNECTING"} :
            Comes(s, "WRITESTATE", m) <=> Comes(s, "none", m)
    BY DEF Comes
  <2>4. Stranded(s, "none")
    BY <1>1, <2>3 DEF Local, Stranded
  <2>5. Unconnected(s, "none")
    BY <2>2 DEF Unconnected, ConnectMsgs
  <2>6. Ordered(s, "none")
    BY <2>3 DEF Local, Ordered
  <2>7. Timed(s, "none")
    BY <2>3 DEF Local, Timed
  <2> QED BY <1>0, <2>1, <2>4, <2>5, <2>6, <2>7 DEF Keeps, Local
<1>2. CASE s.twritable # s.writable
  <2>1. r = OnTransportWritable([s EXCEPT !.twritable = w])
    BY <1>2, <1>w DEF OnChannelWritableState_s
  <2> QED BY <1>w, <2>1, ArmKeeps
<1> QED BY <1>1, <1>2

\* The 50 s have passed: the delayed message becomes a queued one.
LEMMA TimeoutKeeps ==
    ASSUME NEW p, NEW s, Local(p, s, "none"), s.timer,
           NEW r, r = [s EXCEPT !.timer = FALSE, !.sigq = Append(@, "TIMEOUT")]
    PROVE  Keeps(p, r, "none")
<1>0. s \in Mid(p) /\ s.sigq \in Seq(SignalIds) /\ "TIMEOUT" \in SignalIds
  BY DEF Local, Mid, SignalIds
<1>c. s.connectReq
  BY DEF Local, Unconnected
<1>q. PICK q \in Seq(SignalIds) : q = s.sigq
  BY <1>0
<1>1. Append(q, "TIMEOUT") \in Seq(SignalIds)
  BY <1>0
<1>k. PICK k \in Seq(SignalIds) : k = Append(s.sigq, "TIMEOUT")
  BY <1>q, <1>1
<1>2. r = [s EXCEPT !.timer = FALSE, !.sigq = k]
  BY <1>k
<1>3. r \in Mid(p)
  BY ZenonT(60), <1>0, <1>2 DEF Mid
<1>4. /\ r.ready = s.ready /\ r.unsent = s.unsent /\ r.pending = s.pending
      /\ r.waiting = s.waiting /\ r.wq = s.wq /\ r.writable = s.writable
      /\ r.twritable = s.twritable /\ r.connectReq = s.connectReq
      /\ r.timer = FALSE /\ r.sigq = k /\ r.dead = s.dead
  BY ZenonT(60), <1>0, <1>2 DEF Mid
<1>t. PICK t : t = [sigq |-> k, timer |-> s.timer]
  OBVIOUS
<1>5. Posted(t, s, "TIMEOUT") /\ t.sigq = k /\ t.timer = s.timer
  BY <1>0, <1>k, <1>t, PostIs
<1>6. \A m : m # "TIMEOUT" => (Comes(r, "none", m) <=> Comes(s, "none", m))
  BY <1>4, <1>5 DEF Comes, Posted
<1>7. Stranded(r, "none")
  BY <1>4, <1>6 DEF Local, Stranded
<1>8. Unconnected(r, "none")
  BY <1>4, <1>c DEF Unconnected, ConnectMsgs
<1>9. Ordered(r, "none")
  BY <1>4, <1>5, <1>6 DEF Local, Ordered, Posted
<1>10. Timeouts(r) = Timeouts(s)
  <2>1. CountOf(k, {"TIMEOUT"}) \in Nat
    BY PlacesFinite
  <2>2. CountOf(q, {"TIMEOUT"}) \in Nat
    BY PlacesFinite
  <2>3. Timeouts(t) = Timeouts(s) + 1
    BY <1>5 DEF Posted
  <2>4. Timeouts(t) = CountOf(k, {"TIMEOUT"}) + 1
    BY <1>5 DEF Timeouts
  <2>5. Timeouts(s) = CountOf(q, {"TIMEOUT"}) + 1
    BY <1>q DEF Timeouts
  <2>6. Timeouts(r) = CountOf(k, {"TIMEOUT"})
    <3>1. ~r.timer /\ r.sigq = k
      BY <1>4
    <3>2. Timeouts(r) = CountOf(k, {"TIMEOUT"}) + 0
      BY <3>1 DEF Timeouts
    <3> QED BY <2>1, <3>2
  <2> QED BY <2>1, <2>2, <2>3, <2>4, <2>5, <2>6
<1>11. Timed(r, "none")
  BY <1>4, <1>6, <1>10 DEF Local, Timed
<1> QED BY <1>3, <1>7, <1>8, <1>9, <1>11 DEF Keeps, Local

\* A worker-thread step that changes one member and tells the other thread.
LEMMA TellKeeps ==
    ASSUME NEW p, NEW s, NEW h, Local(p, s, h), s.connectReq, NEW r \in Mid(p),
           NEW m \in {"CANDIDATEREADY", "REQUESTSIGNALING", "WRITESTATE"}, Posted(r, s, m),
           r.connectReq = s.connectReq, r.twritable = s.twritable,
           r.unsent = s.unsent, r.pending = s.pending, r.wq = s.wq,
           r.ready # s.ready => m = "CANDIDATEREADY",
           r.waiting # s.waiting => m = "REQUESTSIGNALING",
           r.writable # s.writable => m = "WRITESTATE"
    PROVE  Local(p, r, h)
<1>1. \A k : Comes(s, h, k) => Comes(r, h, k)
  BY DEF Comes, Posted
<1>2. Comes(r, h, m)
  BY DEF Comes, Posted
<1>3. Has(r.sigq, "CONNECTING") <=> Has(s.sigq, "CONNECTING")
  BY DEF Posted
<1>4. Timeouts(r) = Timeouts(s)
  <2>1. Timeouts(s) \in Nat
    BY DEF Local, Timed
  <2> QED BY <2>1 DEF Posted
<1>5. Stranded(r, h)
  <2>1. r.ready # <<>> => Comes(r, h, "CANDIDATEREADY")
    BY <1>1, <1>2 DEF Local, Stranded
  <2>2. r.waiting => Comes(r, h, "REQUESTSIGNALING") \/ Has(r.wq, ReadyMsg)
    BY <1>1, <1>2 DEF Local, Stranded
  <2>3. r.writable # r.twritable => Comes(r, h, "WRITESTATE")
    BY <1>1, <1>2 DEF Local, Stranded
  <2>4. r.unsent # <<>> => r.pending
    BY DEF Local, Stranded
  <2> QED BY <2>1, <2>2, <2>3, <2>4 DEF Stranded
<1>6. Unconnected(r, h)
  BY DEF Unconnected
<1>7. Ordered(r, h)
  <2>1. \A i, j \in DOMAIN r.sigq :
          r.sigq[i] = "CONNECTING" /\ r.sigq[j] \in {"CONNECTING", "WRITESTATE"} => i <= j
    BY DEF Local, Ordered, Posted
  <2> QED BY <1>3, <2>1 DEF Local, Ordered, Comes
<1>8. Timed(r, h)
  BY <1>3, <1>4 DEF Local, Timed, Comes
<1> QED BY <1>5, <1>6, <1>7, <1>8 DEF Local

LEMMA SignalQueue ==
    ASSUME NEW p, NEW s \in Mid(p), NEW m \in SignalIds
    PROVE  \E k \in Seq(SignalIds) : k = Append(s.sigq, m)
<1>1. s.sigq \in Seq(SignalIds)
  BY DEF Mid
<1>q. PICK q \in Seq(SignalIds) : q = s.sigq
  BY <1>1
<1>2. Append(q, m) \in Seq(SignalIds)
  OBVIOUS
<1> QED BY <1>q, <1>2

LEMMA GatherKeeps ==
    ASSUME NEW p \in Procs, NEW s, Local(p, s, "none"), s.session, s.made < MaxCand[p],
           NEW r, r = [OnChannelCandidateReady(s, <<p, s.made + 1>>) EXCEPT !.made = @ + 1]
    PROVE  Keeps(p, r, "none")
<1>0. s \in Mid(p) /\ s.ready \in Seq(Candidates) /\ s.made \in 0 .. MaxCand[p] /\ MaxCand[p] \in Nat
  BY ProberAssumption DEF Local, Mid
<1>c. s.connectReq
  BY DEF Local, Unconnected
<1>i. "CANDIDATEREADY" \in SignalIds
  BY DEF SignalIds
<1>n. PICK n \in 0 .. MaxCand[p] : n = s.made + 1
  BY <1>0
<1>1. <<p, s.made + 1>> \in Candidates
  BY <1>0 DEF Candidates
<1>q. PICK q \in Seq(Candidates) : q = s.ready
  BY <1>0
<1>2. Append(q, <<p, s.made + 1>>) \in Seq(Candidates)
  BY <1>1
<1>y. PICK y \in Seq(Candidates) : y = Append(s.ready, <<p, s.made + 1>>)
  BY <1>2, <1>q
<1>k. PICK k \in Seq(SignalIds) : k = Append(s.sigq, "CANDIDATEREADY")
  BY <1>0, <1>i, SignalQueue
<1>3. r = [s EXCEPT !.ready = y, !.sigq = k, !.made = n]
  BY <1>0, <1>c, <1>y, <1>k, <1>n DEF OnChannelCandidateReady, Mid
<1>4. r \in Mid(p)
  <2>1. s \in Mid(p)
    BY <1>0
  <2> QED BY ZenonT(60), <1>3, <2>1 DEF Mid
<1>5. /\ r.ready = y /\ r.sigq = k /\ r.unsent = s.unsent /\ r.pending = s.pending
      /\ r.waiting = s.waiting /\ r.wq = s.wq /\ r.writable = s.writable
      /\ r.twritable = s.twritable /\ r.connectReq = s.connectReq /\ r.timer = s.timer
  BY <1>0, <1>3 DEF Mid
<1>6. Posted(r, s, "CANDIDATEREADY")
  <2>1. s.sigq \in Seq(SignalIds)
    BY <1>0 DEF Mid
  <2> QED BY <1>5, <1>i, <1>k, <2>1, PostIs
<1>7. Local(p, r, "none")
  BY <1>4, <1>5, <1>6, <1>c, TellKeeps
<1> QED BY <1>7, LocalKeeps

\* Allocate asks for signaling, and the channel waits.
LEMMA AllocateKeeps ==
    ASSUME NEW p, NEW s, Local(p, s, "none"), s.connectReq, NEW r, r = Allocate(s)
    PROVE  /\ Local(p, r, "none") /\ r.connectReq /\ r.allocs = s.allocs /\ r.writable = s.writable
           /\ r.flips = s.flips
<1>0. s \in Mid(p) /\ s.sigq \in Seq(SignalIds)
  BY DEF Local, Mid
<1>i. "REQUESTSIGNALING" \in SignalIds
  BY DEF SignalIds
<1>k. PICK k \in Seq(SignalIds) : k = Append(s.sigq, "REQUESTSIGNALING")
  BY <1>0, <1>i, SignalQueue
<1>3. r = [s EXCEPT !.waiting = TRUE, !.sigq = k]
  BY <1>k DEF Allocate
<1>4. r \in Mid(p)
  BY ZenonT(60), <1>0, <1>3 DEF Mid
<1>5. /\ r.ready = s.ready /\ r.sigq = k /\ r.unsent = s.unsent /\ r.pending = s.pending
      /\ r.wq = s.wq /\ r.writable = s.writable /\ r.allocs = s.allocs /\ r.flips = s.flips
      /\ r.twritable = s.twritable /\ r.connectReq = s.connectReq /\ r.timer = s.timer
  BY <1>0, <1>3 DEF Mid
<1>6. Posted(r, s, "REQUESTSIGNALING")
  BY <1>0, <1>5, <1>i, <1>k, PostIs
<1>7. Local(p, r, "none")
  BY <1>4, <1>5, <1>6, TellKeeps
<1> QED BY <1>5, <1>7

LEMMA ReallocateKeeps ==
    ASSUME NEW p \in Procs, NEW s, Local(p, s, "none"), s.session, s.allocs < MaxAlloc[p],
           NEW r, r = [Allocate(s) EXCEPT !.allocs = @ + 1]
    PROVE  Keeps(p, r, "none")
<1>c. s.connectReq
  BY DEF Local, Unconnected
<1>t. PICK t : t = Allocate(s)
  OBVIOUS
<1>1. Local(p, t, "none") /\ t.allocs = s.allocs
  BY <1>c, <1>t, AllocateKeeps
<1>0. s.allocs \in 0 .. MaxAlloc[p] /\ MaxAlloc[p] \in Nat /\ t \in Mid(p)
  BY <1>1, ProberAssumption DEF Local, Mid
<1>n. PICK n \in 0 .. MaxAlloc[p] : n = t.allocs + 1
  BY <1>0, <1>1
<1>2. r = [t EXCEPT !.allocs = n]
  BY <1>n, <1>t
<1>3. r \in Mid(p)
  BY ZenonT(60), <1>0, <1>2 DEF Mid
<1>4. Same(r, t)
  BY ZenonT(60), <1>0, <1>2 DEF Mid, Same
<1>5. Local(p, r, "none")
  BY <1>1, <1>3, <1>4, SameKeeps
<1> QED BY <1>5, LocalKeeps

LEMMA FlipType ==
    ASSUME NEW p, NEW s \in Mid(p), NEW b \in BOOLEAN, NEW k \in Seq(SignalIds),
           NEW n \in 0 .. MaxFlips[p]
    PROVE  [s EXCEPT !.writable = b, !.sigq = k, !.flips = n] \in Mid(p)
BY DEF Mid

\* The channel's writable() changes and MSG_WRITESTATE is posted.
LEMMA WritableKeeps ==
    ASSUME NEW p \in Procs, NEW s, Local(p, s, "none"), s.connectReq, NEW b \in BOOLEAN,
           NEW n \in 0 .. MaxFlips[p],
           NEW r, r = [s EXCEPT !.writable = b, !.sigq = Append(@, "WRITESTATE"), !.flips = n]
    PROVE  Keeps(p, r, "none")
<1>0. s \in Mid(p) /\ s.sigq \in Seq(SignalIds)
  BY DEF Local, Mid
<1>i. "WRITESTATE" \in SignalIds
  BY DEF SignalIds
<1>k. PICK k \in Seq(SignalIds) : k = Append(s.sigq, "WRITESTATE")
  BY <1>0, <1>i, SignalQueue
<1>3. r = [s EXCEPT !.writable = b, !.sigq = k, !.flips = n]
  BY <1>k
<1>4. r \in Mid(p)
  <2>1. s \in Mid(p)
    BY <1>0
  <2>2. [s EXCEPT !.writable = b, !.sigq = k, !.flips = n] \in Mid(p)
    BY <2>1, FlipType, ZenonT(30)
  <2> QED BY <1>3, <2>2, ZenonT(30)
<1>5. /\ r.ready = s.ready /\ r.sigq = k /\ r.unsent = s.unsent /\ r.pending = s.pending
      /\ r.wq = s.wq /\ r.waiting = s.waiting
      /\ r.twritable = s.twritable /\ r.connectReq = s.connectReq /\ r.timer = s.timer
  BY <1>0, <1>3 DEF Mid
<1>6. Posted(r, s, "WRITESTATE")
  BY <1>0, <1>5, <1>i, <1>k, PostIs
<1>7. Local(p, r, "none")
  BY <1>4, <1>5, <1>6, TellKeeps
<1> QED BY <1>7, LocalKeeps

LEMMA FlipKeeps ==
    ASSUME NEW p \in Procs, NEW s, Local(p, s, "none"), s.remote # <<>>, s.flips < MaxFlips[p],
           NEW r, r = [(IF s.writable THEN BecomeUnwritable(s) ELSE BecomeWritable(s))
                          EXCEPT !.flips = @ + 1]
    PROVE  Keeps(p, r, "none")
<1>c. s.connectReq
  BY DEF Local, Unconnected
<1>0. s \in Mid(p) /\ s.flips \in 0 .. MaxFlips[p] /\ MaxFlips[p] \in Nat
  BY ProberAssumption DEF Local, Mid
<1>n. PICK n \in 0 .. MaxFlips[p] : n = s.flips + 1
  BY <1>0
<1>1. CASE s.writable
  <2>t. PICK t : t = Allocate(s)
    OBVIOUS
  <2>1. Local(p, t, "none") /\ t.connectReq /\ t.flips = s.flips
    BY <1>c, <2>t, AllocateKeeps
  <2>2. t \in Mid(p)
    BY <2>1 DEF Local
  <2>3. r = [t EXCEPT !.writable = FALSE, !.sigq = Append(@, "WRITESTATE"), !.flips = n]
    BY <1>1, <1>n, <2>t, <2>1, <2>2 DEF BecomeUnwritable, Mid
  <2>b. PICK b \in BOOLEAN : b = FALSE
    OBVIOUS
  <2> QED BY <2>1, <2>3, <2>b, WritableKeeps
<1>2. CASE ~s.writable
  <2>1. r = [s EXCEPT !.writable = TRUE, !.sigq = Append(@, "WRITESTATE"), !.flips = n]
    BY <1>0, <1>2, <1>n DEF BecomeWritable, Mid
  <2>b. PICK b \in BOOLEAN : b = TRUE
    OBVIOUS
  <2> QED BY <1>c, <2>1, <2>b, WritableKeeps
<1> QED BY <1>1, <1>2

\* The worker takes the first message off its queue.
LEMMA WorkTail ==
    ASSUME NEW p, NEW s \in Mid(p), s.wq # <<>>
    PROVE  /\ Tail(s.wq) \in Seq(WorkMsgs)
           /\ Head(s.wq) \in WorkMsgs
           /\ Has(s.wq, ReadyMsg) => Has(Tail(s.wq), ReadyMsg) \/ Head(s.wq) = ReadyMsg
<1>0. s.wq \in Seq(WorkMsgs)
  BY DEF Mid
<1>q. PICK q \in Seq(WorkMsgs) : q = s.wq /\ q # <<>>
  BY <1>0
<1>1. Tail(q) \in Seq(WorkMsgs) /\ Head(q) \in WorkMsgs
  BY <1>q
<1>2. \A i \in DOMAIN q : i = 1 \/ (i - 1 \in DOMAIN Tail(q) /\ Tail(q)[i - 1] = q[i])
  BY <1>q
<1>3. Has(q, ReadyMsg) => Has(Tail(q), ReadyMsg) \/ Head(q) = ReadyMsg
  <2>1. Head(q) = q[1]
    BY <1>q
  <2> QED BY <1>2, <2>1 DEF Has
<1> QED BY <1>q, <1>1, <1>3

LEMMA SignalingReadyKeeps ==
    ASSUME NEW p, NEW s, Local(p, s, "none"), s.wq # <<>>, Head(s.wq).id = "ONSIGNALINGREADY",
           NEW r, r = OnSignalingReady_w([s EXCEPT !.wq = Tail(@)])
    PROVE  Keeps(p, r, "none")
<1>c. s.connectReq
  BY DEF Local, Unconnected
<1>0. s \in Mid(p) /\ s.waiting \in BOOLEAN
  BY DEF Local, Mid
<1>k. PICK k \in Seq(WorkMsgs) : k = Tail(s.wq)
  BY <1>0, WorkTail
<1>t. PICK t : t = [s EXCEPT !.wq = k]
  OBVIOUS
<1>1. CASE ~s.waiting
  <2>1. r = t
    BY <1>0, <1>1, <1>k, <1>t DEF OnSignalingReady_w, Mid
  <2>2. Local(p, r, "none")
    BY <1>1, <1>c, <1>t, <2>1, WorkerKeeps
  <2> QED BY <2>2, LocalKeeps
<1>2. CASE s.waiting
  <2>1. r = [s EXCEPT !.wq = k, !.waiting = FALSE, !.session = TRUE]
    BY <1>0, <1>2, <1>k DEF OnSignalingReady_w, Mid
  <2>2. r \in Mid(p)
    BY ZenonT(60), <1>0, <2>1 DEF Mid
  <2>3. /\ r.ready = s.ready /\ r.unsent = s.unsent /\ r.pending = s.pending
        /\ r.waiting = FALSE /\ r.writable = s.writable
        /\ r.twritable = s.twritable /\ r.connectReq = s.connectReq
        /\ r.timer = s.timer /\ r.sigq = s.sigq
    BY <1>0, <2>1 DEF Mid
  <2>4. Stranded(r, "none")
    BY <2>3 DEF Local, Stranded, Comes
  <2>5. Unconnected(r, "none")
    BY <1>c, <2>3 DEF Unconnected, ConnectMsgs
  <2>6. Ordered(r, "none")
    BY ZenonT(60), <2>3 DEF Local, Ordered, Comes
  <2>7. Timed(r, "none")
    BY <2>3 DEF Local, Timed, Comes, Timeouts
  <2> QED BY <2>2, <2>4, <2>5, <2>6, <2>7 DEF Keeps, Local
<1> QED BY <1>1, <1>2

LEMMA RemoteCandidateKeeps ==
    ASSUME NEW p, NEW s, Local(p, s, "none"), s.wq # <<>>, Head(s.wq).id = "ONREMOTECANDIDATE",
           NEW r, r = OnRemoteCandidate_w([s EXCEPT !.wq = Tail(@)], Head(s.wq).cand)
    PROVE  Keeps(p, r, "none")
<1>c. s.connectReq
  BY DEF Local, Unconnected
<1>0. s \in Mid(p) /\ s.remote \in Seq(Candidates)
  BY DEF Local, Mid
<1>k. PICK k \in Seq(WorkMsgs) : k = Tail(s.wq)
  BY <1>0, WorkTail
<1>1. Head(s.wq) \in WorkMsgs /\ (Has(s.wq, ReadyMsg) => Has(k, ReadyMsg) \/ Head(s.wq) = ReadyMsg)
  BY <1>0, <1>k, WorkTail
<1>2. Head(s.wq) # ReadyMsg /\ Head(s.wq).cand \in Candidates
  BY <1>1 DEF WorkMsgs, ReadyMsg, CandidateMsg
<1>q. PICK q \in Seq(Candidates) : q = s.remote
  BY <1>0
<1>3. Append(q, Head(s.wq).cand) \in Seq(Candidates)
  BY <1>2
<1>y. PICK y \in Seq(Candidates) : y = Append(s.remote, Head(s.wq).cand)
  BY <1>3, <1>q
<1>t. PICK t : t = [s EXCEPT !.wq = k]
  OBVIOUS
<1>4. s.waiting => Comes(s, "none", "REQUESTSIGNALING") \/ Has(k, ReadyMsg)
  BY <1>1, <1>2 DEF Local, Stranded
<1>5. Local(p, t, "none")
  BY <1>c, <1>t, <1>4, WorkerKeeps
<1>6. t \in Mid(p) /\ t.connectReq
  BY <1>0, <1>5, <1>c, <1>t DEF Local, Mid
<1>7. r = [t EXCEPT !.remote = y]
  BY <1>0, <1>k, <1>t, <1>y DEF OnRemoteCandidate_w, Mid
<1>8. r \in Mid(p)
  BY ZenonT(60), <1>6, <1>7 DEF Mid
<1>9. /\ r.ready = t.ready /\ r.unsent = t.unsent /\ r.pending = t.pending
      /\ r.waiting = t.waiting /\ r.writable = t.writable /\ r.wq = t.wq
      /\ r.twritable = t.twritable /\ r.connectReq = t.connectReq
      /\ r.timer = t.timer /\ r.sigq = t.sigq
  BY <1>6, <1>7 DEF Mid
<1>10. Stranded(r, "none")
  BY <1>5, <1>9 DEF Local, Stranded, Comes
<1>11. Unconnected(r, "none")
  BY <1>6, <1>9 DEF Unconnected, ConnectMsgs
<1>12. Ordered(r, "none")
  <2>1. r.sigq = t.sigq /\ r.twritable = t.twritable /\ Ordered(t, "none")
    BY <1>5, <1>9 DEF Local
  <2> QED BY ZenonT(60), <2>1 DEF Ordered, Comes
<1>13. Timed(r, "none")
  BY <1>5, <1>9 DEF Local, Timed, Comes, Timeouts
<1> QED BY <1>8, <1>10, <1>11, <1>12, <1>13 DEF Keeps, Local

LEMMA OnIncomingKeeps ==
    ASSUME NEW p, NEW s, Local(p, s, "none"), NEW m \in Msgs, NEW r, r = OnIncomingMessage(s, m)
    PROVE  Keeps(p, r, "none")
<1>0. m.type \in {"initiate", "accept", "transport"} /\ m.cands \in Seq(Candidates)
  BY DEF Msgs
<1>1. CASE m.type = "initiate"
  <2>1. r = OnInitiateMessage(s)
    BY <1>1 DEF OnIncomingMessage
  <2> QED BY <2>1, OnInitiateKeeps
<1>2. CASE m.type = "accept"
  <2>1. r = OnAcceptMessage(s)
    BY <1>2 DEF OnIncomingMessage
  <2> QED BY <2>1, OnAcceptKeeps
<1>3. CASE m.type = "transport"
  <2>1. r = OnTransportInfoMessage(s, m.cands)
    BY <1>3 DEF OnIncomingMessage
  <2> QED BY <1>0, <2>1, OnTransportInfoKeeps
<1> QED BY <1>0, <1>1, <1>2, <1>3

-----------------------------------------------------------------------------
(* Steps.                                                                  *)

LEMMA WordTypes ==
    /\ \A n \in Names : LoginWord(n) \in Words /\ OfflineWord(n) \in Words
    /\ \A n \in Names : \A b \in Msgs : SendWord(n, b) \in Words /\ MessageWord(n, b) \in Words
    /\ \A S \in SUBSET Names : OnlineWord(S) \in Words
    /\ FinWord \in Words
<1>1. \A n \in Names : LoginWord(n) \in Words /\ OfflineWord(n) \in Words
  BY DEF Words, LoginWord, OfflineWord, Word
<1>2. \A n \in Names : \A b \in Msgs : SendWord(n, b) \in Words /\ MessageWord(n, b) \in Words
  BY DEF Words, SendWord, MessageWord, Word
<1>3. \A S \in SUBSET Names : OnlineWord(S) \in Words
  BY DEF Words, OnlineWord, Word
<1>4. FinWord \in Words
  BY DEF Words, FinWord, Word
<1> QED BY <1>1, <1>2, <1>3, <1>4

\* The words that carry what a handler sent.
LEMMA SentWords ==
    ASSUME NEW n \in Names, NEW o \in Seq(Msgs)
    PROVE  [i \in DOMAIN o |-> SendWord(n, o[i])] \in Seq(Words)
<1>1. \A i \in 1 .. Len(o) : SendWord(n, o[i]) \in Words
  BY WordTypes
<1>2. DOMAIN o = 1 .. Len(o) /\ Len(o) \in Nat
  OBVIOUS
<1> QED BY <1>1, <1>2

LEMMA InitIsMid == ASSUME NEW p \in Procs PROVE ProberInit.out = <<>> /\ ProberInit.dead = "no"
BY DEF ProberInit

LEMMA DeadProcess ==
    ASSUME NEW p \in Procs, NEW d \in Reasons \ {"no"}, NEW s,
           s = [ProberInit EXCEPT !.main = "on", !.dead = d]
    PROVE  Process(p, s)
<1>0. MaxCand[p] \in Nat /\ MaxAlloc[p] \in Nat /\ MaxFlips[p] \in Nat
  BY ProberAssumption
<1>1. /\ 0 \in 0 .. MaxCand[p] /\ 0 \in 0 .. MaxAlloc[p] /\ 0 \in 0 .. MaxFlips[p]
      /\ <<>> \in Seq(Candidates) /\ <<>> \in Seq(Seq(Candidates)) /\ <<>> \in Seq(Msgs)
      /\ <<>> \in Seq(SignalIds) /\ <<>> \in Seq(WorkMsgs)
  BY <1>0
<1>u. PICK u : u = [main |-> "on", sock |-> "none", dead |-> d, io |-> FALSE,
     remoteOnline |-> FALSE, targets |-> 0,
     state |-> "NULL", pending |-> FALSE, timer |-> FALSE, out |-> <<>>,
     proxy |-> "INIT", connectReq |-> FALSE, ready |-> <<>>, unsent |-> <<>>,
     twritable |-> FALSE, writable |-> FALSE, waiting |-> FALSE,
     session |-> FALSE, remote |-> <<>>, got |-> <<>>,
     made |-> 0, allocs |-> 0, flips |-> 0,
     sigq |-> <<>>, wq |-> <<>>]
  OBVIOUS
<1>v. s = [main |-> "on", sock |-> "none", dead |-> d, io |-> FALSE,
     remoteOnline |-> FALSE, targets |-> 0,
     state |-> "NULL", pending |-> FALSE, timer |-> FALSE, out |-> <<>>,
     proxy |-> "INIT", connectReq |-> FALSE, ready |-> <<>>, unsent |-> <<>>,
     twritable |-> FALSE, writable |-> FALSE, waiting |-> FALSE,
     session |-> FALSE, remote |-> <<>>, got |-> <<>>,
     made |-> 0, allocs |-> 0, flips |-> 0,
     sigq |-> <<>>, wq |-> <<>>]
  BY DEF ProberInit
<1>2. s = u
  BY <1>u, <1>v
<1>3. "NULL" \in States /\ d \in Reasons /\ d # "no"
  BY DEF States
<1>4. u \in Mid(p)
  BY <1>1, <1>u, <1>3 DEF Mid
<1>5. u.dead # "no" /\ u.out = <<>>
  BY <1>u, <1>3
<1> QED BY <1>2, <1>4, <1>5 DEF Process, Keeps

LEMMA DieKeeps ==
    ASSUME ProberInv, NEW p \in Procs, NEW d \in Reasons \ {"no"}, Die(p, d)
    PROVE  ProberInv'
<1>1. pr' = [pr EXCEPT ![p] = [ProberInit EXCEPT !.main = "on", !.dead = d]]
  BY DEF Die
<1>s. PICK s : s = [ProberInit EXCEPT !.main = "on", !.dead = d]
  OBVIOUS
<1>2. Process(p, s)
  BY <1>s, DeadProcess
<1>3. DOMAIN pr' = Procs /\ \A q \in Procs : Process(q, pr'[q])
  BY <1>1, <1>s, <1>2 DEF ProberInv
<1>4. c2s' \in [Procs -> Seq(Words)]
  <2>1. CASE pr[p].sock = "open"
    <3>q. PICK q \in Seq(Words) : q = c2s[p]
      BY DEF ProberInv, ServerType
    <3>1. Append(q, FinWord) \in Seq(Words)
      BY WordTypes
    <3>2. c2s' = [c2s EXCEPT ![p] = Append(q, FinWord)]
      BY <2>1, <3>q DEF Die
    <3> QED BY <3>1, <3>2 DEF ProberInv, ServerType
  <2>2. CASE pr[p].sock # "open"
    BY <2>2 DEF Die, ProberInv, ServerType
  <2> QED BY <2>1, <2>2
<1>5. s2c' \in [Procs -> Seq(Words)]
  BY DEF Die, ProberInv, ServerType
<1>6. ServerType'
  BY <1>4, <1>5 DEF Die, ProberInv, ServerType
<1> QED BY <1>3, <1>6 DEF ProberInv

LEMMA OutGone ==
    ASSUME NEW p, NEW s, Local(p, s, "none"), NEW e \in BOOLEAN, NEW r,
           r = [s EXCEPT !.out = <<>>, !.io = e]
    PROVE  Process(p, r)
<1>0. s \in Mid(p)
  BY DEF Local
<1>e. <<>> \in Seq(Msgs)
  OBVIOUS
<1>1. r \in Mid(p)
  BY <1>0, <1>e DEF Mid
<1>2. Same(r, s) /\ r.out = <<>>
  BY <1>0 DEF Mid, Same
<1>3. Local(p, r, "none")
  BY <1>1, <1>2, SameKeeps
<1> QED BY <1>2, <1>3, LocalKeeps DEF Process

LEMMA SentType ==
    ASSUME ProberInv, NEW p \in Procs, NEW s \in Mid(p),
           c2s' = [c2s EXCEPT ![p] = @ \o [i \in DOMAIN s.out |-> SendWord(RemoteName[p], s.out[i])]]
    PROVE  c2s' \in [Procs -> Seq(Words)]
<1>o. PICK o \in Seq(Msgs) : o = s.out
  BY DEF Mid
<1>1. RemoteName[p] \in Names
  BY ProberAssumption
<1>w. PICK w \in Seq(Words) : w = [i \in DOMAIN o |-> SendWord(RemoteName[p], o[i])]
  BY <1>1, SentWords
<1>q. PICK q \in Seq(Words) : q = c2s[p]
  BY DEF ProberInv, ServerType
<1>2. q \o w \in Seq(Words)
  OBVIOUS
<1>3. c2s' = [c2s EXCEPT ![p] = q \o w]
  BY <1>o, <1>w, <1>q
<1> QED BY <1>2, <1>3 DEF ProberInv, ServerType

LEMMA BecomeKeeps ==
    ASSUME ProberInv, NEW p \in Procs, NEW s, Keeps(p, s, "none"), Become(p, s)
    PROVE  ProberInv'
<1>0. s \in Mid(p) /\ s.dead \in Reasons
  BY DEF Keeps, Mid
<1>1. CASE s.dead # "no"
  <2>1. Die(p, s.dead)
    BY <1>1 DEF Become
  <2> QED BY <1>0, <1>1, <2>1, DieKeeps
<1>2. CASE s.dead = "no"
  <2>1. /\ pr' = [pr EXCEPT ![p] = [s EXCEPT !.out = <<>>, !.io = @ \/ s.sigq = <<>>]]
        /\ c2s' = [c2s EXCEPT ![p] = @ \o
                      [i \in DOMAIN s.out |-> SendWord(RemoteName[p], s.out[i])]]
        /\ UNCHANGED <<up, conn, pid, peerObjects, s2c>>
    BY <1>2 DEF Become
  <2>2. Local(p, s, "none")
    BY <1>2 DEF Keeps
  <2>3. (s.io \/ s.sigq = <<>>) \in BOOLEAN
    OBVIOUS
  <2>e. PICK e \in BOOLEAN : e = (s.io \/ s.sigq = <<>>)
    BY <2>3
  <2>r. PICK r : r = [s EXCEPT !.out = <<>>, !.io = e]
    OBVIOUS
  <2>4. Process(p, r)
    BY <2>2, <2>r, OutGone, ZenonT(30)
  <2>5. pr' = [pr EXCEPT ![p] = r]
    BY <2>1, <2>e, <2>r
  <2>6. DOMAIN pr' = Procs /\ \A q \in Procs : Process(q, pr'[q])
    BY <2>4, <2>5 DEF ProberInv
  <2>7. c2s' \in [Procs -> Seq(Words)]
    BY <1>0, <2>1, SentType
  <2>8. ServerType'
    BY <2>1, <2>7 DEF ProberInv, ServerType
  <2> QED BY <2>6, <2>8 DEF ProberInv
<1> QED BY <1>1, <1>2

LEMMA AliveLocal ==
    ASSUME ProberInv, NEW p \in Procs, Alive(p)
    PROVE  Local(p, pr[p], "none") /\ pr[p] \in Mid(p) /\ pr[p].dead = "no"
<1>1. Process(p, pr[p]) /\ pr[p].main # "off" /\ pr[p].dead = "no"
  BY DEF ProberInv, Alive
<1>2. ProberInit.main = "off"
  BY DEF ProberInit
<1>3. Local(p, pr[p], "none")
  BY <1>1, <1>2 DEF Process, Keeps
<1> QED BY <1>1, <1>3 DEF Local

LEMMA LoginKeeps ==
    ASSUME ProberInv, NEW p \in Procs, Login(p)
    PROVE  ProberInv'
<1>0. pr[p].main = "off" /\ Process(p, pr[p])
  BY DEF Login, ProberInv
<1>1. pr[p] = ProberInit
  <2>1. pr[p] \in Mid(p) => pr[p].main # "off"
    BY DEF Mid
  <2> QED BY <1>0, <2>1 DEF Process, Keeps
<1>s. PICK s : s = [main |-> "login", sock |-> "none", dead |-> "no", io |-> FALSE,
     remoteOnline |-> FALSE, targets |-> 0,
     state |-> "NULL", pending |-> FALSE, timer |-> FALSE, out |-> <<>>,
     proxy |-> "INIT", connectReq |-> FALSE, ready |-> <<>>, unsent |-> <<>>,
     twritable |-> FALSE, writable |-> FALSE, waiting |-> FALSE,
     session |-> FALSE, remote |-> <<>>, got |-> <<>>,
     made |-> 0, allocs |-> 0, flips |-> 0,
     sigq |-> <<"START">>, wq |-> <<>>]
  OBVIOUS
<1>2. Become(p, s)
  <2>u. PICK u : u = [ProberInit EXCEPT !.main = "login", !.sigq = <<"START">>]
    OBVIOUS
  <2>2. u = [main |-> "login", sock |-> "none", dead |-> "no", io |-> FALSE,
     remoteOnline |-> FALSE, targets |-> 0,
     state |-> "NULL", pending |-> FALSE, timer |-> FALSE, out |-> <<>>,
     proxy |-> "INIT", connectReq |-> FALSE, ready |-> <<>>, unsent |-> <<>>,
     twritable |-> FALSE, writable |-> FALSE, waiting |-> FALSE,
     session |-> FALSE, remote |-> <<>>, got |-> <<>>,
     made |-> 0, allocs |-> 0, flips |-> 0,
     sigq |-> <<"START">>, wq |-> <<>>]
    BY <2>u DEF ProberInit
  <2>1. s = [ProberInit EXCEPT !.main = "login", !.sigq = <<"START">>]
    BY <1>s, <2>u, <2>2
  <2> QED BY <1>1, <2>1 DEF Login
<1>3. /\ 0 \in 0 .. MaxCand[p] /\ 0 \in 0 .. MaxAlloc[p] /\ 0 \in 0 .. MaxFlips[p]
      /\ <<>> \in Seq(Candidates) /\ <<>> \in Seq(Seq(Candidates)) /\ <<>> \in Seq(Msgs) /\ <<>> \in Seq(WorkMsgs)
  BY ProberAssumption
<1>4. <<"START">> \in Seq(SignalIds) /\ "NULL" \in States /\ "no" \in Reasons
  <2>1. "START" \in SignalIds
    BY DEF SignalIds
  <2> QED BY <2>1 DEF States, Reasons
<1>5. s \in Mid(p)
  BY <1>s, <1>3, <1>4 DEF Mid
<1>q. PICK q \in Seq(SignalIds) : q = <<"START">>
  BY <1>4
<1>6. /\ \A m : Has(s.sigq, m) => m = "START"
      /\ s.sigq \in Seq(SignalIds)
  BY <1>s, <1>4 DEF Has
<1>7. CountOf(s.sigq, {"TIMEOUT"}) = 0
  <2>1. \A i \in DOMAIN q : q[i] \notin {"TIMEOUT"}
    BY <1>q
  <2>2. CountOf(q, {"TIMEOUT"}) = 0
    BY <2>1, CountZero
  <2> QED BY <1>q, <1>s, <2>2
<1>8. Stranded(s, "none")
  BY <1>s DEF Stranded
<1>9. Unconnected(s, "none")
  BY <1>s, <1>6 DEF Unconnected, ConnectMsgs
<1>10. Ordered(s, "none")
  BY <1>s, <1>6 DEF Ordered, Comes, Has
<1>11. Timed(s, "none")
  <2>1. Timeouts(s) = 0
    BY <1>s, <1>7 DEF Timeouts
  <2> QED BY <1>s, <2>1 DEF Timed
<1>12. Keeps(p, s, "none")
  BY <1>5, <1>8, <1>9, <1>10, <1>11 DEF Keeps, Local
<1> QED BY <1>2, <1>12, BecomeKeeps

LEMMA PostCreateKeeps ==
    ASSUME ProberInv, NEW p \in Procs, PostCreateSession(p)
    PROVE  ProberInv'
<1>0. Alive(p)
  BY DEF PostCreateSession
<1>1. Local(p, pr[p], "none") /\ pr[p] \in Mid(p)
  BY <1>0, AliveLocal
<1>t. PICK t : t = [pr[p] EXCEPT !.main = "on"]
  OBVIOUS
<1>2. t \in Mid(p) /\ Same(t, pr[p])
  BY <1>1, <1>t DEF Mid, Same
<1>3. Local(p, t, "none")
  BY <1>1, <1>2, SameKeeps
<1>4. "CREATE_SESSION" \in SignalIds \ {"CONNECTING", "TIMEOUT"} /\ "CREATE_SESSION" \notin ConnectMsgs
  BY DEF SignalIds, ConnectMsgs
<1>s. PICK s : s = Posts(t, "CREATE_SESSION")
  OBVIOUS
<1>5. Local(p, s, "none")
  BY <1>3, <1>4, <1>s, PostKeeps
<1>6. Become(p, s)
  <2>1. s = [pr[p] EXCEPT !.main = "on", !.sigq = Append(@, "CREATE_SESSION")]
    BY <1>1, <1>t, <1>s DEF Posts, Mid
  <2> QED BY <2>1 DEF PostCreateSession
<1>7. Keeps(p, s, "none")
  BY <1>5, LocalKeeps
<1> QED BY <1>6, <1>7, BecomeKeeps

\* The process with its first message taken.
Takes(p) == [pr[p] EXCEPT !.sigq = Tail(@), !.io = FALSE]

LEMMA TakesIs ==
    ASSUME ProberInv, NEW p \in Procs, Alive(p), pr[p].sigq # <<>>, NEW m, Head(pr[p].sigq) = m,
           NEW s, s = Takes(p)
    PROVE  /\ m # "TIMEOUT" => Local(p, s, m) /\ s.dead = "no"
           /\ s \in Mid(p)
<1>0. Local(p, pr[p], "none") /\ pr[p].dead = "no" /\ pr[p] \in Mid(p)
  BY AliveLocal
<1>z. PICK z : z = pr[p]
  OBVIOUS
<1>1. s = [z EXCEPT !.sigq = Tail(@), !.io = FALSE]
  BY <1>z DEF Takes
<1>2. Local(p, z, "none") /\ z.sigq # <<>> /\ m = Head(z.sigq) /\ z.dead = "no"
  BY <1>0, <1>z
<1>3. m # "TIMEOUT" => Local(p, s, m) /\ s.dead = "no"
  <2>1. SUFFICES ASSUME m # "TIMEOUT" PROVE Local(p, s, m) /\ s.dead = z.dead
    BY <1>2
  <2>2. Got(s, z, m)
    BY <1>1, <1>2, <2>1 DEF Got
  <2>3. Local(p, z, "none")
    BY <1>2
  <2> QED BY <2>2, <2>3, TakeKeeps
<1>4. s \in Mid(p)
  <2>1. z.sigq \in Seq(SignalIds) /\ z \in Mid(p)
    BY <1>0, <1>z DEF Mid
  <2>q. PICK q \in Seq(SignalIds) : q = z.sigq /\ q # <<>>
    BY <1>2, <2>1
  <2>2. Tail(q) \in Seq(SignalIds)
    BY <2>q
  <2>k. PICK k \in Seq(SignalIds) : k = Tail(z.sigq)
    BY <2>2, <2>q
  <2>3. s = [z EXCEPT !.sigq = k, !.io = FALSE]
    BY <1>1, <2>k
  <2> QED BY ZenonT(60), <2>1, <2>3 DEF Mid
<1> QED BY <1>3, <1>4

\* setupTarget touches nothing else.
LEMMA TargetKeeps ==
    ASSUME NEW p, NEW s, NEW h, Keeps(p, s, h), NEW r, r = setupTarget(s)
    PROVE  Keeps(p, r, h)
<1>0. s \in Mid(p) /\ s.targets \in Nat
  BY DEF Keeps, Mid
<1>n. PICK n \in Nat : n = s.targets + 1
  BY <1>0
<1>1. r = [s EXCEPT !.targets = n]
  BY <1>n DEF setupTarget
<1>2. r \in Mid(p)
  BY ZenonT(60), <1>0, <1>1 DEF Mid
<1>3. Same(r, s) /\ r.dead = s.dead
  BY <1>0, <1>1 DEF Mid, Same
<1>4. r.dead = "no" => Local(p, r, h)
  <2>1. SUFFICES ASSUME r.dead = "no" PROVE Local(p, r, h)
    OBVIOUS
  <2>2. Local(p, s, h)
    BY <1>3, <2>1 DEF Keeps
  <2> QED BY <1>2, <1>3, <2>2, SameKeeps
<1> QED BY <1>2, <1>4 DEF Keeps

LEMMA StartKeeps ==
    ASSUME ProberInv, NEW p \in Procs, onStart_w(p)
    PROVE  ProberInv'
<1>s. PICK s : s = Takes(p)
  OBVIOUS
<1>0. Alive(p) /\ pr[p].sigq # <<>> /\ Head(pr[p].sigq) = "START"
  BY DEF onStart_w, Dispatch
<1>1. Local(p, s, "START") /\ s.dead = "no" /\ s \in Mid(p)
  BY <1>0, <1>s, TakesIs
<1>2. Become(p, [s EXCEPT !.sock = "connecting"]) \/ Become(p, Exits(s, "noserver"))
  BY <1>s DEF onStart_w, Dispatch, Takes
<1>3. CASE Become(p, [s EXCEPT !.sock = "connecting"])
  <2>r. PICK r : r = [s EXCEPT !.sock = "connecting"]
    OBVIOUS
  <2>1. r \in Mid(p)
    BY <1>1, <2>r DEF Mid
  <2>2. Same(r, s)
    BY <1>1, <2>r DEF Mid, Same
  <2>3. Local(p, r, "START")
    BY <1>1, <2>1, <2>2, SameKeeps
  <2>4. Keeps(p, r, "none")
    BY <2>3, Forgotten, LocalKeeps DEF ConnectMsgs
  <2> QED BY <1>3, <2>r, <2>4, BecomeKeeps
<1>4. CASE Become(p, Exits(s, "noserver"))
  <2>r. PICK r : r = [s EXCEPT !.dead = "noserver"]
    OBVIOUS
  <2>1. Keeps(p, r, "none")
    BY <1>1, <2>r, DeadKeeps DEF Reasons
  <2> QED BY <1>4, <2>r, <2>1, BecomeKeeps DEF Exits
<1> QED BY <1>2, <1>3, <1>4

LEMMA CreateKeeps ==
    ASSUME ProberInv, NEW p \in Procs, createSession_s(p)
    PROVE  ProberInv'
<1>s. PICK s : s = Takes(p)
  OBVIOUS
<1>0. Alive(p) /\ pr[p].sigq # <<>> /\ Head(pr[p].sigq) = "CREATE_SESSION"
  BY DEF createSession_s, Dispatch
<1>1. Local(p, s, "CREATE_SESSION") /\ s.dead = "no" /\ s \in Mid(p)
  BY <1>0, <1>s, TakesIs
<1>r. PICK r : r = [s EXCEPT !.state = "INIT"]
  OBVIOUS
<1>2. Become(p, r)
  BY <1>s, <1>r DEF createSession_s, Dispatch, Takes
<1>3. "INIT" \in States
  BY DEF States
<1>4. r \in Mid(p)
  BY <1>1, <1>3, <1>r DEF Mid
<1>5. Same(r, s)
  BY <1>1, <1>r DEF Mid, Same
<1>6. Local(p, r, "CREATE_SESSION")
  BY <1>1, <1>4, <1>5, SameKeeps
<1>7. Keeps(p, r, "none")
  BY <1>6, Forgotten, LocalKeeps DEF ConnectMsgs
<1> QED BY <1>2, <1>7, BecomeKeeps

LEMMA DoInitiateKeeps ==
    ASSUME ProberInv, NEW p \in Procs, doInitiate_s(p)
    PROVE  ProberInv'
<1>s. PICK s : s = Takes(p)
  OBVIOUS
<1>0. Alive(p) /\ pr[p].sigq # <<>> /\ Head(pr[p].sigq) = "DO_INITIATE"
  BY DEF doInitiate_s, Dispatch
<1>1. Local(p, s, "DO_INITIATE") /\ s.dead = "no" /\ s \in Mid(p)
  BY <1>0, <1>s, TakesIs
<1>2. Become(p, IF s.state = "NULL" THEN Exits(s, "nullsession") ELSE setupTarget(Initiate(s)))
  BY <1>s DEF doInitiate_s, Dispatch, Takes
<1>3. CASE s.state = "NULL"
  <2>r. PICK r : r = [s EXCEPT !.dead = "nullsession"]
    OBVIOUS
  <2>1. Keeps(p, r, "none")
    BY <1>1, <2>r, DeadKeeps DEF Reasons
  <2> QED BY <1>2, <1>3, <2>r, <2>1, BecomeKeeps DEF Exits
<1>4. CASE s.state # "NULL"
  <2>i. PICK i : i = Initiate(s)
    OBVIOUS
  <2>r. PICK r : r = setupTarget(i)
    OBVIOUS
  <2>1. Keeps(p, i, "DO_INITIATE")
    BY <1>1, <2>i, InitiateKeeps
  <2>2. Keeps(p, i, "none")
    BY <2>1, KeepsForgotten DEF ConnectMsgs
  <2>3. Keeps(p, r, "none")
    BY <2>2, <2>r, TargetKeeps
  <2> QED BY <1>2, <1>4, <2>i, <2>r, <2>3, BecomeKeeps
<1> QED BY <1>3, <1>4

LEMMA DoAcceptKeeps ==
    ASSUME ProberInv, NEW p \in Procs, doAccept_s(p)
    PROVE  ProberInv'
<1>s. PICK s : s = Takes(p)
  OBVIOUS
<1>0. Alive(p) /\ pr[p].sigq # <<>> /\ Head(pr[p].sigq) = "DO_ACCEPT"
  BY DEF doAccept_s, Dispatch
<1>1. Local(p, s, "DO_ACCEPT") /\ s.dead = "no" /\ s \in Mid(p)
  BY <1>0, <1>s, TakesIs
<1>2. Become(p, setupTarget(Accept(s)))
  BY <1>s DEF doAccept_s, Dispatch, Takes
<1>i. PICK i : i = Accept(s)
  OBVIOUS
<1>r. PICK r : r = setupTarget(i)
  OBVIOUS
<1>3. Keeps(p, i, "DO_ACCEPT")
  BY <1>1, <1>i, AcceptKeeps
<1>4. Keeps(p, i, "none")
  BY <1>3, KeepsForgotten DEF ConnectMsgs
<1>5. Keeps(p, r, "none")
  BY <1>4, <1>r, TargetKeeps
<1> QED BY <1>2, <1>i, <1>r, <1>5, BecomeKeeps

LEMMA StateMsgKeeps ==
    ASSUME ProberInv, NEW p \in Procs, StateMsg(p)
    PROVE  ProberInv'
<1>s. PICK s : s = Takes(p)
  OBVIOUS
<1>0. Alive(p) /\ pr[p].sigq # <<>> /\ Head(pr[p].sigq) = "STATE"
  BY DEF StateMsg, Dispatch
<1>1. Local(p, s, "STATE")
  BY <1>0, <1>s, TakesIs
<1>r. PICK r : r = OnState(s)
  OBVIOUS
<1>2. Become(p, r)
  BY <1>s, <1>r DEF StateMsg, Dispatch, Takes
<1>3. Keeps(p, r, "STATE")
  BY <1>1, <1>r, OnStateKeeps
<1>4. Keeps(p, r, "none")
  BY <1>3, KeepsForgotten DEF ConnectMsgs
<1> QED BY <1>2, <1>4, BecomeKeeps

LEMMA CandidateMsgKeeps ==
    ASSUME ProberInv, NEW p \in Procs, CandidateReadyMsg(p)
    PROVE  ProberInv'
<1>s. PICK s : s = Takes(p)
  OBVIOUS
<1>0. Alive(p) /\ pr[p].sigq # <<>> /\ Head(pr[p].sigq) = "CANDIDATEREADY"
  BY DEF CandidateReadyMsg, Dispatch
<1>1. Local(p, s, "CANDIDATEREADY")
  BY <1>0, <1>s, TakesIs
<1>r. PICK r : r = OnCandidatesReady(s)
  OBVIOUS
<1>2. Become(p, r)
  BY <1>s, <1>r DEF CandidateReadyMsg, Dispatch, Takes
<1>3. Keeps(p, r, "none")
  BY <1>1, <1>r, OnCandidatesReadyKeeps
<1> QED BY <1>2, <1>3, BecomeKeeps

LEMMA ConnectingMsgKeeps ==
    ASSUME ProberInv, NEW p \in Procs, ConnectingMsg(p)
    PROVE  ProberInv'
<1>s. PICK s : s = Takes(p)
  OBVIOUS
<1>0. Alive(p) /\ pr[p].sigq # <<>> /\ Head(pr[p].sigq) = "CONNECTING"
  BY DEF ConnectingMsg, Dispatch
<1>1. Local(p, s, "CONNECTING")
  BY <1>0, <1>s, TakesIs
<1>r. PICK r : r = OnTransportWritable(s)
  OBVIOUS
<1>2. Become(p, r)
  BY <1>s, <1>r DEF ConnectingMsg, Dispatch, Takes
<1>3. Keeps(p, r, "none")
  BY <1>1, <1>r, OnTransportWritableKeeps
<1> QED BY <1>2, <1>3, BecomeKeeps

LEMMA WriteStateMsgKeeps ==
    ASSUME ProberInv, NEW p \in Procs, WriteStateMsg(p)
    PROVE  ProberInv'
<1>s. PICK s : s = Takes(p)
  OBVIOUS
<1>0. Alive(p) /\ pr[p].sigq # <<>> /\ Head(pr[p].sigq) = "WRITESTATE"
  BY DEF WriteStateMsg, Dispatch
<1>1. Local(p, s, "WRITESTATE")
  BY <1>0, <1>s, TakesIs
<1>r. PICK r : r = OnChannelWritableState_s(s)
  OBVIOUS
<1>2. Become(p, r)
  BY <1>s, <1>r DEF WriteStateMsg, Dispatch, Takes
<1>3. Keeps(p, r, "none")
  BY <1>1, <1>r, OnWritableStateKeeps
<1> QED BY <1>2, <1>3, BecomeKeeps

LEMMA RequestMsgKeeps ==
    ASSUME ProberInv, NEW p \in Procs, RequestSignalingMsg(p)
    PROVE  ProberInv'
<1>s. PICK s : s = Takes(p)
  OBVIOUS
<1>0. Alive(p) /\ pr[p].sigq # <<>> /\ Head(pr[p].sigq) = "REQUESTSIGNALING"
  BY DEF RequestSignalingMsg, Dispatch
<1>1. Local(p, s, "REQUESTSIGNALING")
  BY <1>0, <1>s, TakesIs
<1>r. PICK r : r = OnSignalingReady(s)
  OBVIOUS
<1>2. Become(p, r)
  BY <1>s, <1>r DEF RequestSignalingMsg, Dispatch, Takes
<1>3. Keeps(p, r, "none")
  BY <1>1, <1>r, OnSignalingReadyKeeps
<1> QED BY <1>2, <1>3, BecomeKeeps

LEMMA SessionTimeoutKeeps ==
    ASSUME ProberInv, NEW p \in Procs, onSessionTimeout(p)
    PROVE  ProberInv'
<1>s. PICK s : s = Takes(p)
  OBVIOUS
<1>0. Alive(p) /\ pr[p].sigq # <<>> /\ Head(pr[p].sigq) = "TIMEOUT"
  BY DEF onSessionTimeout, Dispatch
<1>1. s \in Mid(p)
  BY <1>0, <1>s, TakesIs
<1>r. PICK r : r = [s EXCEPT !.dead = "timeout"]
  OBVIOUS
<1>2. Become(p, r)
  BY <1>s, <1>r DEF onSessionTimeout, Dispatch, Takes, Exits
<1>3. Keeps(p, r, "none")
  BY <1>1, <1>r, DeadKeeps DEF Reasons
<1> QED BY <1>2, <1>3, BecomeKeeps

LEMMA TimeoutDueKeeps ==
    ASSUME ProberInv, NEW p \in Procs, TimeoutDue(p)
    PROVE  ProberInv'
<1>z. PICK z : z = pr[p]
  OBVIOUS
<1>1. Local(p, z, "none")
  BY <1>z, AliveLocal DEF TimeoutDue
<1>r. PICK r : r = [z EXCEPT !.timer = FALSE, !.sigq = Append(@, "TIMEOUT")]
  OBVIOUS
<1>2. Become(p, r) /\ z.timer
  BY <1>z, <1>r DEF TimeoutDue
<1>3. Keeps(p, r, "none")
  BY <1>1, <1>2, <1>r, TimeoutKeeps
<1> QED BY <1>2, <1>3, BecomeKeeps

LEMMA ConnectEventKeeps ==
    ASSUME ProberInv, NEW p \in Procs, onConnectEvent(p)
    PROVE  ProberInv'
<1>1. Local(p, pr[p], "none") /\ pr[p] \in Mid(p) /\ pr[p].dead = "no"
  BY AliveLocal DEF onConnectEvent
<1>2. pr[p].out = <<>>
  BY DEF ProberInv, Process, ProberInit
<1>r. PICK r : r = [pr[p] EXCEPT !.sock = "open"]
  OBVIOUS
<1>3. r \in Mid(p) /\ Same(r, pr[p]) /\ r.out = pr[p].out
  BY <1>1, <1>r DEF Mid, Same
<1>4. Local(p, r, "none")
  BY <1>1, <1>3, SameKeeps
<1>5. Process(p, r)
  BY <1>2, <1>3, <1>4, LocalKeeps DEF Process
<1>6. pr' = [pr EXCEPT ![p] = r]
  BY <1>r DEF onConnectEvent
<1>7. DOMAIN pr' = Procs /\ \A q \in Procs : Process(q, pr'[q])
  BY <1>5, <1>6 DEF ProberInv
<1>8. c2s' \in [Procs -> Seq(Words)]
  <2>q. PICK q \in Seq(Words) : q = c2s[p]
    BY DEF ProberInv, ServerType
  <2>n. PICK n \in Names : n = MyName[p]
    BY ProberAssumption
  <2>1. Append(q, LoginWord(n)) \in Seq(Words)
    BY WordTypes
  <2>2. c2s' = [c2s EXCEPT ![p] = Append(q, LoginWord(n))]
    BY <2>q, <2>n DEF onConnectEvent
  <2> QED BY <2>1, <2>2 DEF ProberInv, ServerType
<1>9. ServerType'
  BY <1>8 DEF onConnectEvent, ProberInv, ServerType
<1> QED BY <1>7, <1>9 DEF ProberInv

LEMMA CloseEventKeeps ==
    ASSUME ProberInv, NEW p \in Procs, onCloseEvent(p) \/ Kill(p)
    PROVE  ProberInv'
<1>1. Die(p, "disconnected") \/ Die(p, "killed")
  BY DEF onCloseEvent, Kill
<1>2. "disconnected" \in Reasons \ {"no"} /\ "killed" \in Reasons \ {"no"}
  BY DEF Reasons
<1> QED BY <1>1, <1>2, DieKeeps

\* What Reads does with the state s that the handler leaves.
Read(p, s) ==
    /\ Alive(p) /\ s2c[p] # <<>>
    /\ IF s.dead # "no" THEN Die(p, s.dead)
       ELSE /\ pr' = [pr EXCEPT ![p] = [s EXCEPT !.out = <<>>]]
            /\ s2c' = [s2c EXCEPT ![p] = Tail(@)]
            /\ c2s' = [c2s EXCEPT ![p] = @ \o
                      [i \in DOMAIN s.out |-> SendWord(RemoteName[p], s.out[i])]]
            /\ UNCHANGED <<up, conn, pid, peerObjects>>

LEMMA ReadKeeps ==
    ASSUME ProberInv, NEW p \in Procs, NEW s, Keeps(p, s, "none"), Read(p, s)
    PROVE  ProberInv'
<1>0. s \in Mid(p) /\ s.dead \in Reasons
  BY DEF Keeps, Mid
<1>1. CASE s.dead # "no"
  <2>1. Die(p, s.dead)
    BY <1>1 DEF Read
  <2> QED BY <1>0, <1>1, <2>1, DieKeeps
<1>2. CASE s.dead = "no"
  <2>1. /\ pr' = [pr EXCEPT ![p] = [s EXCEPT !.out = <<>>]]
        /\ s2c' = [s2c EXCEPT ![p] = Tail(@)]
        /\ c2s' = [c2s EXCEPT ![p] = @ \o
                      [i \in DOMAIN s.out |-> SendWord(RemoteName[p], s.out[i])]]
        /\ UNCHANGED <<up, conn, pid, peerObjects>>
        /\ s2c[p] # <<>>
    BY <1>2 DEF Read
  <2>2. Local(p, s, "none")
    BY <1>2 DEF Keeps
  <2>r. PICK r : r = [s EXCEPT !.out = <<>>]
    OBVIOUS
  <2>e. <<>> \in Seq(Msgs)
    OBVIOUS
  <2>3. r \in Mid(p)
    BY <1>0, <2>e, <2>r DEF Mid
  <2>4. Same(r, s) /\ r.out = <<>>
    BY <1>0, <2>r DEF Mid, Same
  <2>5. Local(p, r, "none")
    BY <2>2, <2>3, <2>4, SameKeeps
  <2>6. Process(p, r)
    BY <2>4, <2>5, LocalKeeps DEF Process
  <2>7. DOMAIN pr' = Procs /\ \A q \in Procs : Process(q, pr'[q])
    BY <2>1, <2>r, <2>6 DEF ProberInv
  <2>8. c2s' \in [Procs -> Seq(Words)]
    BY <1>0, <2>1, SentType
  <2>9. s2c' \in [Procs -> Seq(Words)]
    <3>q. PICK q \in Seq(Words) : q = s2c[p] /\ q # <<>>
      BY <2>1 DEF ProberInv, ServerType
    <3>1. Tail(q) \in Seq(Words)
      BY <3>q
    <3>2. s2c' = [s2c EXCEPT ![p] = Tail(q)]
      BY <2>1, <3>q
    <3> QED BY <3>1, <3>2 DEF ProberInv, ServerType
  <2>10. ServerType'
    BY <2>1, <2>8, <2>9 DEF ProberInv, ServerType
  <2> QED BY <2>7, <2>10 DEF ProberInv
<1> QED BY <1>1, <1>2

LEMMA RemoteLoginKeeps ==
    ASSUME ProberInv, NEW p \in Procs, onRemoteLogin(p)
    PROVE  ProberInv'
<1>s. PICK s : s = pr[p]
  OBVIOUS
<1>1. Alive(p) /\ Local(p, s, "none") /\ s \in Mid(p) /\ s.dead = "no"
  BY <1>s, AliveLocal DEF onRemoteLogin, Reads
<1>u. PICK u : u = [s EXCEPT !.remoteOnline = TRUE, !.sigq = Append(@, "DO_INITIATE")]
  OBVIOUS
<1>n. PICK n \in Names :
        Reads(p, LoginWord(n),
              LAMBDA x : IF RemoteArrived(p, n, x)
                         THEN [x EXCEPT !.remoteOnline = TRUE,
                                        !.sigq = Append(@, "DO_INITIATE")]
                         ELSE x)
  BY DEF onRemoteLogin
<1>2. Read(p, s) \/ Read(p, u)
  <2>1. CASE RemoteArrived(p, n, s)
    BY SMTT(40), <1>n, <1>s, <1>u, <2>1 DEF Reads, Read
  <2>2. CASE ~RemoteArrived(p, n, s)
    BY <1>n, <1>s, <2>2 DEF Reads, Read
  <2> QED BY <2>1, <2>2
<1>3. CASE Read(p, s)
  BY <1>1, <1>3, LocalKeeps, ReadKeeps
<1>4. CASE Read(p, u)
  <2>t. PICK t : t = [s EXCEPT !.remoteOnline = TRUE]
    OBVIOUS
  <2>1. t \in Mid(p) /\ Same(t, s)
    BY <1>1, <2>t DEF Mid, Same
  <2>2. Local(p, t, "none")
    BY <1>1, <2>1, SameKeeps
  <2>3. "DO_INITIATE" \in SignalIds \ {"CONNECTING", "TIMEOUT"} /\ "DO_INITIATE" \notin ConnectMsgs
    BY DEF SignalIds, ConnectMsgs
  <2>r. PICK r : r = Posts(t, "DO_INITIATE")
    OBVIOUS
  <2>4. Local(p, r, "none")
    BY <2>2, <2>3, <2>r, PostKeeps
  <2>5. r = [s EXCEPT !.remoteOnline = TRUE, !.sigq = Append(@, "DO_INITIATE")]
    BY <1>1, <2>t, <2>r DEF Posts, Mid
  <2> QED BY <1>4, <1>u, <2>4, <2>5, LocalKeeps, ReadKeeps
<1> QED BY <1>2, <1>3, <1>4

LEMMA RemoteOnlineKeeps ==
    ASSUME ProberInv, NEW p \in Procs, onRemoteOnline(p)
    PROVE  ProberInv'
<1>1. Local(p, pr[p], "none") /\ Read(p, pr[p])
  BY AliveLocal DEF onRemoteOnline, Reads, Read
<1> QED BY <1>1, LocalKeeps, ReadKeeps

LEMMA RemoteOfflineKeeps ==
    ASSUME ProberInv, NEW p \in Procs, onRemoteOffline(p)
    PROVE  ProberInv'
<1>r. PICK r : r = [pr[p] EXCEPT !.dead = "remoteoffline"]
  OBVIOUS
<1>1. pr[p] \in Mid(p)
  BY AliveLocal DEF onRemoteOffline, Reads
<1>2. Read(p, r)
  BY <1>r DEF onRemoteOffline, Reads, Read, Exits
<1>3. Keeps(p, r, "none")
  BY <1>1, <1>r, DeadKeeps DEF Reasons
<1> QED BY <1>2, <1>3, ReadKeeps

\* A word that says "message" carries one.
LEMMA MessageBody ==
    ASSUME ServerType, NEW p \in Procs, s2c[p] # <<>>, NEW n, Head(s2c[p]) = MessageWord(n, Head(s2c[p]).body)
    PROVE  Head(s2c[p]).body \in Msgs
<1>q. PICK q \in Seq(Words) : q = s2c[p] /\ q # <<>>
  BY DEF ServerType
<1>w. PICK w \in Words : w = Head(q)
  BY <1>q
<1>1. w.type = "message"
  BY <1>w, <1>q DEF MessageWord, Word
<1> QED BY <1>q, <1>w, <1>1 DEF Words

\* onRemoteMessage reads a message and hands it to the session.
LEMMA ReadsMessage ==
    ASSUME NEW p \in Procs, onRemoteMessage(p), NEW s, s = pr[p], NEW m, m = Head(s2c[p]).body
    PROVE  Read(p, IF s.state = "NULL" THEN Exits(s, "nullsession") ELSE OnIncomingMessage(s, m))
<1>n. PICK n \in Names :
        Reads(p, MessageWord(n, Head(s2c[p]).body),
              LAMBDA x : IF x.state = "NULL" THEN Exits(x, "nullsession")
                         ELSE OnIncomingMessage(x, Head(s2c[p]).body))
  BY DEF onRemoteMessage
<1>h. PICK h : h = IF pr[p].state = "NULL" THEN Exits(pr[p], "nullsession")
                   ELSE OnIncomingMessage(pr[p], Head(s2c[p]).body)
  OBVIOUS
<1>1. Read(p, h)
  BY <1>n, <1>h DEF Reads, Read
<1>2. h = IF s.state = "NULL" THEN Exits(s, "nullsession") ELSE OnIncomingMessage(s, m)
  BY <1>h
<1> QED BY <1>1, <1>2

LEMMA MessageRead ==
    ASSUME ServerType, NEW p \in Procs, onRemoteMessage(p) PROVE Head(s2c[p]).body \in Msgs
<1>n. PICK n \in Names :
        Reads(p, MessageWord(n, Head(s2c[p]).body),
              LAMBDA x : IF x.state = "NULL" THEN Exits(x, "nullsession")
                         ELSE OnIncomingMessage(x, Head(s2c[p]).body))
  BY DEF onRemoteMessage
<1>1. s2c[p] # <<>> /\ Head(s2c[p]) = MessageWord(n, Head(s2c[p]).body)
  BY <1>n DEF Reads
<1> QED BY <1>1, MessageBody

LEMMA RemoteMessageKeeps ==
    ASSUME ProberInv, NEW p \in Procs, onRemoteMessage(p)
    PROVE  ProberInv'
<1>s. PICK s : s = pr[p]
  OBVIOUS
<1>1. Alive(p) /\ Local(p, s, "none") /\ s \in Mid(p) /\ s.dead = "no"
  BY SMTT(40), <1>s, AliveLocal DEF onRemoteMessage, Reads
<1>m. PICK m \in Msgs : m = Head(s2c[p]).body
  BY MessageRead DEF ProberInv
<1>2. Read(p, IF s.state = "NULL" THEN Exits(s, "nullsession") ELSE OnIncomingMessage(s, m))
  BY <1>s, <1>m, ReadsMessage
<1>3. CASE s.state = "NULL"
  <2>r. PICK r : r = [s EXCEPT !.dead = "nullsession"]
    OBVIOUS
  <2>1. Keeps(p, r, "none")
    BY <1>1, <2>r, DeadKeeps DEF Reasons
  <2> QED BY <1>2, <1>3, <2>r, <2>1, ReadKeeps DEF Exits
<1>4. CASE s.state # "NULL"
  <2>r. PICK r : r = OnIncomingMessage(s, m)
    OBVIOUS
  <2>1. Keeps(p, r, "none")
    BY <1>1, <2>r, OnIncomingKeeps
  <2> QED BY <1>2, <1>4, <2>r, <2>1, ReadKeeps
<1> QED BY SMTT(40), <1>3, <1>4

LEMMA WorkerStepKeeps ==
    ASSUME ProberInv, NEW p \in Procs, WorkerMsg(p) \/ Gather(p) \/ Flip(p) \/ Reallocate(p)
    PROVE  ProberInv'
<1>s. PICK s : s = pr[p]
  OBVIOUS
<1>0. Alive(p)
  BY DEF WorkerMsg, SignalingReadyMsg, RemoteCandidateMsg, Works, Gather, Flip, Reallocate
<1>1. Local(p, s, "none")
  BY <1>0, <1>s, AliveLocal
<1>2. CASE SignalingReadyMsg(p)
  <2>r. PICK r : r = OnSignalingReady_w([s EXCEPT !.wq = Tail(@)])
    OBVIOUS
  <2>1. Become(p, r) /\ s.wq # <<>> /\ Head(s.wq).id = "ONSIGNALINGREADY"
    BY <1>2, <1>s, <2>r DEF SignalingReadyMsg, Works
  <2>2. Keeps(p, r, "none")
    BY <1>1, <2>1, <2>r, SignalingReadyKeeps
  <2> QED BY <2>1, <2>2, BecomeKeeps
<1>3. CASE RemoteCandidateMsg(p)
  <2>r. PICK r : r = OnRemoteCandidate_w([s EXCEPT !.wq = Tail(@)], Head(s.wq).cand)
    OBVIOUS
  <2>1. Become(p, r) /\ s.wq # <<>> /\ Head(s.wq).id = "ONREMOTECANDIDATE"
    BY <1>3, <1>s, <2>r DEF RemoteCandidateMsg, Works
  <2>2. Keeps(p, r, "none")
    BY <1>1, <2>1, <2>r, RemoteCandidateKeeps
  <2> QED BY <2>1, <2>2, BecomeKeeps
<1>4. CASE Gather(p)
  <2>r. PICK r : r = [OnChannelCandidateReady(s, <<p, s.made + 1>>) EXCEPT !.made = @ + 1]
    OBVIOUS
  <2>1. Become(p, r) /\ s.session /\ s.made < MaxCand[p]
    BY <1>4, <1>s, <2>r DEF Gather
  <2>2. Keeps(p, r, "none")
    BY <1>1, <2>1, <2>r, GatherKeeps
  <2> QED BY <2>1, <2>2, BecomeKeeps
<1>5. CASE Flip(p)
  <2>r. PICK r : r = [(IF s.writable THEN BecomeUnwritable(s) ELSE BecomeWritable(s))
                         EXCEPT !.flips = @ + 1]
    OBVIOUS
  <2>1. Become(p, r) /\ s.remote # <<>> /\ s.flips < MaxFlips[p]
    BY <1>5, <1>s, <2>r DEF Flip
  <2>2. Keeps(p, r, "none")
    BY <1>1, <2>1, <2>r, FlipKeeps
  <2> QED BY <2>1, <2>2, BecomeKeeps
<1>6. CASE Reallocate(p)
  <2>r. PICK r : r = [Allocate(s) EXCEPT !.allocs = @ + 1]
    OBVIOUS
  <2>1. Become(p, r) /\ s.session /\ s.allocs < MaxAlloc[p]
    BY <1>6, <1>s, <2>r DEF Reallocate
  <2>2. Keeps(p, r, "none")
    BY <1>1, <2>1, <2>r, ReallocateKeeps
  <2> QED BY <2>1, <2>2, BecomeKeeps
<1> QED BY <1>2, <1>3, <1>4, <1>5, <1>6 DEF WorkerMsg

-----------------------------------------------------------------------------
(* The server keeps its types.                                             *)

LEMMA WriteAllType ==
    ASSUME ServerType, NEW S, NEW w \in Words
    PROVE  WriteAll(S, w) \in [Procs -> Seq(Words)]
<1>1. ASSUME NEW p \in Procs
      PROVE  (IF p \in S THEN Append(s2c[p], w) ELSE s2c[p]) \in Seq(Words)
  <2>q. PICK q \in Seq(Words) : q = s2c[p]
    BY DEF ServerType
  <2>1. Append(q, w) \in Seq(Words)
    OBVIOUS
  <2> QED BY <2>q, <2>1
<1> QED BY <1>1 DEF WriteAll

LEMMA ReceivesType ==
    ASSUME ServerType, NEW p \in Procs, NEW w, Receives(p, w)
    PROVE  /\ c2s' \in [Procs -> Seq(Words)]
           /\ w \in Words /\ w = Head(c2s[p])
<1>q. PICK q \in Seq(Words) : q = c2s[p] /\ q # <<>>
  BY DEF ServerType, Receives
<1>1. Tail(q) \in Seq(Words) /\ Head(q) \in Words
  BY <1>q
<1>2. c2s' = [c2s EXCEPT ![p] = Tail(q)] /\ w = Head(q)
  BY <1>q DEF Receives
<1> QED BY <1>q, <1>1, <1>2 DEF ServerType

LEMMA KickType ==
    ASSUME ServerType, NEW p \in Procs, LoginKicked(p) PROVE ServerType'
<1>n. PICK n \in Names :
        /\ Receives(p, LoginWord(n))
        /\ pid' = [pid EXCEPT ![p] = n]
        /\ conn' = [conn EXCEPT ![p] = "ended"]
        /\ s2c' = [s2c EXCEPT ![p] = @ \o Kick]
        /\ UNCHANGED <<up, peerObjects>>
  BY DEF LoginKicked
<1>1. c2s' \in [Procs -> Seq(Words)]
  BY <1>n, ReceivesType
<1>q. PICK q \in Seq(Words) : q = s2c[p]
  BY DEF ServerType
<1>2. q \o Kick \in Seq(Words)
  BY WordTypes DEF Kick
<1>3. s2c' = [s2c EXCEPT ![p] = q \o Kick]
  BY <1>n, <1>q
<1>4. s2c' \in [Procs -> Seq(Words)]
  BY <1>2, <1>3 DEF ServerType
<1> QED BY <1>1, <1>4, <1>n DEF ServerType

LEMMA AcceptedType ==
    ASSUME ServerType, NEW p \in Procs, LoginAccepted(p) PROVE ServerType'
<1>n. PICK n \in Names :
        /\ Receives(p, LoginWord(n))
        /\ pid' = [pid EXCEPT ![p] = n]
        /\ s2c' = [WriteAll(Users, LoginWord(n)) EXCEPT ![p] = @ \o OnlineList]
        /\ peerObjects' = [peerObjects EXCEPT ![n] = p]
        /\ UNCHANGED <<up, conn>>
  BY DEF LoginAccepted
<1>1. c2s' \in [Procs -> Seq(Words)]
  BY <1>n, ReceivesType
<1>w. PICK w \in [Procs -> Seq(Words)] : w = WriteAll(Users, LoginWord(n))
  BY WriteAllType, WordTypes
<1>2. OnlineList \in Seq(Words)
  <2>1. Registered \in SUBSET Names
    BY DEF Registered
  <2> QED BY <2>1, WordTypes DEF OnlineList
<1>q. PICK q \in Seq(Words) : q = w[p]
  OBVIOUS
<1>3. q \o OnlineList \in Seq(Words)
  BY <1>2
<1>4. s2c' = [w EXCEPT ![p] = q \o OnlineList]
  BY <1>n, <1>w, <1>q
<1>5. s2c' \in [Procs -> Seq(Words)]
  BY <1>3, <1>4
<1> QED BY <1>1, <1>5, <1>n DEF ServerType

LEMMA SendType ==
    ASSUME ServerType, NEW p \in Procs, Send(p) PROVE ServerType'
<1>n. PICK n \in Names :
        /\ Receives(p, SendWord(n, Head(c2s[p]).body))
        /\ s2c' = IF pid[p] # NoName /\ n \in Registered
                  THEN WriteAll({peerObjects[n]},
                                MessageWord(pid[p], Head(c2s[p]).body))
                  ELSE s2c
        /\ UNCHANGED <<up, conn, pid, peerObjects>>
  BY DEF Send
<1>w. PICK w : w = SendWord(n, Head(c2s[p]).body)
  OBVIOUS
<1>1. c2s' \in [Procs -> Seq(Words)] /\ w \in Words
  BY <1>n, <1>w, ReceivesType
<1>2. w.type = "send" /\ w.body = Head(c2s[p]).body
  BY <1>w DEF SendWord, Word
<1>3. Head(c2s[p]).body \in Msgs
  BY <1>1, <1>2 DEF Words
<1>4. s2c' \in [Procs -> Seq(Words)]
  <2>1. CASE pid[p] # NoName /\ n \in Registered
    <3>1. pid[p] \in Names
      BY <2>1 DEF ServerType
    <3>2. MessageWord(pid[p], Head(c2s[p]).body) \in Words
      BY <1>3, <3>1, WordTypes
    <3> QED BY <1>n, <2>1, <3>2, WriteAllType
  <2>2. CASE ~(pid[p] # NoName /\ n \in Registered)
    BY <1>n, <2>2 DEF ServerType
  <2> QED BY <2>1, <2>2
<1> QED BY <1>1, <1>4, <1>n DEF ServerType

LEMMA CloseType ==
    ASSUME ServerType, NEW p \in Procs, OnClose(p) PROVE ServerType'
<1>1. c2s' \in [Procs -> Seq(Words)]
  BY ReceivesType DEF OnClose
<1>2. CASE OwnsEntry(p)
  <2>1. pid[p] \in Names
    BY <1>2 DEF OwnsEntry, Registered
  <2>2. OfflineWord(pid[p]) \in Words
    BY <2>1, WordTypes
  <2>3. s2c' \in [Procs -> Seq(Words)]
    BY <1>2, <2>2, WriteAllType DEF OnClose
  <2>4. peerObjects' \in [Names -> Procs \cup {NoProc}]
    BY <1>2 DEF OnClose, ServerType
  <2> QED BY <1>1, <2>3, <2>4 DEF OnClose, ServerType
<1>3. CASE ~OwnsEntry(p)
  BY <1>1, <1>3 DEF OnClose, ServerType
<1> QED BY <1>2, <1>3

LEMMA ServerDiesType ==
    ASSUME ServerType, ServerDies PROVE ServerType'
<1>1. s2c' \in [Procs -> Seq(Words)]
  BY WriteAllType, WordTypes DEF ServerDies
<1> QED BY <1>1 DEF ServerDies, ServerType

-----------------------------------------------------------------------------
LEMMA ProberInit1 == ASSUME Init PROVE ProberInv
<1>1. \A p \in Procs : <<>> \in Seq(Words)
  OBVIOUS
<1>2. ServerType
  BY <1>1 DEF Init, ServerInit, ServerType
<1>3. DOMAIN pr = Procs /\ \A p \in Procs : pr[p] = ProberInit
  BY DEF Init
<1> QED BY <1>2, <1>3 DEF ProberInv, Process

LEMMA ProberStepKeeps ==
    ASSUME ProberInv, NEW p \in Procs, ProberStep(p) PROVE ProberInv'
<1>1. CASE Login(p)
  BY <1>1, LoginKeeps
<1>2. CASE PostCreateSession(p)
  BY <1>2, PostCreateKeeps
<1>3. CASE SignalStep(p)
  BY <1>3, StartKeeps, CreateKeeps, DoInitiateKeeps, DoAcceptKeeps, StateMsgKeeps,
     CandidateMsgKeeps, RequestMsgKeeps, ConnectingMsgKeeps, WriteStateMsgKeeps,
     SessionTimeoutKeeps DEF SignalStep
<1>4. CASE PeerStep(p)
  BY <1>4, ConnectEventKeeps, CloseEventKeeps, RemoteLoginKeeps, RemoteOnlineKeeps,
     RemoteOfflineKeeps, RemoteMessageKeeps DEF PeerStep
<1>5. CASE TimeoutDue(p)
  BY <1>5, TimeoutDueKeeps
<1>6. CASE WorkerMsg(p) \/ Gather(p) \/ Flip(p) \/ Reallocate(p)
  BY <1>6, WorkerStepKeeps
<1>7. CASE Kill(p)
  BY <1>7, CloseEventKeeps
<1> QED BY <1>1, <1>2, <1>3, <1>4, <1>5, <1>6, <1>7 DEF ProberStep

LEMMA ProberNext == ASSUME ProberInv, [Next]_vars PROVE ProberInv'
<1>1. CASE \E p \in Procs : ServerStep(p) /\ UNCHANGED pr
  <2>1. PICK p \in Procs : ServerStep(p) /\ UNCHANGED pr
    BY <1>1
  <2>2. ServerType
    BY DEF ProberInv
  <2>3. ServerType'
    BY <2>1, <2>2, KickType, AcceptedType, SendType, CloseType DEF ServerStep
  <2> QED BY <2>1, <2>3 DEF ProberInv
<1>2. CASE \E p \in Procs : ProberStep(p)
  BY <1>2, ProberStepKeeps
<1>3. CASE ServerDies /\ UNCHANGED pr
  <2>1. ServerType'
    BY <1>3, ServerDiesType DEF ProberInv
  <2> QED BY <1>3, <2>1 DEF ProberInv
<1>4. CASE UNCHANGED vars
  <2>1. pr' = pr /\ up' = up /\ conn' = conn /\ pid' = pid /\ peerObjects' = peerObjects
        /\ c2s' = c2s /\ s2c' = s2c
    BY <1>4 DEF vars, serverVars
  <2>2. ServerType'
    BY <2>1 DEF ProberInv, ServerType
  <2> QED BY <2>1, <2>2 DEF ProberInv
<1> QED BY <1>1, <1>2, <1>3, <1>4 DEF Next

\* The inductive invariant holds of any processes, whatever their names: every
\* member has its type, and each living process is in order between any two
\* steps (Local).
THEOREM ProberInvariant == Spec => []ProberInv
<1>1. Init => ProberInv
  BY ProberInit1
<1>2. ProberInv /\ [Next]_vars => ProberInv'
  BY ProberNext
<1> QED BY <1>1, <1>2, PTL DEF Spec

LEMMA InitType == ASSUME NEW p \in Procs PROVE ProberInit \in ProberType(p)
<1>0. MaxCand[p] \in Nat /\ MaxAlloc[p] \in Nat /\ MaxFlips[p] \in Nat
  BY ProberAssumption
<1>1. /\ 0 \in 0 .. MaxCand[p] /\ 0 \in 0 .. MaxAlloc[p] /\ 0 \in 0 .. MaxFlips[p]
      /\ <<>> \in Seq(Candidates) /\ <<>> \in Seq(Seq(Candidates)) /\ <<>> \in Seq(SignalIds)
      /\ <<>> \in Seq([id : {"ONSIGNALINGREADY", "ONREMOTECANDIDATE"},
                       cand : Candidates \cup {<<>>}])
  BY <1>0
<1>2. "NULL" \in States /\ "no" \in Reasons
  BY DEF States, Reasons
<1> QED BY <1>1, <1>2 DEF ProberInit, ProberType

LEMMA MidType ==
    ASSUME NEW p \in Procs, NEW s \in Mid(p), s.out = <<>> PROVE s \in ProberType(p)
<1>t. PICK T : T = [id : {"ONSIGNALINGREADY", "ONREMOTECANDIDATE"},
                    cand : Candidates \cup {<<>>}]
  OBVIOUS
<1>1. WorkMsgs \subseteq T
  BY <1>t DEF WorkMsgs, ReadyMsg, CandidateMsg
<1>2. s.wq \in Seq(WorkMsgs)
  BY DEF Mid
<1>q. PICK q \in Seq(WorkMsgs) : q = s.wq
  BY <1>2
<1>3. q \in Seq(T)
  <2>1. \A i \in 1 .. Len(q) : q[i] \in T
    BY <1>1
  <2> QED BY <2>1
<1> QED BY <1>t, <1>q, <1>3 DEF Mid, ProberType

\* Every member of a prober and every variable of the server has its type in
\* every reachable state; what was sent is never left in out.
THEOREM ProberTypes == Spec => []TypeOK
<1>1. ProberInv => TypeOK
  <2>1. ASSUME ProberInv, NEW p \in Procs PROVE pr[p] \in ProberType(p)
    BY <2>1, InitType, MidType DEF ProberInv, Process, Keeps
  <2> QED BY <2>1 DEF TypeOK, ProberInv, ServerType
<1> QED BY <1>1, ProberInvariant, PTL

\* No wake-up is lost between the signaling and the worker thread of any
\* process (Transport's posts and handlers), whatever happens around it.
THEOREM NoWakeUpLost == Spec => []NothingStranded
<1>1. ProberInv => NothingStranded
  <2>1. SUFFICES ASSUME ProberInv, NEW p \in Procs, Alive(p)
                 PROVE  /\ pr[p].ready # <<>> => Has(pr[p].sigq, "CANDIDATEREADY")
                        /\ pr[p].waiting => Has(pr[p].sigq, "REQUESTSIGNALING")
                                              \/ Has(pr[p].wq, ReadyMsg)
                        /\ pr[p].writable # pr[p].twritable => Has(pr[p].sigq, "WRITESTATE")
                        /\ pr[p].unsent # <<>> => pr[p].pending
    BY DEF NothingStranded
  <2>2. Local(p, pr[p], "none")
    BY <2>1, AliveLocal
  <2> QED BY <2>2 DEF Local, Stranded, Comes
<1> QED BY <1>1, ProberInvariant, PTL

\* The watchdog of OnTransportWritable is pending exactly once while the
\* transport is not writable, and not at all while it is.
THEOREM WatchdogPending == Spec => []Watchdog
<1>1. ProberInv => Watchdog
  <2>1. SUFFICES ASSUME ProberInv, NEW p \in Procs, Alive(p)
                 PROVE  Cardinality({i \in DOMAIN pr[p].sigq : pr[p].sigq[i] = "TIMEOUT"})
                            + (IF pr[p].timer THEN 1 ELSE 0)
                          = IF /\ pr[p].connectReq
                               /\ ~Has(pr[p].sigq, "CONNECTING")
                               /\ ~pr[p].twritable
                            THEN 1 ELSE 0
    BY DEF Watchdog
  <2>2. Local(p, pr[p], "none")
    BY <2>1, AliveLocal
  <2>3. CountOf(pr[p].sigq, {"TIMEOUT"})
          = Cardinality({i \in DOMAIN pr[p].sigq : pr[p].sigq[i] = "TIMEOUT"})
    <3>1. Places(pr[p].sigq, {"TIMEOUT"}) = {i \in DOMAIN pr[p].sigq : pr[p].sigq[i] = "TIMEOUT"}
      BY DEF Places
    <3> QED BY <3>1 DEF CountOf
  <2> QED BY <2>2, <2>3 DEF Local, Timed, Timeouts, Comes
<1> QED BY <1>1, ProberInvariant, PTL

-----------------------------------------------------------------------------
(* The handshake.  What two streams carry from one partner to the other.   *)

\* The words that carry a message of a session.
Carries(w) == w.type \in {"send", "message"}

None(x) == \A i \in DOMAIN x : ~Carries(x[i])

Trans(x) == \A i \in DOMAIN x : Carries(x[i]) => x[i].body.type = "transport"

\* One message of type t, and only transport messages after it.
Led(x, t) ==
    \E i \in DOMAIN x :
        /\ Carries(x[i]) /\ x[i].body.type = t
        /\ \A j \in DOMAIN x : Carries(x[j]) /\ j # i => i < j /\ x[j].body.type = "transport"

\* The same of both halves of the way from one partner to the other: a from
\* the server, b to the server.
PNone(a, b)   == None(a) /\ None(b)
PTrans(a, b)  == Trans(a) /\ Trans(b)
PLed(a, b, t) == (Led(a, t) /\ Trans(b)) \/ (None(a) /\ Led(b, t))

\* The stream y carries what x does.
Bare(y, x) ==
    /\ None(y) <=> None(x)
    /\ Trans(x) => Trans(y)
    /\ \A t : Led(x, t) => Led(y, t)

\* It tells of the login of n only if x does.
Plainly(y, x, n) == Bare(y, x) /\ (Has(y, LoginWord(n)) => Has(x, LoginWord(n)))

LEMMA PlainlySame == ASSUME NEW x, NEW n PROVE Plainly(x, x, n)
BY DEF Plainly, Bare

LEMMA PlainlyAppend ==
    ASSUME NEW x \in Seq(Words), NEW w \in Words, ~Carries(w), NEW n, w # LoginWord(n),
           NEW y, y = Append(x, w)
    PROVE  Plainly(y, x, n)
<1>1. /\ y \in Seq(Words) /\ Len(y) = Len(x) + 1 /\ y[Len(x) + 1] = w
      /\ \A i \in 1 .. Len(x) : y[i] = x[i]
  OBVIOUS
<1>2. DOMAIN y = (1 .. Len(x)) \cup {Len(x) + 1} /\ DOMAIN x = 1 .. Len(x)
  BY <1>1
<1>3. None(y) <=> None(x)
  BY <1>1, <1>2 DEF None
<1>4. Trans(x) => Trans(y)
  BY <1>1, <1>2 DEF Trans
<1>5. ASSUME NEW t, Led(x, t) PROVE Led(y, t)
  <2>1. PICK i \in DOMAIN x :
        /\ Carries(x[i]) /\ x[i].body.type = t
        /\ \A j \in DOMAIN x : Carries(x[j]) /\ j # i => i < j /\ x[j].body.type = "transport"
    BY <1>5 DEF Led
  <2>2. i \in DOMAIN y /\ y[i] = x[i]
    BY <1>1, <1>2
  <2>3. \A j \in DOMAIN y : Carries(y[j]) /\ j # i => i < j /\ y[j].body.type = "transport"
    BY <1>1, <1>2, <2>1
  <2> QED BY <2>1, <2>2, <2>3 DEF Led
<1>6. Has(y, LoginWord(n)) => Has(x, LoginWord(n))
  BY <1>1, <1>2 DEF Has
<1> QED BY <1>3, <1>4, <1>5, <1>6 DEF Plainly, Bare

\* Reading the first word.
LEMMA StreamTail ==
    ASSUME NEW x \in Seq(Words), x # <<>>, NEW y, y = Tail(x)
    PROVE  /\ y \in Seq(Words)
           /\ None(x) => None(y) /\ ~Carries(Head(x))
           /\ ~Carries(Head(x)) => (None(y) <=> None(x))
           /\ Trans(x) => Trans(y) /\ (Carries(Head(x)) => Head(x).body.type = "transport")
           /\ \A t : Led(x, t) /\ ~Carries(Head(x)) => Led(y, t)
           /\ \A t : Led(x, t) /\ Carries(Head(x)) => Head(x).body.type = t /\ Trans(y)
           /\ \A w : Has(y, w) => Has(x, w)
<1>1. /\ y \in Seq(Words) /\ Head(x) = x[1] /\ 1 \in DOMAIN x
      /\ \A i \in DOMAIN y : i \in Nat /\ i + 1 \in DOMAIN x /\ y[i] = x[i + 1]
      /\ \A i \in DOMAIN x : i \in Nat /\ (i = 1 \/ (i > 1 /\ i - 1 \in DOMAIN y /\ y[i - 1] = x[i]))
      /\ \A i \in DOMAIN y : i > 0
  OBVIOUS
<1>2. None(x) => None(y) /\ ~Carries(Head(x))
  BY <1>1 DEF None
<1>3. ~Carries(Head(x)) /\ None(y) => None(x)
  BY <1>1 DEF None
<1>4. Trans(x) => Trans(y) /\ (Carries(Head(x)) => Head(x).body.type = "transport")
  BY <1>1 DEF Trans
<1>5. ASSUME NEW t, Led(x, t)
      PROVE  /\ ~Carries(Head(x)) => Led(y, t)
             /\ Carries(Head(x)) => Head(x).body.type = t /\ Trans(y)
  <2>1. PICK i \in DOMAIN x :
        /\ Carries(x[i]) /\ x[i].body.type = t
        /\ \A j \in DOMAIN x : Carries(x[j]) /\ j # i => i < j /\ x[j].body.type = "transport"
    BY <1>5 DEF Led
  <2>2. CASE Carries(Head(x))
    <3>1. i = 1
      BY <1>1, <2>1, <2>2
    <3>2. Trans(y)
      BY <1>1, <2>1, <3>1 DEF Trans
    <3> QED BY <1>1, <2>1, <2>2, <3>1, <3>2
  <2>3. CASE ~Carries(Head(x))
    <3>1. i # 1
      BY <1>1, <2>1, <2>3
    <3>2. i - 1 \in DOMAIN y /\ y[i - 1] = x[i]
      BY <1>1, <3>1
    <3>3. \A j \in DOMAIN y : Carries(y[j]) /\ j # i - 1 => i - 1 < j /\ y[j].body.type = "transport"
      BY SMTT(40), <1>1, <2>1
    <3>4. Led(y, t)
      BY <2>1, <3>2, <3>3 DEF Led
    <3> QED BY <2>3, <3>4
  <2> QED BY <2>2, <2>3
<1>6. \A w : Has(y, w) => Has(x, w)
  BY <1>1 DEF Has
<1> QED BY <1>1, <1>2, <1>3, <1>4, <1>5, <1>6

\* Writing the words w behind those of x.
LEMMA StreamConcat ==
    ASSUME NEW x \in Seq(Words), NEW w \in Seq(Words), NEW y, y = x \o w
    PROVE  /\ y \in Seq(Words)
           /\ None(y) <=> None(x) /\ None(w)
           /\ Trans(x) /\ Trans(w) => Trans(y)
           /\ \A t : Led(x, t) /\ Trans(w) => Led(y, t)
           /\ \A t : None(x) /\ Led(w, t) => Led(y, t)
           /\ \A m : Has(y, m) <=> Has(x, m) \/ Has(w, m)
<1>l. PICK k \in Nat : k = Len(x)
  OBVIOUS
<1>1. /\ y \in Seq(Words)
      /\ \A i \in DOMAIN y : i \in Nat
      /\ \A i \in DOMAIN x : i \in Nat /\ i <= k /\ i \in DOMAIN y /\ y[i] = x[i]
      /\ \A i \in DOMAIN w : i \in Nat /\ i > 0 /\ k + i \in DOMAIN y /\ y[k + i] = w[i]
      /\ \A i \in DOMAIN y : i \in DOMAIN x \/ (i > k /\ i - k \in DOMAIN w /\ y[i] = w[i - k])
  BY SMTT(40), <1>l
<1>2. None(y) <=> None(x) /\ None(w)
  BY <1>1 DEF None
<1>3. ASSUME Trans(x), Trans(w) PROVE Trans(y)
  <2>1. ASSUME NEW j \in DOMAIN y, Carries(y[j]) PROVE y[j].body.type = "transport"
    <3>1. CASE j \in DOMAIN x
      BY <1>1, <1>3, <2>1, <3>1 DEF Trans
    <3>2. CASE j - k \in DOMAIN w /\ y[j] = w[j - k]
      BY <1>3, <2>1, <3>2 DEF Trans
    <3> QED BY <1>1, <3>1, <3>2
  <2> QED BY <2>1 DEF Trans
<1>4. ASSUME NEW t, Led(x, t), Trans(w) PROVE Led(y, t)
  <2>1. PICK i \in DOMAIN x :
        /\ Carries(x[i]) /\ x[i].body.type = t
        /\ \A j \in DOMAIN x : Carries(x[j]) /\ j # i => i < j /\ x[j].body.type = "transport"
    BY <1>4 DEF Led
  <2>2. i \in DOMAIN y /\ y[i] = x[i] /\ i \in Nat /\ i <= k
    BY <1>1
  <2>3. ASSUME NEW j \in DOMAIN y, Carries(y[j]), j # i
        PROVE  i < j /\ y[j].body.type = "transport"
    <3>1. CASE j \in DOMAIN x
      BY <1>1, <2>1, <2>3, <3>1
    <3>2. CASE j > k /\ j - k \in DOMAIN w /\ y[j] = w[j - k]
      <4>1. j \in Nat
        BY <1>1
      <4> QED BY <1>4, <2>2, <2>3, <3>2, <4>1 DEF Trans
    <3> QED BY <1>1, <3>1, <3>2
  <2> QED BY <2>1, <2>2, <2>3 DEF Led
<1>5. ASSUME NEW t, None(x), Led(w, t) PROVE Led(y, t)
  <2>1. PICK i \in DOMAIN w :
        /\ Carries(w[i]) /\ w[i].body.type = t
        /\ \A j \in DOMAIN w : Carries(w[j]) /\ j # i => i < j /\ w[j].body.type = "transport"
    BY <1>5 DEF Led
  <2>2. k + i \in DOMAIN y /\ y[k + i] = w[i] /\ i \in Nat
    BY <1>1
  <2>3. ASSUME NEW j \in DOMAIN y, Carries(y[j]), j # k + i
        PROVE  k + i < j /\ y[j].body.type = "transport"
    <3>1. j \notin DOMAIN x
      BY <1>1, <1>5, <2>3 DEF None
    <3>2. j > k /\ j - k \in DOMAIN w /\ y[j] = w[j - k] /\ j \in Nat
      BY <1>1, <3>1
    <3>3. i < j - k /\ w[j - k].body.type = "transport"
      BY SMTT(40), <2>1, <2>2, <2>3, <3>2
    <3> QED BY <2>2, <3>2, <3>3
  <2> QED BY <2>1, <2>2, <2>3 DEF Led
<1>6. ASSUME NEW m PROVE Has(y, m) <=> Has(x, m) \/ Has(w, m)
  <2>1. ASSUME Has(y, m) PROVE Has(x, m) \/ Has(w, m)
    <3>1. PICK i \in DOMAIN y : y[i] = m
      BY <2>1 DEF Has
    <3>2. CASE i \in DOMAIN x
      <4>1. x[i] = m
        BY <1>1, <3>1, <3>2
      <4> QED BY <3>2, <4>1 DEF Has
    <3>3. CASE i - k \in DOMAIN w /\ y[i] = w[i - k]
      BY <3>1, <3>3 DEF Has
    <3> QED BY <1>1, <3>2, <3>3
  <2>2. ASSUME Has(x, m) PROVE Has(y, m)
    BY <1>1, <2>2 DEF Has
  <2>3. ASSUME Has(w, m) PROVE Has(y, m)
    <3>1. PICK i \in DOMAIN w : w[i] = m
      BY <2>3 DEF Has
    <3>2. k + i \in DOMAIN y /\ y[k + i] = m
      BY <1>1, <3>1
    <3> QED BY <3>2 DEF Has
  <2> QED BY <2>1, <2>2, <2>3
<1> QED BY <1>1, <1>2, <1>3, <1>4, <1>5, <1>6

-----------------------------------------------------------------------------
(* Two partners.                                                           *)

Idle  == {"NULL", "INIT"}
Later == {"SENTACCEPT", "RECEIVEDACCEPT", "INPROGRESS"}

\* The login of its partner has reached p, or is in its stream x.
HeardBy(p, s, x) == s.remoteOnline \/ Has(x, LoginWord(RemoteName[p]))

\* What is on its way to p, whose state is s, over the streams c and d.
Expect(p, s, c, d) ==
    /\ s.state \in Idle => \/ PNone(c, d)
                           \/ ~HeardBy(p, s, c) /\ PLed(c, d, "initiate")
    /\ s.state = "SENTINITIATE" => PNone(c, d) \/ PLed(c, d, "accept")
    /\ s.state \in Later \cup {"RECEIVEDINITIATE"} => PTrans(c, d)

\* The one that has invited, in state x, and the other, in state y; a and b
\* are the way to the other, c and d the way back.
Way(x, y, a, b, c, d) ==
    \/ x = "SENTINITIATE" /\ y \in Idle /\ PLed(a, b, "initiate") /\ PNone(c, d)
    \/ x = "SENTINITIATE" /\ y = "RECEIVEDINITIATE" /\ PTrans(a, b) /\ PNone(c, d)
    \/ /\ x = "SENTINITIATE" /\ y \in {"SENTACCEPT", "INPROGRESS"}
       /\ PTrans(a, b) /\ PLed(c, d, "accept")
    \/ /\ x \in {"RECEIVEDACCEPT", "INPROGRESS"} /\ y \in {"SENTACCEPT", "INPROGRESS"}
       /\ PTrans(a, b) /\ PTrans(c, d)

\* Two partners p and q in states s and t.
Agree(p, q, s, t, a, b, c, d) ==
    /\ ~(HeardBy(p, s, c) /\ HeardBy(q, t, a))
    /\ \/ s.state \in Idle /\ t.state \in Idle /\ PNone(a, b) /\ PNone(c, d)
       \/ s.remoteOnline /\ Way(s.state, t.state, a, b, c, d)
       \/ t.remoteOnline /\ Way(t.state, s.state, c, d, a, b)

\* The invariant of two partners; one that is dead is not looked at.
Pair(p, q, s, t, a, b, c, d) ==
    /\ t.dead = "no" => Expect(q, t, a, b)
    /\ s.dead = "no" => Expect(p, s, c, d)
    /\ s.dead = "no" /\ t.dead = "no" => Agree(p, q, s, t, a, b, c, d)

LEMMA PairSwap ==
    ASSUME NEW p, NEW q, NEW s, NEW t, NEW a, NEW b, NEW c, NEW d,
           Pair(p, q, s, t, a, b, c, d)
    PROVE  Pair(q, p, t, s, c, d, a, b)
BY DEF Pair, Agree

LEMMA NoneTrans == ASSUME NEW a, NEW b, PNone(a, b) PROVE PTrans(a, b)
BY DEF PNone, PTrans, None, Trans

\* Words that carry nothing come or go, and no login of a partner comes.
LEMMA PathPlainly ==
    ASSUME NEW a, NEW b, NEW u, NEW v, Bare(u, a), Bare(v, b)
    PROVE  /\ PNone(a, b) => PNone(u, v)
           /\ PTrans(a, b) => PTrans(u, v)
           /\ \A t : PLed(a, b, t) => PLed(u, v, t)
BY DEF Bare, PNone, PTrans, PLed

LEMMA PairPlainly ==
    ASSUME NEW p, NEW q, NEW s, NEW t, NEW a, NEW b, NEW c, NEW d,
           Pair(p, q, s, t, a, b, c, d),
           NEW u, NEW v, NEW x, NEW y,
           Plainly(u, a, RemoteName[q]), Bare(v, b),
           Plainly(x, c, RemoteName[p]), Bare(y, d)
    PROVE  Pair(p, q, s, t, u, v, x, y)
<1>1. /\ PNone(a, b) => PNone(u, v)
      /\ PTrans(a, b) => PTrans(u, v)
      /\ \A k : PLed(a, b, k) => PLed(u, v, k)
  BY PathPlainly DEF Plainly
<1>2. /\ PNone(c, d) => PNone(x, y)
      /\ PTrans(c, d) => PTrans(x, y)
      /\ \A k : PLed(c, d, k) => PLed(x, y, k)
  BY PathPlainly DEF Plainly
<1>3. HeardBy(q, t, u) => HeardBy(q, t, a)
  BY DEF HeardBy, Plainly
<1>4. HeardBy(p, s, x) => HeardBy(p, s, c)
  BY DEF HeardBy, Plainly
<1>5. Expect(q, t, a, b) => Expect(q, t, u, v)
  BY <1>1, <1>3 DEF Expect
<1>6. Expect(p, s, c, d) => Expect(p, s, x, y)
  BY <1>2, <1>4 DEF Expect
<1>7. \A k, l : Way(k, l, a, b, c, d) => Way(k, l, u, v, x, y)
  BY <1>1, <1>2 DEF Way
<1>8. \A k, l : Way(k, l, c, d, a, b) => Way(k, l, x, y, u, v)
  BY <1>1, <1>2 DEF Way
<1>9. Agree(p, q, s, t, a, b, c, d) => Agree(p, q, s, t, u, v, x, y)
  BY <1>1, <1>2, <1>3, <1>4, <1>7, <1>8 DEF Agree
<1> QED BY <1>5, <1>6, <1>9 DEF Pair

\* The record of p changes in what the invariant does not look at, or shows
\* that the login it had heard of came.
LEMMA PairView ==
    ASSUME NEW p, NEW q, NEW s, NEW t, NEW a, NEW b, NEW c, NEW d,
           Pair(p, q, s, t, a, b, c, d), NEW r,
           r.state = s.state, r.dead = s.dead, s.remoteOnline => r.remoteOnline,
           r.remoteOnline => HeardBy(p, s, c)
    PROVE  Pair(p, q, r, t, a, b, c, d)
<1>1. HeardBy(p, r, c) => HeardBy(p, s, c)
  BY DEF HeardBy
<1>2. Expect(p, s, c, d) => Expect(p, r, c, d)
  BY <1>1 DEF Expect
<1>3. Agree(p, q, s, t, a, b, c, d) => Agree(p, q, r, t, a, b, c, d)
  BY <1>1 DEF Agree
<1> QED BY <1>2, <1>3 DEF Pair

LEMMA PathSend ==
    ASSUME NEW a, NEW b \in Seq(Words), NEW w \in Seq(Words), NEW v, v = b \o w
    PROVE  /\ PNone(a, b) /\ None(w) => PNone(a, v)
           /\ PTrans(a, b) /\ Trans(w) => PTrans(a, v)
           /\ \A t : PLed(a, b, t) /\ Trans(w) => PLed(a, v, t)
           /\ \A t : PNone(a, b) /\ Led(w, t) => PLed(a, v, t)
<1>1. /\ None(v) <=> None(b) /\ None(w)
      /\ Trans(b) /\ Trans(w) => Trans(v)
      /\ \A t : Led(b, t) /\ Trans(w) => Led(v, t)
      /\ \A t : None(b) /\ Led(w, t) => Led(v, t)
  BY StreamConcat
<1> QED BY <1>1 DEF PNone, PTrans, PLed

\* A handler of p leaves the session where it is and sends, if anything,
\* transport messages, once the handshake allows it.
LEMMA PairSends ==
    ASSUME NEW p, NEW q, NEW s, NEW t, NEW a, NEW b \in Seq(Words), NEW c, NEW d,
           Pair(p, q, s, t, a, b, c, d), s.dead = "no",
           NEW w \in Seq(Words), NEW v, v = b \o w,
           Trans(w), None(w) \/ s.state \in Later
    PROVE  Pair(p, q, s, t, a, v, c, d)
<1>1. /\ PNone(a, b) /\ None(w) => PNone(a, v)
      /\ PTrans(a, b) => PTrans(a, v)
      /\ \A k : PLed(a, b, k) => PLed(a, v, k)
  BY PathSend
<1>2. CASE None(w)
  <2>1. PNone(a, b) => PNone(a, v)
    BY <1>1, <1>2
  <2>2. Expect(q, t, a, b) => Expect(q, t, a, v)
    BY <1>1, <2>1 DEF Expect
  <2>3. \A k, l : Way(k, l, a, b, c, d) => Way(k, l, a, v, c, d)
    BY <1>1, <2>1 DEF Way
  <2>4. \A k, l : Way(k, l, c, d, a, b) => Way(k, l, c, d, a, v)
    BY <1>1, <2>1 DEF Way
  <2>5. Agree(p, q, s, t, a, b, c, d) => Agree(p, q, s, t, a, v, c, d)
    BY <2>1, <2>3, <2>4 DEF Agree
  <2> QED BY <2>2, <2>5 DEF Pair
<1>3. CASE s.state \in Later /\ t.dead = "no"
  <2>1. Agree(p, q, s, t, a, b, c, d) /\ Expect(p, s, c, d)
    BY <1>3 DEF Pair
  <2>2. s.state \in {"SENTACCEPT", "RECEIVEDACCEPT", "INPROGRESS"} /\ s.state \notin Idle
    BY <1>3 DEF Later, Idle
  <2>3. \/ s.remoteOnline /\ Way(s.state, t.state, a, v, c, d)
              /\ t.state \in {"SENTACCEPT", "INPROGRESS"} /\ PTrans(a, v)
        \/ t.remoteOnline /\ Way(t.state, s.state, c, d, a, v)
              /\ t.state \in {"SENTINITIATE", "RECEIVEDACCEPT", "INPROGRESS"}
              /\ (t.state = "SENTINITIATE" => PLed(a, v, "accept"))
              /\ (t.state # "SENTINITIATE" => PTrans(a, v))
    <3>1. CASE s.remoteOnline /\ Way(s.state, t.state, a, b, c, d)
      BY <1>1, <2>2, <3>1 DEF Way
    <3>2. CASE t.remoteOnline /\ Way(t.state, s.state, c, d, a, b)
      BY <1>1, <2>2, <3>2 DEF Way
    <3> QED BY <2>1, <2>2, <3>1, <3>2 DEF Agree
  <2>4. Expect(q, t, a, v)
    BY <2>3 DEF Expect, Idle, Later
  <2>5. Agree(p, q, s, t, a, v, c, d)
    BY <2>1, <2>3 DEF Agree
  <2> QED BY <2>1, <2>4, <2>5 DEF Pair
<1>4. CASE t.dead # "no"
  BY <1>4 DEF Pair
<1> QED BY <1>2, <1>3, <1>4

LEMMA PairCreate ==
    ASSUME NEW p, NEW q, NEW s, NEW t, NEW a, NEW b, NEW c, NEW d,
           Pair(p, q, s, t, a, b, c, d), s.dead = "no", s.state = "NULL",
           NEW r, r.state = "INIT", r.remoteOnline = s.remoteOnline, r.dead = "no"
    PROVE  Pair(p, q, r, t, a, b, c, d)
<1>1. HeardBy(p, r, c) <=> HeardBy(p, s, c)
  BY DEF HeardBy
<1>2. Expect(p, s, c, d) => Expect(p, r, c, d)
  BY <1>1 DEF Expect, Idle, Later
<1>3. \A k, a1, b1, c1, d1 : Way(k, s.state, a1, b1, c1, d1) => Way(k, r.state, a1, b1, c1, d1)
  BY DEF Way, Idle
<1>4. Agree(p, q, s, t, a, b, c, d) => Agree(p, q, r, t, a, b, c, d)
  <2>1. \A a1, b1, c1, d1 : ~Way(s.state, t.state, a1, b1, c1, d1)
    BY DEF Way
  <2>2. s.state \in Idle /\ r.state \in Idle
    BY DEF Idle
  <2> QED BY <1>1, <1>3, <2>1, <2>2 DEF Agree
<1> QED BY <1>2, <1>4 DEF Pair

\* Initiate.
LEMMA PairInvite ==
    ASSUME NEW p, NEW q, NEW s, NEW t, NEW a, NEW b \in Seq(Words), NEW c, NEW d,
           Pair(p, q, s, t, a, b, c, d), s.dead = "no", s.state = "INIT", s.remoteOnline,
           NEW r, r.state = "SENTINITIATE", r.remoteOnline = s.remoteOnline, r.dead = "no",
           NEW w \in Seq(Words), NEW v, v = b \o w, Led(w, "initiate")
    PROVE  Pair(p, q, r, t, a, v, c, d)
<1>1. PNone(a, b) => PLed(a, v, "initiate")
  BY PathSend
<1>2. HeardBy(p, s, c) /\ s.state \in Idle /\ Expect(p, s, c, d)
  BY DEF HeardBy, Idle, Pair
<1>3. PNone(c, d)
  BY <1>2 DEF Expect
<1>4. Expect(p, r, c, d)
  BY <1>3 DEF Expect, Idle, Later
<1>5. CASE t.dead = "no"
  <2>1. Agree(p, q, s, t, a, b, c, d)
    BY <1>5 DEF Pair
  <2>2. ~HeardBy(q, t, a) /\ ~t.remoteOnline
    BY <1>2, <2>1 DEF Agree, HeardBy
  <2>3. \A a1, b1, c1, d1 : ~Way(s.state, t.state, a1, b1, c1, d1)
    BY DEF Way
  <2>4. t.state \in Idle /\ PNone(a, b)
    BY <2>1, <2>2, <2>3 DEF Agree
  <2>5. Expect(q, t, a, v)
    BY <1>1, <2>2, <2>4 DEF Expect, Idle, Later
  <2>6. Way(r.state, t.state, a, v, c, d)
    BY <1>1, <1>3, <2>4 DEF Way
  <2>7. Agree(p, q, r, t, a, v, c, d)
    BY <2>2, <2>6 DEF Agree
  <2> QED BY <1>4, <2>5, <2>7 DEF Pair
<1>6. CASE t.dead # "no"
  BY <1>4, <1>6 DEF Pair
<1> QED BY <1>5, <1>6

\* Accept.
LEMMA PairAccept ==
    ASSUME NEW p, NEW q, NEW s, NEW t, NEW a, NEW b \in Seq(Words), NEW c, NEW d,
           Pair(p, q, s, t, a, b, c, d), s.dead = "no", s.state = "RECEIVEDINITIATE",
           NEW r, r.state = "SENTACCEPT", r.remoteOnline = s.remoteOnline, r.dead = "no",
           NEW w \in Seq(Words), NEW v, v = b \o w, Led(w, "accept")
    PROVE  Pair(p, q, r, t, a, v, c, d)
<1>1. PNone(a, b) => PLed(a, v, "accept")
  BY PathSend
<1>2. Expect(p, s, c, d) => Expect(p, r, c, d)
  BY DEF Expect, Idle, Later
<1>5. CASE t.dead = "no"
  <2>1. Agree(p, q, s, t, a, b, c, d) /\ s.state \notin Idle
    BY <1>5 DEF Pair, Idle
  <2>2. t.remoteOnline /\ t.state = "SENTINITIATE" /\ PTrans(c, d) /\ PNone(a, b)
    BY <2>1 DEF Agree, Way
  <2>5. Expect(q, t, a, v)
    BY <1>1, <2>2 DEF Expect, Idle, Later
  <2>6. Way(t.state, r.state, c, d, a, v)
    BY <1>1, <2>2 DEF Way
  <2>7. HeardBy(p, r, c) <=> HeardBy(p, s, c)
    BY DEF HeardBy
  <2>8. Agree(p, q, r, t, a, v, c, d)
    BY <2>1, <2>2, <2>6, <2>7 DEF Agree
  <2> QED BY <1>2, <2>5, <2>8 DEF Pair
<1>6. CASE t.dead # "no"
  BY <1>2, <1>6 DEF Pair
<1> QED BY <1>5, <1>6

\* OnState.
LEMMA PairEstablish ==
    ASSUME NEW p, NEW q, NEW s, NEW t, NEW a, NEW b, NEW c, NEW d,
           Pair(p, q, s, t, a, b, c, d), s.dead = "no",
           s.state \in {"SENTACCEPT", "RECEIVEDACCEPT"},
           NEW r, r.state = "INPROGRESS", r.remoteOnline = s.remoteOnline, r.dead = "no"
    PROVE  Pair(p, q, r, t, a, b, c, d)
<1>2. Expect(p, s, c, d) => Expect(p, r, c, d)
  BY DEF Expect, Idle, Later
<1>7. HeardBy(p, r, c) <=> HeardBy(p, s, c)
  BY DEF HeardBy
<1>3. Way(s.state, t.state, a, b, c, d) => Way(r.state, t.state, a, b, c, d)
  BY DEF Way
<1>4. Way(t.state, s.state, c, d, a, b) => Way(t.state, r.state, c, d, a, b)
  BY DEF Way, Idle
<1>5. Agree(p, q, s, t, a, b, c, d) => Agree(p, q, r, t, a, b, c, d)
  BY <1>3, <1>4, <1>7 DEF Agree, Idle
<1> QED BY <1>2, <1>5 DEF Pair

\* What p finds when the word it reads is a message.
LEMMA ReadKinds ==
    ASSUME NEW p, NEW q, NEW s, NEW t, NEW a, NEW b, NEW c \in Seq(Words), NEW d,
           Pair(p, q, s, t, a, b, c, d), s.dead = "no", s.state \in States,
           c # <<>>, Carries(Head(c))
    PROVE  /\ Head(c).body.type = "initiate" => s.state \in Idle
           /\ Head(c).body.type = "accept" => s.state = "SENTINITIATE"
           /\ Head(c).body.type = "transport" => s.state \in Later \cup {"RECEIVEDINITIATE"}
           /\ Head(c).body.type \in {"initiate", "accept", "transport"}
           /\ s.state = "SENTINITIATE" => PTrans(Tail(c), d)
           /\ s.state \in Idle => PTrans(Tail(c), d)
<1>0. PICK y : y = Tail(c)
  OBVIOUS
<1>1. /\ ~None(c)
      /\ Trans(c) => Trans(y) /\ Head(c).body.type = "transport"
      /\ \A k : Led(c, k) => Head(c).body.type = k /\ Trans(y)
  BY <1>0, StreamTail
<1>2. /\ ~PNone(c, d)
      /\ PTrans(c, d) => Head(c).body.type = "transport"
      /\ \A k : PLed(c, d, k) => Head(c).body.type = k /\ PTrans(y, d)
  BY <1>1 DEF PNone, PTrans, PLed
<1>3. Expect(p, s, c, d)
  BY DEF Pair
<1>4. s.state \in Idle \cup {"SENTINITIATE"} \cup Later \cup {"RECEIVEDINITIATE"}
  BY DEF States, Idle, Later
<1>5. CASE s.state \in Idle
  BY <1>0, <1>2, <1>3, <1>5 DEF Expect, Idle
<1>6. CASE s.state = "SENTINITIATE"
  BY <1>0, <1>2, <1>3, <1>6 DEF Expect, Idle
<1>7. CASE s.state \in Later \cup {"RECEIVEDINITIATE"}
  BY <1>2, <1>3, <1>7 DEF Expect, Idle, Later
<1> QED BY <1>4, <1>5, <1>6, <1>7

LEMMA PathRead ==
    ASSUME NEW c \in Seq(Words), NEW d, c # <<>>, Carries(Head(c)), NEW y, y = Tail(c)
    PROVE  /\ ~PNone(c, d)
           /\ PTrans(c, d) => PTrans(y, d) /\ Head(c).body.type = "transport"
           /\ \A k : PLed(c, d, k) => PTrans(y, d) /\ Head(c).body.type = k
<1>1. /\ ~None(c)
      /\ Trans(c) => Trans(y) /\ Head(c).body.type = "transport"
      /\ \A k : Led(c, k) => Head(c).body.type = k /\ Trans(y)
  BY StreamTail
<1> QED BY <1>1 DEF PNone, PTrans, PLed

\* OnInitiateMessage.
LEMMA PairReadInitiate ==
    ASSUME NEW p, NEW q, NEW s, NEW t, NEW a, NEW b, NEW c \in Seq(Words), NEW d,
           Pair(p, q, s, t, a, b, c, d), s.dead = "no", s.state = "INIT",
           c # <<>>, Carries(Head(c)), Head(c).body.type = "initiate",
           NEW r, r.state = "RECEIVEDINITIATE", r.remoteOnline = s.remoteOnline, r.dead = "no",
           NEW y, y = Tail(c)
    PROVE  Pair(p, q, r, t, a, b, y, d)
<1>1. /\ ~PNone(c, d)
      /\ PTrans(c, d) => PTrans(y, d) /\ Head(c).body.type = "transport"
      /\ \A k : PLed(c, d, k) => PTrans(y, d) /\ Head(c).body.type = k
  BY PathRead
<1>2. PTrans(y, d)
  BY <1>1 DEF Pair, Expect, Idle
<1>3. Expect(p, r, y, d)
  BY <1>2 DEF Expect, Idle, Later
<1>4. HeardBy(p, r, y) => HeardBy(p, s, c)
  <2>1. \A w : Has(y, w) => Has(c, w)
    BY StreamTail
  <2> QED BY <2>1 DEF HeardBy
<1>5. CASE t.dead = "no"
  <2>1. Agree(p, q, s, t, a, b, c, d) /\ Expect(q, t, a, b)
    BY <1>5 DEF Pair
  <2>2. t.remoteOnline /\ Way(t.state, s.state, c, d, a, b)
    BY <1>1, <2>1 DEF Agree, Way
  <2>3. t.state = "SENTINITIATE" /\ PNone(a, b)
    BY <2>2 DEF Way
  <2>4. Way(t.state, r.state, y, d, a, b)
    BY <1>2, <2>3 DEF Way
  <2>5. Agree(p, q, r, t, a, b, y, d)
    BY <1>4, <2>1, <2>2, <2>4 DEF Agree
  <2> QED BY <1>3, <2>1, <2>5 DEF Pair
<1>6. CASE t.dead # "no"
  BY <1>3, <1>6 DEF Pair
<1> QED BY <1>5, <1>6

\* OnAcceptMessage, with the candidates that had been kept back.
LEMMA PairReadAccept ==
    ASSUME NEW p, NEW q, NEW s, NEW t, NEW a, NEW b \in Seq(Words), NEW c \in Seq(Words), NEW d,
           Pair(p, q, s, t, a, b, c, d), s.dead = "no", s.state = "SENTINITIATE",
           c # <<>>, Carries(Head(c)), Head(c).body.type = "accept",
           NEW r, r.state = "RECEIVEDACCEPT", r.remoteOnline = s.remoteOnline, r.dead = "no",
           NEW y, y = Tail(c), NEW w \in Seq(Words), NEW v, v = b \o w, Trans(w)
    PROVE  Pair(p, q, r, t, a, v, y, d)
<1>1. /\ ~PNone(c, d)
      /\ \A k : PLed(c, d, k) => PTrans(y, d) /\ Head(c).body.type = k
  BY PathRead
<1>0. PTrans(a, b) => PTrans(a, v)
  BY PathSend
<1>2. PTrans(y, d)
  BY <1>1 DEF Pair, Expect, Idle
<1>3. Expect(p, r, y, d)
  BY <1>2 DEF Expect, Idle, Later
<1>4. HeardBy(p, r, y) => HeardBy(p, s, c)
  <2>1. \A w1 : Has(y, w1) => Has(c, w1)
    BY StreamTail
  <2> QED BY <2>1 DEF HeardBy
<1>5. CASE t.dead = "no"
  <2>1. Agree(p, q, s, t, a, b, c, d)
    BY <1>5 DEF Pair
  <2>2. s.remoteOnline /\ Way(s.state, t.state, a, b, c, d)
    BY <1>1, <2>1 DEF Agree, Way, Idle
  <2>3. t.state \in {"SENTACCEPT", "INPROGRESS"} /\ PTrans(a, b)
    BY <1>1, <2>2 DEF Way
  <2>4. Way(r.state, t.state, a, v, y, d)
    BY <1>0, <1>2, <2>3 DEF Way
  <2>5. Agree(p, q, r, t, a, v, y, d)
    BY <1>4, <2>1, <2>2, <2>4 DEF Agree
  <2>6. Expect(q, t, a, v)
    BY <1>0, <2>3 DEF Expect, Idle, Later
  <2> QED BY <1>3, <2>5, <2>6 DEF Pair
<1>6. CASE t.dead # "no"
  BY <1>3, <1>6 DEF Pair
<1> QED BY <1>5, <1>6

\* OnTransportInfoMessage.
LEMMA PairReadTransport ==
    ASSUME NEW p, NEW q, NEW s, NEW t, NEW a, NEW b, NEW c \in Seq(Words), NEW d,
           Pair(p, q, s, t, a, b, c, d), s.dead = "no",
           c # <<>>, Carries(Head(c)), Head(c).body.type = "transport",
           s.state \in Later \cup {"RECEIVEDINITIATE"},
           NEW r, r.state = s.state, r.remoteOnline = s.remoteOnline, r.dead = "no",
           NEW y, y = Tail(c)
    PROVE  Pair(p, q, r, t, a, b, y, d)
<1>1. /\ ~PNone(c, d)
      /\ PTrans(c, d) => PTrans(y, d)
      /\ \A k : PLed(c, d, k) => PTrans(y, d) /\ k = "transport"
  BY PathRead
<1>3. Expect(p, r, y, d)
  BY <1>1 DEF Pair, Expect, Idle, Later
<1>4. HeardBy(p, r, y) => HeardBy(p, s, c)
  <2>1. \A w : Has(y, w) => Has(c, w)
    BY StreamTail
  <2> QED BY <2>1 DEF HeardBy
<1>5. CASE t.dead = "no"
  <2>1. Agree(p, q, s, t, a, b, c, d) /\ Expect(q, t, a, b)
    BY <1>5 DEF Pair
  <2>2. Way(s.state, t.state, a, b, c, d) => Way(r.state, t.state, a, b, y, d)
    BY <1>1 DEF Way
  <2>3. Way(t.state, s.state, c, d, a, b) => Way(t.state, r.state, y, d, a, b)
    BY <1>1 DEF Way, Idle, Later
  <2>4. s.state \notin Idle
    BY DEF Idle, Later
  <2>5. Agree(p, q, r, t, a, b, y, d)
    BY <1>4, <2>1, <2>2, <2>3, <2>4 DEF Agree
  <2> QED BY <1>3, <2>1, <2>5 DEF Pair
<1>6. CASE t.dead # "no"
  BY <1>3, <1>6 DEF Pair
<1> QED BY <1>5, <1>6

\* p is gone: what it sent may still arrive, what was for it does not matter.
LEMMA PairDies ==
    ASSUME NEW p, NEW q, NEW s, NEW t, NEW a, NEW b, NEW c, NEW d,
           Pair(p, q, s, t, a, b, c, d),
           NEW r, r.dead # "no", NEW v, Bare(v, b), NEW y
    PROVE  Pair(p, q, r, t, a, v, y, d)
<1>0. Bare(a, a)
  BY DEF Bare
<1>1. /\ PNone(a, b) => PNone(a, v)
      /\ PTrans(a, b) => PTrans(a, v)
      /\ \A k : PLed(a, b, k) => PLed(a, v, k)
  BY <1>0, PathPlainly
<1>2. Expect(q, t, a, b) => Expect(q, t, a, v)
  BY <1>1 DEF Expect
<1> QED BY <1>2 DEF Pair

\* The server relays a message of p to q.
LEMMA PairRelay ==
    ASSUME NEW p, NEW q, NEW s, NEW t, NEW a \in Seq(Words), NEW b \in Seq(Words), NEW c, NEW d,
           Pair(p, q, s, t, a, b, c, d),
           b # <<>>, Carries(Head(b)), NEW w \in Words, Carries(w), w.body = Head(b).body,
           w # LoginWord(RemoteName[q]),
           NEW u, u = Append(a, w), NEW v, v = Tail(b)
    PROVE  Pair(p, q, s, t, u, v, c, d)
<1>1. /\ ~None(b)
      /\ Trans(b) => Trans(v) /\ Head(b).body.type = "transport"
      /\ \A k : Led(b, k) => Head(b).body.type = k /\ Trans(v)
  BY StreamTail
<1>2. /\ u \in Seq(Words) /\ Len(u) = Len(a) + 1 /\ u[Len(a) + 1] = w
      /\ \A i \in 1 .. Len(a) : u[i] = a[i]
  OBVIOUS
<1>3. DOMAIN u = (1 .. Len(a)) \cup {Len(a) + 1} /\ DOMAIN a = 1 .. Len(a)
  BY <1>2
<1>4. Trans(a) /\ Head(b).body.type = "transport" => Trans(u)
  BY <1>2, <1>3 DEF Trans
<1>5. ASSUME NEW k, Led(a, k), Head(b).body.type = "transport" PROVE Led(u, k)
  <2>1. PICK i \in DOMAIN a :
        /\ Carries(a[i]) /\ a[i].body.type = k
        /\ \A j \in DOMAIN a : Carries(a[j]) /\ j # i => i < j /\ a[j].body.type = "transport"
    BY <1>5 DEF Led
  <2>2. i \in DOMAIN u /\ u[i] = a[i] /\ i < Len(a) + 1
    BY <1>2, <1>3
  <2>3. \A j \in DOMAIN u : Carries(u[j]) /\ j # i => i < j /\ u[j].body.type = "transport"
    BY <1>2, <1>3, <1>5, <2>1, <2>2
  <2> QED BY <2>1, <2>2, <2>3 DEF Led
<1>6. ASSUME NEW k, None(a), Head(b).body.type = k PROVE Led(u, k)
  <2>1. Len(a) + 1 \in DOMAIN u /\ u[Len(a) + 1] = w
    BY <1>2, <1>3
  <2>2. \A j \in DOMAIN u : Carries(u[j]) => j = Len(a) + 1
    BY <1>2, <1>3, <1>6 DEF None
  <2> QED BY <1>6, <2>1, <2>2 DEF Led
<1>7. /\ ~PNone(a, b)
      /\ PTrans(a, b) => PTrans(u, v)
      /\ \A k : PLed(a, b, k) => PLed(u, v, k)
  BY <1>1, <1>4, <1>5, <1>6 DEF PNone, PTrans, PLed
<1>8. HeardBy(q, t, u) => HeardBy(q, t, a)
  <2>1. Has(u, LoginWord(RemoteName[q])) => Has(a, LoginWord(RemoteName[q]))
    BY <1>2, <1>3 DEF Has
  <2> QED BY <2>1 DEF HeardBy
<1>9. Expect(q, t, a, b) => Expect(q, t, u, v)
  BY <1>7, <1>8 DEF Expect
<1>10. \A k, l : Way(k, l, a, b, c, d) => Way(k, l, u, v, c, d)
  BY <1>7 DEF Way
<1>11. \A k, l : Way(k, l, c, d, a, b) => Way(k, l, c, d, u, v)
  BY <1>7 DEF Way
<1>12. Agree(p, q, s, t, a, b, c, d) => Agree(p, q, s, t, u, v, c, d)
  BY <1>7, <1>8, <1>10, <1>11 DEF Agree
<1> QED BY <1>9, <1>12 DEF Pair

\* A message to a partner that is gone is dropped.
LEMMA PairDrop ==
    ASSUME NEW p, NEW q, NEW s, NEW t, NEW a, NEW b, NEW c, NEW d,
           Pair(p, q, s, t, a, b, c, d), t.dead # "no", NEW v
    PROVE  Pair(p, q, s, t, a, v, c, d)
BY DEF Pair

\* p logs in, and has neither heard nor sent anything yet.
LEMMA PairLogin ==
    ASSUME NEW p, NEW q, NEW s, NEW t, NEW a, NEW b, NEW c, NEW d,
           Pair(p, q, s, t, a, b, c, d), ~HeardBy(p, s, c), PNone(a, b),
           NEW u, None(u), NEW v, None(v), NEW x, Plainly(x, c, RemoteName[p])
    PROVE  Pair(p, q, s, t, u, v, x, d)
<1>0. Bare(x, c) /\ Bare(d, d)
  BY DEF Plainly, Bare
<1>1. /\ PNone(c, d) => PNone(x, d)
      /\ PTrans(c, d) => PTrans(x, d)
      /\ \A k : PLed(c, d, k) => PLed(x, d, k)
  BY <1>0, PathPlainly
<1>2. PNone(u, v) /\ PTrans(u, v)
  BY DEF PNone, PTrans, None, Trans
<1>3. ~HeardBy(p, s, x) /\ ~s.remoteOnline
  BY DEF HeardBy, Plainly
<1>4. Expect(p, s, c, d) => Expect(p, s, x, d)
  BY <1>1, <1>3 DEF Expect
<1>5. Expect(q, t, u, v)
  BY <1>2 DEF Expect
<1>6. Way(t.state, s.state, c, d, a, b) => Way(t.state, s.state, x, d, u, v)
  <2>1. ~PLed(a, b, "accept")
    BY DEF PNone, PLed, Led, None
  <2> QED BY <1>1, <1>2, <2>1 DEF Way
<1>7. Agree(p, q, s, t, a, b, c, d) => Agree(p, q, s, t, u, v, x, d)
  BY <1>1, <1>2, <1>3, <1>6 DEF Agree
<1> QED BY <1>4, <1>5, <1>7 DEF Pair

-----------------------------------------------------------------------------
(* One partner: what its handlers do to the session.                       *)

\* The messages that only the prober itself posts, each at one place.
MainMsgs == {"START", "CREATE_SESSION", "DO_INITIATE"}

\* How often m is queued.
Count(q, m) == CountOf(q, {m})

Calm(k, q) ==
    /\ k \in Seq(SignalIds) /\ q \in Seq(SignalIds)
    /\ \A x \in MainMsgs : Count(k, x) <= Count(q, x)

\* MSG_START is handled once, with no socket; MSG_CREATE_SESSION once, with
\* no session; MSG_DO_INITIATE only after the partner was heard of.  Channels
\* connect only in a session that has begun, and candidates are kept back
\* until it is accepted.
Orderly(s) ==
    /\ Count(s.sigq, "START") <= IF s.sock = "none" THEN 1 ELSE 0
    /\ Count(s.sigq, "CREATE_SESSION") <= IF s.main = "on" /\ s.state = "NULL" THEN 1 ELSE 0
    /\ s.main # "on" => s.state = "NULL"
    /\ Count(s.sigq, "DO_INITIATE") # 0 => s.remoteOnline
    /\ s.state \in Idle => ~s.connectReq
    /\ s.state \in {"SENTINITIATE", "RECEIVEDINITIATE"} => s.pending

LEMMA CountsNat == ASSUME NEW q \in Seq(SignalIds), NEW x PROVE Count(q, x) \in Nat
BY PlacesFinite DEF Count

LEMMA CalmSame == ASSUME NEW q \in Seq(SignalIds) PROVE Calm(q, q)
<1>1. \A x \in MainMsgs : Count(q, x) \in Nat
  BY CountsNat
<1> QED BY <1>1 DEF Calm

LEMMA CalmTrans ==
    ASSUME NEW k, NEW q, NEW l, Calm(k, q), Calm(q, l) PROVE Calm(k, l)
<1>1. k \in Seq(SignalIds) /\ q \in Seq(SignalIds) /\ l \in Seq(SignalIds)
  BY DEF Calm
<1>2. ASSUME NEW x \in MainMsgs PROVE Count(k, x) <= Count(l, x)
  <2>1. Count(k, x) \in Nat /\ Count(q, x) \in Nat /\ Count(l, x) \in Nat
    BY <1>1, CountsNat
  <2> QED BY <2>1 DEF Calm
<1> QED BY <1>1, <1>2 DEF Calm

LEMMA CalmPost ==
    ASSUME NEW q \in Seq(SignalIds), NEW m \in SignalIds \ MainMsgs, NEW k, k = Append(q, m)
    PROVE  Calm(k, q)
<1>1. k \in Seq(SignalIds)
  OBVIOUS
<1>2. ASSUME NEW x \in MainMsgs PROVE Count(k, x) <= Count(q, x)
  <2>1. CountOf(k, {x}) = CountOf(q, {x}) + (IF m \in {x} THEN 1 ELSE 0)
    BY CountAppend
  <2>2. m \notin {x}
    OBVIOUS
  <2>3. Count(q, x) \in Nat
    BY CountsNat
  <2>4. Count(k, x) = Count(q, x) + (IF m \in {x} THEN 1 ELSE 0)
    BY <2>1 DEF Count
  <2> HIDE <2>1
  <2> QED BY <2>2, <2>3, <2>4
<1> QED BY <1>1, <1>2 DEF Calm

LEMMA CountHead ==
    ASSUME NEW q \in Seq(SignalIds), q # <<>>, NEW k, k = Tail(q), NEW x
    PROVE  Count(k, x) = Count(q, x) - (IF Head(q) = x THEN 1 ELSE 0)
<1>1. CountOf(k, {x}) = CountOf(q, {x}) - (IF Head(q) \in {x} THEN 1 ELSE 0)
  BY CountTail
<1>2. Head(q) \in {x} <=> Head(q) = x
  OBVIOUS
<1> QED BY <1>1, <1>2 DEF Count

LEMMA CalmTail ==
    ASSUME NEW q \in Seq(SignalIds), q # <<>>, NEW k, k = Tail(q)
    PROVE  Calm(k, q) /\ Count(q, Head(q)) = Count(k, Head(q)) + 1
<1>1. k \in Seq(SignalIds)
  OBVIOUS
<1>h. PICK h : h = Head(q)
  OBVIOUS
<1>2. ASSUME NEW x PROVE Count(k, x) = Count(q, x) - (IF h = x THEN 1 ELSE 0)
  BY <1>h, CountHead
<1>3. ASSUME NEW x PROVE Count(k, x) \in Nat /\ Count(q, x) \in Nat
  BY <1>1, CountsNat
<1>4. ASSUME NEW x \in MainMsgs PROVE Count(k, x) <= Count(q, x)
  <2>1. Count(k, x) = Count(q, x) - (IF h = x THEN 1 ELSE 0)
    BY <1>2
  <2>2. Count(k, x) \in Nat /\ Count(q, x) \in Nat
    BY <1>3
  <2> QED BY <2>1, <2>2
<1>5. Count(q, h) = Count(k, h) + 1
  <2>1. Count(k, h) = Count(q, h) - (IF h = h THEN 1 ELSE 0)
    BY <1>2
  <2>2. Count(k, h) \in Nat /\ Count(q, h) \in Nat
    BY <1>3
  <2> QED BY <2>1, <2>2
<1> QED BY <1>1, <1>4, <1>5, <1>h DEF Calm

LEMMA CalmClear ==
    ASSUME NEW q \in Seq(SignalIds), NEW k, k = Without(q, {"TIMEOUT"})
    PROVE  Calm(k, q)
<1>1. k \in Seq(SignalIds)
  BY CountWithout
<1>2. ASSUME NEW x \in MainMsgs PROVE Count(k, x) <= Count(q, x)
  <2>1. CountOf(k, {x}) = CountOf(q, {x} \ {"TIMEOUT"})
    BY CountWithout
  <2>2. {x} \ {"TIMEOUT"} = {x}
    BY DEF MainMsgs
  <2>3. Count(q, x) \in Nat
    BY CountsNat
  <2>4. Count(k, x) = Count(q, x)
    BY <2>1, <2>2 DEF Count
  <2> QED BY <2>3, <2>4
<1> QED BY <1>1, <1>2 DEF Calm

\* What a handler leaves as it is.
Steady(r, s) ==
    /\ r.main = s.main /\ r.sock = s.sock /\ r.remoteOnline = s.remoteOnline /\ r.dead = s.dead
    /\ Calm(r.sigq, s.sigq)

LEMMA SteadyTrans ==
    ASSUME NEW r, NEW s, NEW t, Steady(r, s), Steady(s, t) PROVE Steady(r, t)
BY CalmTrans DEF Steady

LEMMA SteadySame ==
    ASSUME NEW r, NEW s, r.sigq \in Seq(SignalIds),
           r.main = s.main, r.sock = s.sock, r.remoteOnline = s.remoteOnline, r.dead = s.dead,
           r.sigq = s.sigq
    PROVE  Steady(r, s)
BY CalmSame DEF Steady

LEMMA SteadyOrderly ==
    ASSUME NEW s, Orderly(s), NEW r, Steady(r, s),
           r.state = "NULL" => s.state = "NULL", s.state = "NULL" => r.state = "NULL",
           r.state \in Idle => ~r.connectReq,
           r.state \in {"SENTINITIATE", "RECEIVEDINITIATE"} => r.pending
    PROVE  Orderly(r)
<1>k. PICK k \in Seq(SignalIds) : k = r.sigq
  BY DEF Steady, Calm
<1>q. PICK q \in Seq(SignalIds) : q = s.sigq
  BY DEF Steady, Calm
<1>1. /\ Count(k, "START") <= Count(q, "START")
      /\ Count(k, "CREATE_SESSION") <= Count(q, "CREATE_SESSION")
      /\ Count(k, "DO_INITIATE") <= Count(q, "DO_INITIATE")
  BY <1>k, <1>q DEF Steady, Calm, MainMsgs
<1>2. /\ Count(k, "START") \in Nat /\ Count(q, "START") \in Nat
      /\ Count(k, "CREATE_SESSION") \in Nat /\ Count(q, "CREATE_SESSION") \in Nat
      /\ Count(k, "DO_INITIATE") \in Nat /\ Count(q, "DO_INITIATE") \in Nat
  BY CountsNat
<1>3. r.main = s.main /\ r.sock = s.sock /\ r.remoteOnline = s.remoteOnline
  BY DEF Steady
<1>4. Count(k, "START") <= IF r.sock = "none" THEN 1 ELSE 0
  BY <1>1, <1>2, <1>3, <1>q DEF Orderly
<1>5. Count(k, "CREATE_SESSION") <= IF r.main = "on" /\ r.state = "NULL" THEN 1 ELSE 0
  BY <1>1, <1>2, <1>3, <1>q DEF Orderly
<1>6. Count(k, "DO_INITIATE") # 0 => r.remoteOnline
  BY <1>1, <1>2, <1>3, <1>q DEF Orderly
<1>7. r.main # "on" => r.state = "NULL"
  BY <1>3 DEF Orderly
<1> QED BY <1>4, <1>5, <1>6, <1>7, <1>k DEF Orderly

LEMMA PostSteady ==
    ASSUME NEW p, NEW s \in Mid(p), NEW m \in SignalIds \ MainMsgs, NEW r, r = Posts(s, m)
    PROVE  /\ r \in Mid(p) /\ Steady(r, s)
           /\ r.state = s.state /\ r.out = s.out /\ r.pending = s.pending
           /\ r.connectReq = s.connectReq
<1>1. r \in Mid(p) /\ But(r, s) /\ r.sigq = Append(s.sigq, m)
  BY PostsIs
<1>2. r.main = s.main /\ r.sock = s.sock /\ r.remoteOnline = s.remoteOnline
  BY DEF Posts, Mid
<1>q. PICK q \in Seq(SignalIds) : q = s.sigq
  BY DEF Mid
<1>3. Calm(r.sigq, s.sigq)
  BY <1>1, <1>q, CalmPost
<1> QED BY <1>1, <1>2, <1>3 DEF Steady, But

LEMMA SetStateSteady ==
    ASSUME NEW p, NEW s \in Mid(p), NEW x \in States, NEW r, r = SetState(s, x)
    PROVE  /\ Steady(r, s) /\ r.state = x
           /\ r.out = s.out /\ r.pending = s.pending /\ r.connectReq = s.connectReq
<1>t. PICK t : t = [s EXCEPT !.state = x]
  OBVIOUS
<1>1. t \in Mid(p)
  BY <1>t DEF Mid
<1>2. /\ t.main = s.main /\ t.sock = s.sock /\ t.remoteOnline = s.remoteOnline /\ t.dead = s.dead
      /\ t.sigq = s.sigq /\ t.state = x
      /\ t.out = s.out /\ t.pending = s.pending /\ t.connectReq = s.connectReq
  BY <1>t DEF Mid
<1>3. Steady(t, s)
  <2>1. t.sigq \in Seq(SignalIds)
    BY <1>1 DEF Mid
  <2> QED BY <1>2, <2>1, SteadySame
<1>4. "DO_ACCEPT" \in SignalIds \ MainMsgs /\ "STATE" \in SignalIds \ MainMsgs
  BY DEF SignalIds, MainMsgs
<1>5. CASE x # "RECEIVEDINITIATE"
  <2>1. r = Posts(t, "STATE")
    BY <1>5, <1>t, SetStateIs
  <2>2. /\ Steady(r, t) /\ r.state = t.state /\ r.out = t.out /\ r.pending = t.pending
        /\ r.connectReq = t.connectReq
    BY <1>1, <1>4, <2>1, PostSteady
  <2>3. Steady(r, s)
    BY <1>3, <2>2, SteadyTrans
  <2> QED BY <1>2, <2>2, <2>3
<1>6. CASE x = "RECEIVEDINITIATE"
  <2>a. PICK a : a = Posts(t, "DO_ACCEPT")
    OBVIOUS
  <2>1. r = Posts(a, "STATE")
    BY <1>6, <1>t, <2>a, SetStateIs
  <2>2. /\ a \in Mid(p) /\ Steady(a, t) /\ a.state = t.state /\ a.out = t.out /\ a.pending = t.pending
        /\ a.connectReq = t.connectReq
    BY <1>1, <1>4, <2>a, PostSteady
  <2>3. /\ Steady(r, a) /\ r.state = a.state /\ r.out = a.out /\ r.pending = a.pending
        /\ r.connectReq = a.connectReq
    BY <1>4, <2>1, <2>2, PostSteady
  <2>4. Steady(r, s)
    BY <1>3, <2>2, <2>3, SteadyTrans
  <2> QED BY <1>2, <2>2, <2>3, <2>4
<1> QED BY <1>5, <1>6

LEMMA ConnectSteady ==
    ASSUME NEW p, NEW s \in Mid(p), NEW x \in {"CONNECTING", "NEGOTIATED"},
           NEW r, r = ConnectChannels([s EXCEPT !.proxy = x])
    PROVE  /\ Steady(r, s) /\ r.state = s.state
           /\ r.out = s.out /\ r.pending = s.pending
<1>t. PICK t : t = [s EXCEPT !.proxy = x]
  OBVIOUS
<1>1. t \in Mid(p)
  BY <1>t DEF Mid
<1>2. /\ t.main = s.main /\ t.sock = s.sock /\ t.remoteOnline = s.remoteOnline /\ t.dead = s.dead
      /\ t.sigq = s.sigq /\ t.state = s.state
      /\ t.out = s.out /\ t.pending = s.pending /\ t.connectReq = s.connectReq
  BY <1>t DEF Mid
<1>q. PICK q \in Seq(SignalIds) : q = s.sigq
  BY DEF Mid
<1>3. Steady(t, s)
  <2>1. t.sigq \in Seq(SignalIds)
    BY <1>1 DEF Mid
  <2> QED BY <1>2, <2>1, SteadySame
<1>4. CASE t.connectReq
  <2>1. r = t
    BY <1>4, <1>t DEF ConnectChannels
  <2> QED BY <1>2, <1>3, <2>1
<1>5. CASE ~t.connectReq
  <2>1. "CANDIDATEREADY" \in SignalIds \ MainMsgs /\ "REQUESTSIGNALING" \in SignalIds \ MainMsgs
        /\ "CONNECTING" \in SignalIds \ MainMsgs
    BY DEF SignalIds, MainMsgs
  <2>x. Append(q, "CANDIDATEREADY") \in Seq(SignalIds)
    BY <2>1
  <2>a. PICK a \in Seq(SignalIds) : a = Append(q, "CANDIDATEREADY")
    BY <2>x
  <2>y. Append(a, "REQUESTSIGNALING") \in Seq(SignalIds)
    BY <2>1
  <2>b. PICK b \in Seq(SignalIds) : b = Append(a, "REQUESTSIGNALING")
    BY <2>y
  <2>z. Append(b, "CONNECTING") \in Seq(SignalIds)
    BY <2>1
  <2>k. PICK k \in Seq(SignalIds) : k = Append(b, "CONNECTING")
    BY <2>z
  <2>2. q \o <<"CANDIDATEREADY", "REQUESTSIGNALING", "CONNECTING">> = k
    BY <2>1, <2>a, <2>b, <2>k, Three
  <2>3. Calm(k, q)
    BY <2>1, <2>a, <2>b, <2>k, CalmPost, CalmTrans
  <2>4. r = [t EXCEPT !.connectReq = TRUE, !.waiting = TRUE, !.sigq = k]
    BY <1>2, <1>5, <1>q, <1>t, <2>2 DEF ConnectChannels
  <2>5. /\ r.main = t.main /\ r.sock = t.sock /\ r.remoteOnline = t.remoteOnline /\ r.dead = t.dead
        /\ r.sigq = k /\ r.state = t.state /\ r.out = t.out /\ r.pending = t.pending
    BY <1>1, <2>4 DEF Mid
  <2>6. Steady(r, s)
    BY <1>2, <1>q, <2>3, <2>5 DEF Steady
  <2> QED BY <1>2, <2>5, <2>6
<1> QED BY <1>4, <1>5

LEMMA CompleteSteady ==
    ASSUME NEW p, NEW s \in Mid(p), NEW r, r = CompleteNegotiation(s)
    PROVE  Steady(r, s) /\ r.state = s.state /\ r.out = s.out /\ r.pending = s.pending
<1>1. CASE s.proxy = "NEGOTIATED"
  <2>1. r = s /\ s.sigq \in Seq(SignalIds)
    BY <1>1 DEF CompleteNegotiation, Mid
  <2> QED BY <2>1, SteadySame
<1>2. CASE s.proxy # "NEGOTIATED"
  BY <1>2, ConnectSteady DEF CompleteNegotiation
<1> QED BY <1>1, <1>2

LEMMA ProxiesSteady ==
    ASSUME NEW p, NEW s \in Mid(p), NEW r, r = CreateTransportProxies(s)
    PROVE  /\ Steady(r, s) /\ r.state = s.state /\ r.out = s.out /\ r.pending
           /\ r.connectReq = s.connectReq
<1>1. /\ r.main = s.main /\ r.sock = s.sock /\ r.remoteOnline = s.remoteOnline /\ r.dead = s.dead
      /\ r.sigq = s.sigq /\ r.state = s.state /\ r.out = s.out /\ r.pending
      /\ r.connectReq = s.connectReq
  BY DEF CreateTransportProxies, Mid
<1>2. r.sigq \in Seq(SignalIds)
  BY <1>1 DEF Mid
<1> QED BY <1>1, <1>2, SteadySame

LEMMA SendSteady ==
    ASSUME NEW p, NEW s \in Mid(p), NEW m, NEW r, r = SendMsg(s, m)
    PROVE  /\ Steady(r, s) /\ r.state = s.state /\ r.out = Append(s.out, m) /\ r.pending = s.pending
           /\ r.connectReq = s.connectReq
<1>1. /\ r.main = s.main /\ r.sock = s.sock /\ r.remoteOnline = s.remoteOnline /\ r.dead = s.dead
      /\ r.sigq = s.sigq /\ r.state = s.state /\ r.out = Append(s.out, m) /\ r.pending = s.pending
      /\ r.connectReq = s.connectReq
  BY DEF SendMsg, Mid
<1>2. r.sigq \in Seq(SignalIds)
  BY <1>1 DEF Mid
<1> QED BY <1>1, <1>2, SteadySame

LEMMA FlushSteady ==
    ASSUME NEW p, NEW s \in Mid(p), NEW r, r = SendAllUnsentTransportInfoMessages(s)
    PROVE  /\ Steady(r, s) /\ r.state = s.state /\ r.connectReq = s.connectReq
           /\ \/ r.out = s.out
              \/ \E m \in Msgs : m.type = "transport" /\ r.out = Append(s.out, m)
<1>m. PICK m : m = Msg("transport", s.unsent)
  OBVIOUS
<1>0. m \in Msgs /\ m.type = "transport"
  <2>1. s.unsent \in Seq(Candidates)
    BY DEF Mid
  <2> QED BY <1>m, <2>1 DEF Msg, Msgs
<1>1. /\ r.main = s.main /\ r.sock = s.sock /\ r.remoteOnline = s.remoteOnline /\ r.dead = s.dead
      /\ r.sigq = s.sigq /\ r.state = s.state /\ r.connectReq = s.connectReq
      /\ r.out = s.out \/ r.out = Append(s.out, m)
  <2>1. CASE s.unsent = <<>>
    BY <2>1 DEF SendAllUnsentTransportInfoMessages, Mid
  <2>2. CASE s.unsent # <<>>
    BY <1>m, <2>2 DEF SendAllUnsentTransportInfoMessages, SendMsg, Mid
  <2> QED BY <2>1, <2>2
<1>2. r.sigq \in Seq(SignalIds)
  BY <1>1 DEF Mid
<1>3. Steady(r, s)
  BY <1>1, <1>2, SteadySame
<1> QED BY <1>0, <1>1, <1>3

-----------------------------------------------------------------------------
(* What a handler sends, and where it takes the session.                   *)

Quiet(o) == \A i \in DOMAIN o : o[i].type = "transport"

Opens(o, t) ==
    o # <<>> /\ o[1].type = t /\ \A i \in DOMAIN o : i # 1 => o[i].type = "transport"

\* A step of the session from s to r.
Turn(s, r) ==
    \/ r.state = s.state /\ Quiet(r.out) /\ (r.out # <<>> => s.state \in Later)
    \/ s.state = "NULL" /\ r.state = "INIT" /\ r.out = <<>>
    \/ s.state = "INIT" /\ s.remoteOnline /\ r.state = "SENTINITIATE" /\ Opens(r.out, "initiate")
    \/ s.state = "RECEIVEDINITIATE" /\ r.state = "SENTACCEPT" /\ Opens(r.out, "accept")
    \/ s.state \in {"SENTACCEPT", "RECEIVEDACCEPT"} /\ r.state = "INPROGRESS" /\ r.out = <<>>

\* What the handler of a posted message may leave, from s; r may have died,
\* but not of an ASSERT.
Turns(p, s, r) ==
    /\ r \in Mid(p)
    /\ r.dead # "assert"
    /\ r.dead = "no" => /\ Orderly(r) /\ Turn(s, r)
                        /\ r.remoteOnline = s.remoteOnline
                        /\ r.sock = "open" <=> s.sock = "open"

LEMMA OpensMore ==
    ASSUME NEW q \in Seq(Msgs), NEW n \in Msgs, n.type = "transport", NEW t, Opens(q, t)
    PROVE  Opens(Append(q, n), t)
<1>o. PICK o : o = Append(q, n)
  OBVIOUS
<1>1. /\ o \in Seq(Msgs) /\ Len(o) = Len(q) + 1 /\ o[Len(q) + 1] = n
      /\ \A i \in 1 .. Len(q) : o[i] = q[i]
  BY <1>o
<1>2. 1 \in 1 .. Len(q)
  BY DEF Opens
<1>3. DOMAIN o = (1 .. Len(q)) \cup {Len(q) + 1} /\ DOMAIN q = 1 .. Len(q) /\ o # <<>>
  BY <1>1
<1>4. Opens(o, t)
  BY <1>1, <1>2, <1>3 DEF Opens
<1> QED BY <1>o, <1>4

LEMMA QuietSteady ==
    ASSUME NEW p, NEW s \in Mid(p), Orderly(s), NEW r \in Mid(p), Steady(r, s),
           s.dead = "no", r.state = s.state, r.out = <<>> \/ (Quiet(r.out) /\ s.state \in Later),
           s.state \in Idle => ~r.connectReq, r.pending = s.pending
    PROVE  Turns(p, s, r)
<1>1. Orderly(r)
  BY SteadyOrderly DEF Orderly
<1>2. Quiet(r.out)
  BY DEF Quiet
<1> QED BY <1>1, <1>2 DEF Turns, Turn, Steady

LEMMA InitiateTurns ==
    ASSUME NEW p, NEW s, NEW h, Local(p, s, h), Orderly(s), s.dead = "no", s.out = <<>>,
           s.remoteOnline, s.state # "NULL", NEW r, r = Initiate(s)
    PROVE  Turns(p, s, r)
<1>0. s \in Mid(p)
  BY DEF Local
<1>1. CASE s.state # "INIT"
  <2>1. r = s /\ s.sigq \in Seq(SignalIds)
    BY <1>0, <1>1 DEF Initiate, Mid
  <2>2. Steady(r, s)
    BY <2>1, SteadySame
  <2>3. s.state \in Idle => ~r.connectReq
    BY <2>1 DEF Orderly
  <2> QED BY <1>0, <2>1, <2>2, <2>3, QuietSteady
<1>2. CASE s.state = "INIT"
  <2>a. PICK a : a = CreateTransportProxies(s)
    OBVIOUS
  <2>i. Msg("initiate", <<>>) \in Msgs
    BY DEF Msg, Msgs
  <2>m. PICK m \in Msgs : m = Msg("initiate", <<>>)
    BY <2>i
  <2>b. PICK b : b = SendMsg(a, m)
    OBVIOUS
  <2>c. PICK c : c = SetState(b, "SENTINITIATE")
    OBVIOUS
  <2>1. r = SpeculativelyConnectChannels(c)
    BY <1>2, <2>a, <2>b, <2>c, <2>m DEF Initiate
  <2>2. Local(p, a, h) /\ a \in Mid(p)
    BY <2>a, ProxiesKeep DEF Local
  <2>3. Local(p, b, h) /\ b \in Mid(p)
    BY <2>2, <2>b, SendMsgKeeps DEF Local
  <2>4. "SENTINITIATE" \in States
    BY DEF States
  <2>5. Local(p, c, h) /\ c \in Mid(p)
    BY <2>3, <2>4, <2>c, SetStateKeeps DEF Local
  <2>6. /\ Steady(a, s) /\ a.state = s.state /\ a.out = s.out /\ a.pending
        /\ a.connectReq = s.connectReq
    BY <1>0, <2>a, ProxiesSteady
  <2>7. /\ Steady(b, a) /\ b.state = a.state /\ b.out = Append(a.out, m) /\ b.pending = a.pending
        /\ b.connectReq = a.connectReq
    BY <2>2, <2>b, SendSteady
  <2>8. /\ Steady(c, b) /\ c.state = "SENTINITIATE"
        /\ c.out = b.out /\ c.pending = b.pending /\ c.connectReq = b.connectReq
    BY <2>3, <2>4, <2>c, SetStateSteady
  <2>9. c.proxy # "NEGOTIATED"
    <3>1. ~c.connectReq
      BY <1>2, <2>6, <2>7, <2>8 DEF Orderly, Idle
    <3> QED BY <2>5, <3>1 DEF Local, Unconnected
  <2>10. r = ConnectChannels([c EXCEPT !.proxy = "CONNECTING"])
    BY <2>1, <2>9 DEF SpeculativelyConnectChannels
  <2>11. Steady(r, c) /\ r.state = c.state /\ r.out = c.out /\ r.pending = c.pending
    BY <2>5, <2>10, ConnectSteady
  <2>12. Local(p, r, h)
    BY <2>5, <2>10, ConnectKeeps
  <2>13. Steady(r, s)
    <3>1. Steady(b, s)
      BY <2>6, <2>7, SteadyTrans
    <3>2. Steady(c, s)
      BY <2>8, <3>1, SteadyTrans
    <3> QED BY <2>11, <3>2, SteadyTrans
  <2>14. r.state = "SENTINITIATE" /\ r.pending /\ r.out = Append(s.out, m)
    BY <2>6, <2>7, <2>8, <2>11
  <2>15. Opens(r.out, "initiate")
    <3>1. r.out = <<m>> /\ m.type = "initiate"
      BY <2>14, <2>m DEF Msg
    <3> QED BY <3>1 DEF Opens
  <2>16. Orderly(r)
    BY <1>2, <2>13, <2>14, SteadyOrderly DEF Idle, Orderly
  <2> QED BY <1>2, <2>12, <2>13, <2>14, <2>15, <2>16 DEF Turns, Turn, Local, Steady
<1> QED BY <1>1, <1>2

LEMMA AcceptTurns ==
    ASSUME NEW p, NEW s, NEW h, Local(p, s, h), Orderly(s), s.dead = "no", s.out = <<>>,
           NEW r, r = Accept(s)
    PROVE  Turns(p, s, r)
<1>0. s \in Mid(p)
  BY DEF Local
<1>1. CASE s.state # "RECEIVEDINITIATE"
  <2>1. r = s /\ s.sigq \in Seq(SignalIds)
    BY <1>0, <1>1 DEF Accept, Mid
  <2>2. Steady(r, s)
    BY <2>1, SteadySame
  <2>3. s.state \in Idle => ~r.connectReq
    BY <2>1 DEF Orderly
  <2> QED BY <1>0, <2>1, <2>2, <2>3, QuietSteady
<1>2. CASE s.state = "RECEIVEDINITIATE"
  <2>i. Msg("accept", <<>>) \in Msgs
    BY DEF Msg, Msgs
  <2>m. PICK m \in Msgs : m = Msg("accept", <<>>)
    BY <2>i
  <2>b. PICK b : b = SendMsg(s, m)
    OBVIOUS
  <2>c. PICK c : c = SetState(b, "SENTACCEPT")
    OBVIOUS
  <2>1. r = SendAllUnsentTransportInfoMessages(c)
    BY <1>2, <2>b, <2>c, <2>m DEF Accept
  <2>3. Local(p, b, h) /\ b \in Mid(p)
    BY <2>b, SendMsgKeeps DEF Local
  <2>4. "SENTACCEPT" \in States
    BY DEF States
  <2>5. Local(p, c, h) /\ c \in Mid(p)
    BY <2>3, <2>4, <2>c, SetStateKeeps DEF Local
  <2>7. Steady(b, s) /\ b.out = Append(s.out, m)
    BY <1>0, <2>b, SendSteady
  <2>8. Steady(c, b) /\ c.state = "SENTACCEPT" /\ c.out = b.out
    BY <2>3, <2>4, <2>c, SetStateSteady
  <2>11. /\ Steady(r, c) /\ r.state = c.state
         /\ r.out = c.out \/ \E n \in Msgs : n.type = "transport" /\ r.out = Append(c.out, n)
    BY <2>1, <2>5, FlushSteady
  <2>12. Local(p, r, h)
    BY <2>1, <2>5, FlushKeeps
  <2>13. Steady(r, s)
    <3>1. Steady(c, s)
      BY <2>7, <2>8, SteadyTrans
    <3> QED BY <2>11, <3>1, SteadyTrans
  <2>15. Opens(r.out, "accept")
    <3>1. c.out = <<m>> /\ m.type = "accept"
      BY <2>7, <2>8, <2>m DEF Msg
    <3>2. CASE r.out = c.out
      BY <3>1, <3>2 DEF Opens
    <3>3. CASE \E n \in Msgs : n.type = "transport" /\ r.out = Append(c.out, n)
      <4>n. PICK n \in Msgs : n.type = "transport" /\ r.out = Append(c.out, n)
        BY <3>3
      <4>1. Opens(c.out, "accept")
        BY <3>1 DEF Opens
      <4>2. c.out \in Seq(Msgs)
        BY <2>5 DEF Mid
      <4>3. Opens(Append(c.out, n), "accept")
        BY <4>n, <4>1, <4>2, OpensMore
      <4> QED BY <4>n, <4>3
    <3> QED BY <2>11, <3>2, <3>3
  <2>16. Orderly(r)
    BY <1>2, <2>8, <2>11, <2>13, SteadyOrderly DEF Idle
  <2> QED BY <1>2, <2>8, <2>11, <2>12, <2>13, <2>15, <2>16 DEF Turns, Turn, Local, Steady
<1> QED BY <1>1, <1>2

\* OnState.
LEMMA OnStateTurns ==
    ASSUME NEW p, NEW s, NEW h, Local(p, s, h), Orderly(s), s.dead = "no", s.out = <<>>,
           NEW r, r = OnState(s)
    PROVE  Turns(p, s, r)
<1>0. s \in Mid(p)
  BY DEF Local
<1>1. CASE s.state \notin {"SENTACCEPT", "RECEIVEDACCEPT"}
  <2>1. r = s /\ s.sigq \in Seq(SignalIds)
    BY <1>0, <1>1 DEF OnState, Mid
  <2>2. Steady(r, s)
    BY <2>1, SteadySame
  <2>3. s.state \in Idle => ~r.connectReq
    BY <2>1 DEF Orderly
  <2> QED BY <1>0, <2>1, <2>2, <2>3, QuietSteady
<1>2. CASE s.state \in {"SENTACCEPT", "RECEIVEDACCEPT"}
  <2>1. r = SetState(s, "INPROGRESS") /\ "INPROGRESS" \in States
    BY <1>2 DEF OnState, States
  <2>2. Local(p, r, h)
    BY <2>1, SetStateKeeps
  <2>3. Steady(r, s) /\ r.state = "INPROGRESS" /\ r.out = s.out
    BY <1>0, <2>1, SetStateSteady
  <2>4. Orderly(r)
    BY <1>2, <2>3, SteadyOrderly DEF Idle
  <2> QED BY <1>2, <2>2, <2>3, <2>4 DEF Turns, Turn, Local, Steady
<1> QED BY <1>1, <1>2

\* OnCandidatesReady sends at once when no handshake is pending.
LEMMA OnCandidatesReadyTurns ==
    ASSUME NEW p, NEW s, Local(p, s, "CANDIDATEREADY"), Orderly(s), s.dead = "no", s.out = <<>>,
           NEW r, r = OnCandidatesReady(s)
    PROVE  Turns(p, s, r)
<1>0. s \in Mid(p) /\ s.sigq \in Seq(SignalIds) /\ s.state \in States /\ s.ready \in Seq(Candidates)
  BY DEF Local, Mid
<1>1. s.connectReq
  BY DEF Local, Unconnected, ConnectMsgs
<1>2. r.dead = "no" => Local(p, r, "none")
  BY OnCandidatesReadyKeeps DEF Keeps
<1>m. PICK m : m = Msg("transport", s.ready)
  OBVIOUS
<1>3. /\ r.main = s.main /\ r.sock = s.sock /\ r.remoteOnline = s.remoteOnline /\ r.dead = s.dead
      /\ r.sigq = s.sigq /\ r.state = s.state /\ r.connectReq = s.connectReq /\ r.pending = s.pending
      /\ r.out = s.out \/ (~s.pending /\ r.out = Append(s.out, m))
  <2>1. CASE s.ready = <<>>
    BY <1>0, <1>1, <2>1 DEF OnCandidatesReady, Mid
  <2>2. CASE s.ready # <<>> /\ s.pending
    BY <1>0, <1>1, <2>2 DEF OnCandidatesReady, Mid
  <2>3. CASE s.ready # <<>> /\ ~s.pending
    BY <1>0, <1>1, <1>m, <2>3 DEF OnCandidatesReady, SendMsg, Mid
  <2> QED BY <2>1, <2>2, <2>3
<1>4. Steady(r, s)
  BY <1>0, <1>3, SteadySame
<1>5. r.out = <<>> \/ (Quiet(r.out) /\ s.state \in Later)
  <2>1. CASE r.out = s.out
    BY <2>1
  <2>2. CASE ~s.pending /\ r.out = Append(s.out, m)
    <3>1. r.out = <<m>> /\ m.type = "transport"
      BY <1>m, <2>2 DEF Msg
    <3>2. Quiet(r.out)
      BY <3>1 DEF Quiet
    <3>3. s.state \in Later
      BY <1>0, <1>1, <2>2 DEF Orderly, States, Idle, Later
    <3> QED BY <3>2, <3>3
  <2> QED BY <1>3, <2>1, <2>2
<1>6. r \in Mid(p)
  BY <1>2, <1>3 DEF Local
<1>7. s.state \notin Idle
  BY <1>1 DEF Orderly
<1> QED BY <1>0, <1>3, <1>4, <1>5, <1>6, <1>7, QuietSteady

\* OnTransportWritable: only the watchdog changes.
LEMMA ArmTurns ==
    ASSUME NEW p, NEW s \in Mid(p), Orderly(s), s.dead = "no", s.out = <<>>, NEW w,
           NEW r \in Mid(p), r = OnTransportWritable([s EXCEPT !.twritable = w])
    PROVE  Turns(p, s, r)
<1>q. PICK q \in Seq(SignalIds) : q = s.sigq
  BY DEF Mid
<1>k. PICK k : k = Without(q, {"TIMEOUT"})
  OBVIOUS
<1>n. PICK n : n = ~w
  OBVIOUS
<1>1. r = [s EXCEPT !.twritable = w, !.timer = n, !.sigq = k]
  BY <1>q, <1>k, <1>n DEF OnTransportWritable, Mid
<1>2. /\ r.main = s.main /\ r.sock = s.sock /\ r.remoteOnline = s.remoteOnline /\ r.dead = s.dead
      /\ r.sigq = k /\ r.state = s.state /\ r.connectReq = s.connectReq /\ r.pending = s.pending
      /\ r.out = s.out
  BY <1>1 DEF Mid
<1>3. Steady(r, s)
  BY <1>2, <1>q, <1>k, CalmClear DEF Steady
<1>4. s.state \in Idle => ~r.connectReq
  BY <1>2 DEF Orderly
<1> QED BY <1>2, <1>3, <1>4, QuietSteady

LEMMA OnTransportWritableTurns ==
    ASSUME NEW p, NEW s, Local(p, s, "CONNECTING"), Orderly(s), s.dead = "no", s.out = <<>>,
           NEW r, r = OnTransportWritable(s)
    PROVE  Turns(p, s, r)
<1>1. r \in Mid(p) /\ s \in Mid(p)
  BY OnTransportWritableKeeps DEF Keeps, Local
<1>w. PICK w : w = s.twritable
  OBVIOUS
<1>2. s = [s EXCEPT !.twritable = w]
  BY <1>1, <1>w DEF Mid
<1> QED BY <1>1, <1>2, ArmTurns

LEMMA OnWritableStateTurns ==
    ASSUME NEW p, NEW s, Local(p, s, "WRITESTATE"), Orderly(s), s.dead = "no", s.out = <<>>,
           NEW r, r = OnChannelWritableState_s(s)
    PROVE  Turns(p, s, r)
<1>1. r \in Mid(p) /\ s \in Mid(p) /\ s.sigq \in Seq(SignalIds)
  BY OnWritableStateKeeps DEF Keeps, Local, Mid
<1>w. PICK w : w = s.writable
  OBVIOUS
<1>2. CASE s.twritable = s.writable
  <2>1. r = s
    BY <1>2 DEF OnChannelWritableState_s
  <2>2. Steady(r, s)
    BY <1>1, <2>1, SteadySame
  <2>3. s.state \in Idle => ~r.connectReq
    BY <2>1 DEF Orderly
  <2> QED BY <1>1, <2>1, <2>2, <2>3, QuietSteady
<1>3. CASE s.twritable # s.writable
  <2>1. r = OnTransportWritable([s EXCEPT !.twritable = w])
    BY <1>3, <1>w DEF OnChannelWritableState_s
  <2> QED BY <1>1, <2>1, ArmTurns
<1> QED BY <1>2, <1>3

\* A step that touches none of what Orderly looks at but posts m.
LEMMA PlainTurns ==
    ASSUME NEW p, NEW s \in Mid(p), Orderly(s), s.dead = "no", s.out = <<>>, NEW r \in Mid(p),
           r.main = s.main, r.sock = s.sock, r.remoteOnline = s.remoteOnline, r.dead = s.dead,
           r.state = s.state, r.connectReq = s.connectReq, r.pending = s.pending, r.out = s.out,
           Calm(r.sigq, s.sigq)
    PROVE  Turns(p, s, r)
<1>1. Steady(r, s)
  BY DEF Steady
<1>2. s.state \in Idle => ~r.connectReq
  BY DEF Orderly
<1> QED BY <1>1, <1>2, QuietSteady

-----------------------------------------------------------------------------
(* Every handler of a posted message, and every step of the worker thread, *)
(* is such a turn.                                                         *)

Acts(p) == \E s : Turns(p, pr[p], s) /\ Become(p, s)

\* Taking the first message leaves the process in order, with one less.
LEMMA TakesOrderly ==
    ASSUME ProberInv, NEW p \in Procs, Alive(p), Orderly(pr[p]), pr[p].sigq # <<>>,
           NEW m, Head(pr[p].sigq) = m, NEW s, s = Takes(p)
    PROVE  /\ Orderly(s) /\ s.dead = "no" /\ s.out = <<>>
           /\ Steady(s, pr[p]) /\ s.state = pr[p].state /\ s.pending = pr[p].pending
           /\ s.connectReq = pr[p].connectReq
           /\ m = "START" => s.sock = "none" /\ Count(s.sigq, "START") = 0
           /\ m = "CREATE_SESSION" => /\ s.main = "on" /\ s.state = "NULL"
                                      /\ Count(s.sigq, "CREATE_SESSION") = 0
           /\ m = "DO_INITIATE" => s.remoteOnline
<1>z. PICK z : z = pr[p]
  OBVIOUS
<1>0. z \in Mid(p) /\ z.dead = "no" /\ z.sigq \in Seq(SignalIds) /\ Orderly(z)
  <2>1. z \in Mid(p) /\ z.dead = "no"
    BY <1>z, AliveLocal
  <2> QED BY <1>z, <2>1 DEF Mid
<1>o. z.out = <<>>
  BY <1>z DEF ProberInv, Process, ProberInit
<1>q. PICK q \in Seq(SignalIds) : q = z.sigq /\ q # <<>> /\ Head(q) = m
  BY <1>0, <1>z
<1>k. PICK k : k = Tail(q)
  OBVIOUS
<1>1. s = [z EXCEPT !.sigq = k, !.io = FALSE]
  BY <1>z, <1>q, <1>k DEF Takes
<1>2. /\ s.main = z.main /\ s.sock = z.sock /\ s.remoteOnline = z.remoteOnline /\ s.dead = z.dead
      /\ s.out = z.out /\ s.state = z.state /\ s.pending = z.pending /\ s.connectReq = z.connectReq
      /\ s.sigq = k
  BY <1>0, <1>1 DEF Mid
<1>3. Calm(k, q) /\ Count(q, m) = Count(k, m) + 1
  BY <1>q, <1>k, CalmTail
<1>4. Steady(s, z)
  BY <1>2, <1>3, <1>q DEF Steady
<1>5. Orderly(s)
  BY <1>0, <1>2, <1>4, SteadyOrderly DEF Orderly
<1>6. Count(k, m) \in Nat /\ Count(z.sigq, m) = Count(k, m) + 1
  BY <1>3, <1>q, <1>k, CountsNat DEF Calm
<1>7. m = "START" => s.sock = "none" /\ Count(s.sigq, "START") = 0
  BY <1>0, <1>2, <1>6 DEF Orderly
<1>8. m = "CREATE_SESSION" => /\ s.main = "on" /\ s.state = "NULL"
                              /\ Count(s.sigq, "CREATE_SESSION") = 0
  BY <1>0, <1>2, <1>6 DEF Orderly
<1>9. m = "DO_INITIATE" => s.remoteOnline
  BY <1>0, <1>2, <1>6 DEF Orderly
<1> QED BY <1>0, <1>o, <1>2, <1>4, <1>5, <1>7, <1>8, <1>9, <1>z

LEMMA TurnsFrom ==
    ASSUME NEW p, NEW z, NEW s, NEW r, Turns(p, s, r), Steady(s, z), s.state = z.state
    PROVE  Turns(p, z, r)
BY DEF Turns, Turn, Steady

LEMMA DeadTurns ==
    ASSUME NEW p, NEW s \in Mid(p), NEW d \in Reasons \ {"no", "assert"}, NEW r,
           r = [s EXCEPT !.dead = d], NEW z
    PROVE  Turns(p, z, r)
<1>1. r \in Mid(p) /\ r.dead = d
  BY DEF Mid
<1> QED BY <1>1 DEF Turns

\* setupTarget touches nothing else.
LEMMA TargetTurns ==
    ASSUME NEW p, NEW z, NEW s, Turns(p, z, s), NEW r, r = setupTarget(s)
    PROVE  Turns(p, z, r)
<1>0. s \in Mid(p) /\ s.targets \in Nat
  BY DEF Turns, Mid
<1>n. PICK n \in Nat : n = s.targets + 1
  BY <1>0
<1>1. r = [s EXCEPT !.targets = n]
  BY <1>n DEF setupTarget
<1>2. r \in Mid(p)
  BY ZenonT(60), <1>0, <1>1 DEF Mid
<1>3. /\ r.main = s.main /\ r.sock = s.sock /\ r.remoteOnline = s.remoteOnline /\ r.dead = s.dead
      /\ r.out = s.out /\ r.state = s.state /\ r.pending = s.pending /\ r.connectReq = s.connectReq
      /\ r.sigq = s.sigq
  BY <1>0, <1>1 DEF Mid
<1>4. Orderly(s) => Orderly(r)
  BY <1>3 DEF Orderly
<1>5. Turn(z, s) => Turn(z, r)
  BY <1>3 DEF Turn
<1> QED BY <1>2, <1>3, <1>4, <1>5 DEF Turns

LEMMA StartActs ==
    ASSUME ProberInv, NEW p \in Procs, Orderly(pr[p]), onStart_w(p)
    PROVE  Acts(p)
<1>s. PICK s : s = Takes(p)
  OBVIOUS
<1>0. Alive(p) /\ pr[p].sigq # <<>> /\ Head(pr[p].sigq) = "START"
  BY DEF onStart_w, Dispatch
<1>1. s \in Mid(p)
  BY <1>0, <1>s, TakesIs
<1>2. /\ Orderly(s) /\ s.dead = "no" /\ s.out = <<>>
      /\ Steady(s, pr[p]) /\ s.state = pr[p].state
      /\ s.sock = "none" /\ Count(s.sigq, "START") = 0
  BY <1>0, <1>s, TakesOrderly
<1>3. Become(p, [s EXCEPT !.sock = "connecting"]) \/ Become(p, Exits(s, "noserver"))
  BY <1>s DEF onStart_w, Dispatch, Takes
<1>4. CASE Become(p, [s EXCEPT !.sock = "connecting"])
  <2>r. PICK r : r = [s EXCEPT !.sock = "connecting"]
    OBVIOUS
  <2>1. r \in Mid(p)
    BY <1>1, <2>r DEF Mid
  <2>2. /\ r.main = s.main /\ r.sock = "connecting" /\ r.remoteOnline = s.remoteOnline /\ r.dead = s.dead
        /\ r.out = s.out /\ r.state = s.state /\ r.pending = s.pending /\ r.connectReq = s.connectReq
        /\ r.sigq = s.sigq
    BY <1>1, <2>r DEF Mid
  <2>3. Orderly(r)
    BY <1>2, <2>2 DEF Orderly
  <2>4. Turn(s, r)
    BY <1>2, <2>2 DEF Turn, Quiet
  <2>5. Turns(p, s, r)
    BY <1>2, <2>1, <2>2, <2>3, <2>4 DEF Turns
  <2> QED BY <1>2, <1>4, <2>r, <2>5, TurnsFrom DEF Acts
<1>5. CASE Become(p, Exits(s, "noserver"))
  <2>r. PICK r : r = [s EXCEPT !.dead = "noserver"]
    OBVIOUS
  <2>1. Turns(p, pr[p], r)
    BY <1>1, <2>r, DeadTurns DEF Reasons
  <2> QED BY <1>5, <2>r, <2>1 DEF Exits, Acts
<1> QED BY <1>3, <1>4, <1>5

LEMMA CreateActs ==
    ASSUME ProberInv, NEW p \in Procs, Orderly(pr[p]), createSession_s(p)
    PROVE  Acts(p)
<1>s. PICK s : s = Takes(p)
  OBVIOUS
<1>0. Alive(p) /\ pr[p].sigq # <<>> /\ Head(pr[p].sigq) = "CREATE_SESSION"
  BY DEF createSession_s, Dispatch
<1>1. s \in Mid(p)
  BY <1>0, <1>s, TakesIs
<1>2. /\ Orderly(s) /\ s.dead = "no" /\ s.out = <<>>
      /\ Steady(s, pr[p]) /\ s.state = pr[p].state
      /\ s.main = "on" /\ s.state = "NULL" /\ Count(s.sigq, "CREATE_SESSION") = 0
  BY <1>0, <1>s, TakesOrderly
<1>r. PICK r : r = [s EXCEPT !.state = "INIT"]
  OBVIOUS
<1>3. Become(p, r)
  BY <1>s, <1>r DEF createSession_s, Dispatch, Takes
<1>4. "INIT" \in States
  BY DEF States
<1>5. r \in Mid(p)
  BY <1>1, <1>4, <1>r DEF Mid
<1>6. /\ r.main = s.main /\ r.sock = s.sock /\ r.remoteOnline = s.remoteOnline /\ r.dead = s.dead
      /\ r.out = s.out /\ r.state = "INIT" /\ r.pending = s.pending /\ r.connectReq = s.connectReq
      /\ r.sigq = s.sigq
  BY <1>1, <1>r DEF Mid
<1>7. Orderly(r)
  BY <1>2, <1>6 DEF Orderly, Idle
<1>8. Turn(s, r)
  BY <1>2, <1>6 DEF Turn
<1>9. Turns(p, s, r)
  BY <1>2, <1>5, <1>6, <1>7, <1>8 DEF Turns
<1> QED BY <1>2, <1>3, <1>9, TurnsFrom DEF Acts

LEMMA DoInitiateActs ==
    ASSUME ProberInv, NEW p \in Procs, Orderly(pr[p]), doInitiate_s(p)
    PROVE  Acts(p)
<1>s. PICK s : s = Takes(p)
  OBVIOUS
<1>0. Alive(p) /\ pr[p].sigq # <<>> /\ Head(pr[p].sigq) = "DO_INITIATE"
  BY DEF doInitiate_s, Dispatch
<1>1. Local(p, s, "DO_INITIATE") /\ s \in Mid(p)
  BY <1>0, <1>s, TakesIs
<1>2. /\ Orderly(s) /\ s.dead = "no" /\ s.out = <<>>
      /\ Steady(s, pr[p]) /\ s.state = pr[p].state /\ s.remoteOnline
  BY <1>0, <1>s, TakesOrderly
<1>3. Become(p, IF s.state = "NULL" THEN Exits(s, "nullsession") ELSE setupTarget(Initiate(s)))
  BY <1>s DEF doInitiate_s, Dispatch, Takes
<1>4. CASE s.state = "NULL"
  <2>r. PICK r : r = [s EXCEPT !.dead = "nullsession"]
    OBVIOUS
  <2>1. Turns(p, pr[p], r)
    BY <1>1, <2>r, DeadTurns DEF Reasons
  <2> QED BY <1>3, <1>4, <2>r, <2>1 DEF Exits, Acts
<1>5. CASE s.state # "NULL"
  <2>i. PICK i : i = Initiate(s)
    OBVIOUS
  <2>r. PICK r : r = setupTarget(i)
    OBVIOUS
  <2>1. Turns(p, s, i)
    BY <1>1, <1>2, <1>5, <2>i, InitiateTurns
  <2>2. Turns(p, pr[p], r)
    BY <1>2, <2>1, <2>r, TurnsFrom, TargetTurns
  <2> QED BY <1>3, <1>5, <2>i, <2>r, <2>2 DEF Acts
<1> QED BY <1>4, <1>5

LEMMA DoAcceptActs ==
    ASSUME ProberInv, NEW p \in Procs, Orderly(pr[p]), doAccept_s(p)
    PROVE  Acts(p)
<1>s. PICK s : s = Takes(p)
  OBVIOUS
<1>0. Alive(p) /\ pr[p].sigq # <<>> /\ Head(pr[p].sigq) = "DO_ACCEPT"
  BY DEF doAccept_s, Dispatch
<1>1. Local(p, s, "DO_ACCEPT")
  BY <1>0, <1>s, TakesIs
<1>2. /\ Orderly(s) /\ s.dead = "no" /\ s.out = <<>>
      /\ Steady(s, pr[p]) /\ s.state = pr[p].state
  BY <1>0, <1>s, TakesOrderly
<1>i. PICK i : i = Accept(s)
  OBVIOUS
<1>r. PICK r : r = setupTarget(i)
  OBVIOUS
<1>3. Become(p, r)
  BY <1>s, <1>i, <1>r DEF doAccept_s, Dispatch, Takes
<1>4. Turns(p, s, i)
  BY <1>1, <1>2, <1>i, AcceptTurns
<1>5. Turns(p, pr[p], r)
  BY <1>2, <1>4, <1>r, TurnsFrom, TargetTurns
<1> QED BY <1>3, <1>5 DEF Acts

LEMMA StateMsgActs ==
    ASSUME ProberInv, NEW p \in Procs, Orderly(pr[p]), StateMsg(p)
    PROVE  Acts(p)
<1>s. PICK s : s = Takes(p)
  OBVIOUS
<1>0. Alive(p) /\ pr[p].sigq # <<>> /\ Head(pr[p].sigq) = "STATE"
  BY DEF StateMsg, Dispatch
<1>1. Local(p, s, "STATE")
  BY <1>0, <1>s, TakesIs
<1>2. /\ Orderly(s) /\ s.dead = "no" /\ s.out = <<>>
      /\ Steady(s, pr[p]) /\ s.state = pr[p].state
  BY <1>0, <1>s, TakesOrderly
<1>r. PICK r : r = OnState(s)
  OBVIOUS
<1>3. Become(p, r)
  BY <1>s, <1>r DEF StateMsg, Dispatch, Takes
<1>4. Turns(p, s, r)
  BY <1>1, <1>2, <1>r, OnStateTurns
<1> QED BY <1>2, <1>3, <1>4, TurnsFrom DEF Acts

LEMMA CandidateMsgActs ==
    ASSUME ProberInv, NEW p \in Procs, Orderly(pr[p]), CandidateReadyMsg(p)
    PROVE  Acts(p)
<1>s. PICK s : s = Takes(p)
  OBVIOUS
<1>0. Alive(p) /\ pr[p].sigq # <<>> /\ Head(pr[p].sigq) = "CANDIDATEREADY"
  BY DEF CandidateReadyMsg, Dispatch
<1>1. Local(p, s, "CANDIDATEREADY")
  BY <1>0, <1>s, TakesIs
<1>2. /\ Orderly(s) /\ s.dead = "no" /\ s.out = <<>>
      /\ Steady(s, pr[p]) /\ s.state = pr[p].state
  BY <1>0, <1>s, TakesOrderly
<1>r. PICK r : r = OnCandidatesReady(s)
  OBVIOUS
<1>3. Become(p, r)
  BY <1>s, <1>r DEF CandidateReadyMsg, Dispatch, Takes
<1>4. Turns(p, s, r)
  BY <1>1, <1>2, <1>r, OnCandidatesReadyTurns
<1> QED BY <1>2, <1>3, <1>4, TurnsFrom DEF Acts

LEMMA ConnectingMsgActs ==
    ASSUME ProberInv, NEW p \in Procs, Orderly(pr[p]), ConnectingMsg(p)
    PROVE  Acts(p)
<1>s. PICK s : s = Takes(p)
  OBVIOUS
<1>0. Alive(p) /\ pr[p].sigq # <<>> /\ Head(pr[p].sigq) = "CONNECTING"
  BY DEF ConnectingMsg, Dispatch
<1>1. Local(p, s, "CONNECTING")
  BY <1>0, <1>s, TakesIs
<1>2. /\ Orderly(s) /\ s.dead = "no" /\ s.out = <<>>
      /\ Steady(s, pr[p]) /\ s.state = pr[p].state
  BY <1>0, <1>s, TakesOrderly
<1>r. PICK r : r = OnTransportWritable(s)
  OBVIOUS
<1>3. Become(p, r)
  BY <1>s, <1>r DEF ConnectingMsg, Dispatch, Takes
<1>4. Turns(p, s, r)
  BY <1>1, <1>2, <1>r, OnTransportWritableTurns
<1> QED BY <1>2, <1>3, <1>4, TurnsFrom DEF Acts

LEMMA WriteStateMsgActs ==
    ASSUME ProberInv, NEW p \in Procs, Orderly(pr[p]), WriteStateMsg(p)
    PROVE  Acts(p)
<1>s. PICK s : s = Takes(p)
  OBVIOUS
<1>0. Alive(p) /\ pr[p].sigq # <<>> /\ Head(pr[p].sigq) = "WRITESTATE"
  BY DEF WriteStateMsg, Dispatch
<1>1. Local(p, s, "WRITESTATE")
  BY <1>0, <1>s, TakesIs
<1>2. /\ Orderly(s) /\ s.dead = "no" /\ s.out = <<>>
      /\ Steady(s, pr[p]) /\ s.state = pr[p].state
  BY <1>0, <1>s, TakesOrderly
<1>r. PICK r : r = OnChannelWritableState_s(s)
  OBVIOUS
<1>3. Become(p, r)
  BY <1>s, <1>r DEF WriteStateMsg, Dispatch, Takes
<1>4. Turns(p, s, r)
  BY <1>1, <1>2, <1>r, OnWritableStateTurns
<1> QED BY <1>2, <1>3, <1>4, TurnsFrom DEF Acts

LEMMA RequestMsgActs ==
    ASSUME ProberInv, NEW p \in Procs, Orderly(pr[p]), RequestSignalingMsg(p)
    PROVE  Acts(p)
<1>s. PICK s : s = Takes(p)
  OBVIOUS
<1>0. Alive(p) /\ pr[p].sigq # <<>> /\ Head(pr[p].sigq) = "REQUESTSIGNALING"
  BY DEF RequestSignalingMsg, Dispatch
<1>1. Local(p, s, "REQUESTSIGNALING") /\ s \in Mid(p)
  BY <1>0, <1>s, TakesIs
<1>2. /\ Orderly(s) /\ s.dead = "no" /\ s.out = <<>>
      /\ Steady(s, pr[p]) /\ s.state = pr[p].state
  BY <1>0, <1>s, TakesOrderly
<1>r. PICK r : r = OnSignalingReady(s)
  OBVIOUS
<1>3. Become(p, r)
  BY <1>s, <1>r DEF RequestSignalingMsg, Dispatch, Takes
<1>4. /\ r.main = s.main /\ r.sock = s.sock /\ r.remoteOnline = s.remoteOnline /\ r.dead = s.dead
      /\ r.state = s.state /\ r.connectReq = s.connectReq /\ r.pending = s.pending /\ r.out = s.out
      /\ r.sigq = s.sigq
  BY <1>1, <1>r DEF OnSignalingReady, Mid
<1>5. Calm(r.sigq, s.sigq)
  BY <1>1, <1>4, CalmSame DEF Mid
<1>6. r \in Mid(p)
  BY <1>1, <1>2, <1>4, <1>r, OnSignalingReadyKeeps DEF Keeps
<1>7. Turns(p, s, r)
  BY <1>1, <1>2, <1>4, <1>5, <1>6, PlainTurns
<1> QED BY <1>2, <1>3, <1>7, TurnsFrom DEF Acts

LEMMA SessionTimeoutActs ==
    ASSUME ProberInv, NEW p \in Procs, onSessionTimeout(p)
    PROVE  Acts(p)
<1>s. PICK s : s = Takes(p)
  OBVIOUS
<1>0. Alive(p) /\ pr[p].sigq # <<>> /\ Head(pr[p].sigq) = "TIMEOUT"
  BY DEF onSessionTimeout, Dispatch
<1>1. s \in Mid(p)
  BY <1>0, <1>s, TakesIs
<1>r. PICK r : r = [s EXCEPT !.dead = "timeout"]
  OBVIOUS
<1>2. Become(p, r)
  BY <1>s, <1>r DEF onSessionTimeout, Dispatch, Takes, Exits
<1>3. Turns(p, pr[p], r)
  BY <1>1, <1>r, DeadTurns DEF Reasons
<1> QED BY <1>2, <1>3 DEF Acts

\* A process between two handlers.
LEMMA AliveOrderly ==
    ASSUME ProberInv, NEW p \in Procs, Alive(p), NEW z, z = pr[p]
    PROVE  Local(p, z, "none") /\ z \in Mid(p) /\ z.dead = "no" /\ z.out = <<>> /\ z.sigq \in Seq(SignalIds)
<1>1. Local(p, z, "none") /\ z \in Mid(p) /\ z.dead = "no"
  BY AliveLocal
<1>2. z.out = <<>>
  BY DEF ProberInv, Process, ProberInit
<1> QED BY <1>1, <1>2 DEF Mid

LEMMA LoginActs ==
    ASSUME ProberInv, NEW p \in Procs, Login(p)
    PROVE  Acts(p)
<1>0. pr[p].main = "off" /\ Process(p, pr[p])
  BY DEF Login, ProberInv
<1>1. pr[p] = ProberInit
  <2>1. pr[p] \in Mid(p) => pr[p].main # "off"
    BY DEF Mid
  <2> QED BY <1>0, <2>1 DEF Process, Keeps
<1>s. PICK s : s = [main |-> "login", sock |-> "none", dead |-> "no", io |-> FALSE,
     remoteOnline |-> FALSE, targets |-> 0,
     state |-> "NULL", pending |-> FALSE, timer |-> FALSE, out |-> <<>>,
     proxy |-> "INIT", connectReq |-> FALSE, ready |-> <<>>, unsent |-> <<>>,
     twritable |-> FALSE, writable |-> FALSE, waiting |-> FALSE,
     session |-> FALSE, remote |-> <<>>, got |-> <<>>,
     made |-> 0, allocs |-> 0, flips |-> 0,
     sigq |-> <<"START">>, wq |-> <<>>]
  OBVIOUS
<1>2. Become(p, s)
  <2>u. PICK u : u = [ProberInit EXCEPT !.main = "login", !.sigq = <<"START">>]
    OBVIOUS
  <2>2. u = [main |-> "login", sock |-> "none", dead |-> "no", io |-> FALSE,
     remoteOnline |-> FALSE, targets |-> 0,
     state |-> "NULL", pending |-> FALSE, timer |-> FALSE, out |-> <<>>,
     proxy |-> "INIT", connectReq |-> FALSE, ready |-> <<>>, unsent |-> <<>>,
     twritable |-> FALSE, writable |-> FALSE, waiting |-> FALSE,
     session |-> FALSE, remote |-> <<>>, got |-> <<>>,
     made |-> 0, allocs |-> 0, flips |-> 0,
     sigq |-> <<"START">>, wq |-> <<>>]
    BY <2>u DEF ProberInit
  <2>1. s = [ProberInit EXCEPT !.main = "login", !.sigq = <<"START">>]
    BY <1>s, <2>u, <2>2
  <2> QED BY <1>1, <2>1 DEF Login
<1>3. /\ 0 \in 0 .. MaxCand[p] /\ 0 \in 0 .. MaxAlloc[p] /\ 0 \in 0 .. MaxFlips[p]
      /\ <<>> \in Seq(Candidates) /\ <<>> \in Seq(Seq(Candidates)) /\ <<>> \in Seq(Msgs) /\ <<>> \in Seq(WorkMsgs)
  BY ProberAssumption
<1>4. <<"START">> \in Seq(SignalIds) /\ "NULL" \in States /\ "no" \in Reasons
  <2>1. "START" \in SignalIds
    BY DEF SignalIds
  <2> QED BY <2>1 DEF States, Reasons
<1>5. s \in Mid(p)
  BY <1>s, <1>3, <1>4 DEF Mid
<1>q. PICK q \in Seq(SignalIds) : q = <<"START">>
  BY <1>4
<1>6. \A x : x # "START" => Count(q, x) = 0
  <2>1. SUFFICES ASSUME NEW x, x # "START" PROVE CountOf(q, {x}) = 0
    BY DEF Count
  <2>2. \A i \in DOMAIN q : q[i] \notin {x}
    BY <1>q, <2>1
  <2> QED BY <2>2, CountZero
<1>7. Count(q, "START") = 1
  <2>1. q # <<>> /\ Head(q) = "START" /\ <<>> = Tail(q)
    BY <1>q
  <2>2. Count(q, "START") = Count(<<>>, "START") + 1
    BY <2>1, CalmTail
  <2>3. Count(<<>>, "START") = 0
    BY CountEmpty DEF Count
  <2> QED BY <2>2, <2>3
<1>8. Orderly(s)
  <2>1. s.sigq = q
    BY <1>s, <1>q
  <2>2. /\ Count(s.sigq, "START") <= 1 /\ Count(s.sigq, "CREATE_SESSION") = 0
        /\ Count(s.sigq, "DO_INITIATE") = 0
    BY <2>1, <1>6, <1>7
  <2>3. /\ s.sock = "none" /\ s.main = "login" /\ s.state = "NULL" /\ ~s.connectReq
    BY <1>s
  <2> QED BY <2>2, <2>3 DEF Orderly
<1>z. PICK z : z = [main |-> "off", sock |-> "none", dead |-> "no", io |-> FALSE,
     remoteOnline |-> FALSE, targets |-> 0,
     state |-> "NULL", pending |-> FALSE, timer |-> FALSE, out |-> <<>>,
     proxy |-> "INIT", connectReq |-> FALSE, ready |-> <<>>, unsent |-> <<>>,
     twritable |-> FALSE, writable |-> FALSE, waiting |-> FALSE,
     session |-> FALSE, remote |-> <<>>, got |-> <<>>,
     made |-> 0, allocs |-> 0, flips |-> 0,
     sigq |-> <<>>, wq |-> <<>>]
  OBVIOUS
<1>9. pr[p] = z
  BY <1>1, <1>z DEF ProberInit
<1>10. Turn(z, s)
  BY <1>s, <1>z DEF Turn, Quiet
<1>11. Turns(p, z, s)
  <2>1. /\ s.dead = "no" /\ s.remoteOnline = z.remoteOnline /\ s.sock = "none" /\ z.sock = "none"
    BY <1>s, <1>z
  <2> QED BY <1>5, <1>8, <1>10, <2>1 DEF Turns
<1> QED BY <1>2, <1>9, <1>11 DEF Acts

\* Posting a message.
OneMore(k, q, m) ==
    Count(k, m) = Count(q, m) + 1 /\ \A x : x # m => Count(k, x) = Count(q, x)

LEMMA CountPost ==
    ASSUME NEW q \in Seq(SignalIds), NEW m \in SignalIds
    PROVE  OneMore(Append(q, m), q, m)
<1>k. PICK k : k = Append(q, m)
  OBVIOUS
<1>1. Count(k, m) = Count(q, m) + 1
  BY <1>k, CountAppend DEF Count
<1>2. ASSUME NEW x, x # m PROVE Count(k, x) = Count(q, x)
  <2>1. Count(q, x) \in Nat
    BY CountsNat
  <2> QED BY <1>2, <1>k, <2>1, CountAppend DEF Count
<1> QED BY <1>1, <1>2, <1>k DEF OneMore

LEMMA PostCreateActs ==
    ASSUME ProberInv, NEW p \in Procs, Orderly(pr[p]), PostCreateSession(p)
    PROVE  Acts(p)
<1>z. PICK z : z = pr[p]
  OBVIOUS
<1>1. z \in Mid(p) /\ z.dead = "no" /\ z.out = <<>> /\ z.sigq \in Seq(SignalIds) /\ Orderly(z)
  BY <1>z, AliveOrderly DEF PostCreateSession
<1>q. PICK q \in Seq(SignalIds) : q = z.sigq
  BY <1>1
<1>c. "CREATE_SESSION" \in SignalIds
  BY DEF SignalIds
<1>2. Append(q, "CREATE_SESSION") \in Seq(SignalIds)
  BY <1>c
<1>k. PICK k \in Seq(SignalIds) : k = Append(q, "CREATE_SESSION")
  BY <1>2
<1>s. PICK s : s = [z EXCEPT !.main = "on", !.sigq = k]
  OBVIOUS
<1>3. Become(p, s) /\ z.main = "login"
  BY <1>z, <1>q, <1>k, <1>s DEF PostCreateSession
<1>4. s \in Mid(p)
  BY <1>1, <1>s DEF Mid
<1>5. /\ s.main = "on" /\ s.sock = z.sock /\ s.remoteOnline = z.remoteOnline /\ s.dead = z.dead
      /\ s.out = z.out /\ s.state = z.state /\ s.pending = z.pending /\ s.connectReq = z.connectReq
      /\ s.sigq = k
  BY <1>1, <1>s DEF Mid
<1>6. /\ Count(k, "START") = Count(q, "START") /\ Count(k, "DO_INITIATE") = Count(q, "DO_INITIATE")
      /\ Count(k, "CREATE_SESSION") = Count(q, "CREATE_SESSION") + 1
      /\ Count(q, "CREATE_SESSION") \in Nat
  <2>1. Count(q, "CREATE_SESSION") \in Nat
    BY CountsNat
  <2>2. /\ Count(k, "CREATE_SESSION") = Count(q, "CREATE_SESSION") + 1
        /\ \A x : x # "CREATE_SESSION" => Count(k, x) = Count(q, x)
    <3>1. OneMore(k, q, "CREATE_SESSION")
      BY <1>c, <1>k, CountPost
    <3> QED BY <3>1 DEF OneMore
  <2> QED BY <2>1, <2>2
<1>7. Orderly(s)
  BY <1>1, <1>3, <1>5, <1>6, <1>q DEF Orderly
<1>8. Turn(z, s)
  BY <1>1, <1>5 DEF Turn, Quiet
<1>9. Turns(p, z, s)
  BY <1>1, <1>4, <1>5, <1>7, <1>8 DEF Turns
<1> QED BY <1>3, <1>9, <1>z DEF Acts

LEMMA TimeoutDueActs ==
    ASSUME ProberInv, NEW p \in Procs, Orderly(pr[p]), TimeoutDue(p)
    PROVE  Acts(p)
<1>z. PICK z : z = pr[p]
  OBVIOUS
<1>1. /\ z \in Mid(p) /\ z.dead = "no" /\ z.out = <<>> /\ z.sigq \in Seq(SignalIds) /\ Orderly(z)
      /\ Local(p, z, "none")
  BY <1>z, AliveOrderly DEF TimeoutDue
<1>r. PICK r : r = [z EXCEPT !.timer = FALSE, !.sigq = Append(@, "TIMEOUT")]
  OBVIOUS
<1>2. Become(p, r) /\ z.timer
  BY <1>z, <1>r DEF TimeoutDue
<1>3. r \in Mid(p)
  BY <1>1, <1>2, <1>r, TimeoutKeeps DEF Keeps
<1>4. /\ r.main = z.main /\ r.sock = z.sock /\ r.remoteOnline = z.remoteOnline /\ r.dead = z.dead
      /\ r.state = z.state /\ r.connectReq = z.connectReq /\ r.pending = z.pending /\ r.out = z.out
      /\ r.sigq = Append(z.sigq, "TIMEOUT")
  BY <1>1, <1>r DEF Mid
<1>5. Calm(r.sigq, z.sigq)
  <2>1. "TIMEOUT" \in SignalIds \ MainMsgs
    BY DEF SignalIds, MainMsgs
  <2> QED BY <1>1, <1>4, <2>1, CalmPost
<1>6. Turns(p, z, r)
  BY <1>1, <1>3, <1>4, <1>5, PlainTurns
<1> QED BY <1>2, <1>6, <1>z DEF Acts

\* The worker thread.
LEMMA WorkerActs ==
    ASSUME ProberInv, NEW p \in Procs, Orderly(pr[p]),
           WorkerMsg(p) \/ Gather(p) \/ Flip(p) \/ Reallocate(p)
    PROVE  Acts(p)
<1>s. PICK s : s = pr[p]
  OBVIOUS
<1>0. Alive(p)
  BY DEF WorkerMsg, SignalingReadyMsg, RemoteCandidateMsg, Works, Gather, Flip, Reallocate
<1>1. /\ Local(p, s, "none") /\ s \in Mid(p) /\ s.dead = "no" /\ s.out = <<>>
      /\ s.sigq \in Seq(SignalIds) /\ Orderly(s)
  BY <1>0, <1>s, AliveOrderly
<1>m. {"CANDIDATEREADY", "REQUESTSIGNALING", "WRITESTATE"} \subseteq SignalIds \ MainMsgs
  BY DEF SignalIds, MainMsgs
<1>c. Calm(s.sigq, s.sigq) /\ \A m \in {"CANDIDATEREADY", "REQUESTSIGNALING", "WRITESTATE"} :
                                Calm(Append(s.sigq, m), s.sigq)
  BY <1>1, <1>m, CalmSame, CalmPost
<1>2. CASE SignalingReadyMsg(p)
  <2>r. PICK r : r = OnSignalingReady_w([s EXCEPT !.wq = Tail(@)])
    OBVIOUS
  <2>1. Become(p, r) /\ s.wq # <<>> /\ Head(s.wq).id = "ONSIGNALINGREADY"
    BY <1>2, <1>s, <2>r DEF SignalingReadyMsg, Works
  <2>2. r \in Mid(p)
    BY <1>1, <2>1, <2>r, SignalingReadyKeeps DEF Keeps
  <2>3. /\ r.main = s.main /\ r.sock = s.sock /\ r.remoteOnline = s.remoteOnline /\ r.dead = s.dead
        /\ r.state = s.state /\ r.connectReq = s.connectReq /\ r.pending = s.pending /\ r.out = s.out
        /\ r.sigq = s.sigq
    BY <1>1, <2>r DEF OnSignalingReady_w, Mid
  <2>4. Turns(p, s, r)
    BY <1>1, <1>c, <2>2, <2>3, PlainTurns
  <2> QED BY <2>1, <2>4, <1>s DEF Acts
<1>3. CASE RemoteCandidateMsg(p)
  <2>r. PICK r : r = OnRemoteCandidate_w([s EXCEPT !.wq = Tail(@)], Head(s.wq).cand)
    OBVIOUS
  <2>1. Become(p, r) /\ s.wq # <<>> /\ Head(s.wq).id = "ONREMOTECANDIDATE"
    BY <1>3, <1>s, <2>r DEF RemoteCandidateMsg, Works
  <2>2. r \in Mid(p)
    BY <1>1, <2>1, <2>r, RemoteCandidateKeeps DEF Keeps
  <2>3. /\ r.main = s.main /\ r.sock = s.sock /\ r.remoteOnline = s.remoteOnline /\ r.dead = s.dead
        /\ r.state = s.state /\ r.connectReq = s.connectReq /\ r.pending = s.pending /\ r.out = s.out
        /\ r.sigq = s.sigq
    BY <1>1, <2>r DEF OnRemoteCandidate_w, Mid
  <2>4. Turns(p, s, r)
    BY <1>1, <1>c, <2>2, <2>3, PlainTurns
  <2> QED BY <2>1, <2>4, <1>s DEF Acts
<1>4. CASE Gather(p)
  <2>r. PICK r : r = [OnChannelCandidateReady(s, <<p, s.made + 1>>) EXCEPT !.made = @ + 1]
    OBVIOUS
  <2>1. Become(p, r) /\ s.session /\ s.made < MaxCand[p]
    BY <1>4, <1>s, <2>r DEF Gather
  <2>2. r \in Mid(p)
    BY <1>1, <2>1, <2>r, GatherKeeps DEF Keeps
  <2>3. /\ r.main = s.main /\ r.sock = s.sock /\ r.remoteOnline = s.remoteOnline /\ r.dead = s.dead
        /\ r.state = s.state /\ r.connectReq = s.connectReq /\ r.pending = s.pending /\ r.out = s.out
        /\ r.sigq = s.sigq \/ r.sigq = Append(s.sigq, "CANDIDATEREADY")
    BY <1>1, <2>r DEF OnChannelCandidateReady, Mid
  <2>4. Calm(r.sigq, s.sigq)
    BY <1>c, <2>3
  <2>5. Turns(p, s, r)
    BY <1>1, <2>2, <2>3, <2>4, PlainTurns
  <2> QED BY <2>1, <2>5, <1>s DEF Acts
<1>5. CASE Flip(p)
  <2>r. PICK r : r = [(IF s.writable THEN BecomeUnwritable(s) ELSE BecomeWritable(s))
                         EXCEPT !.flips = @ + 1]
    OBVIOUS
  <2>1. Become(p, r) /\ s.remote # <<>> /\ s.flips < MaxFlips[p]
    BY <1>5, <1>s, <2>r DEF Flip
  <2>2. r \in Mid(p)
    BY <1>1, <2>1, <2>r, FlipKeeps DEF Keeps
  <2>k. PICK k : k = Append(s.sigq, "REQUESTSIGNALING")
    OBVIOUS
  <2>3. /\ r.main = s.main /\ r.sock = s.sock /\ r.remoteOnline = s.remoteOnline /\ r.dead = s.dead
        /\ r.state = s.state /\ r.connectReq = s.connectReq /\ r.pending = s.pending /\ r.out = s.out
        /\ r.sigq = Append(s.sigq, "WRITESTATE") \/ r.sigq = Append(k, "WRITESTATE")
    <3>1. CASE s.writable
      BY <1>1, <2>r, <2>k, <3>1 DEF BecomeUnwritable, Allocate, Mid
    <3>2. CASE ~s.writable
      BY <1>1, <2>r, <3>2 DEF BecomeWritable, Mid
    <3> QED BY <3>1, <3>2
  <2>4. Calm(r.sigq, s.sigq)
    <3>1. Calm(k, s.sigq) /\ k \in Seq(SignalIds)
      BY <1>c, <2>k DEF Calm
    <3>2. Calm(Append(k, "WRITESTATE"), k)
      BY <1>m, <3>1, CalmPost
    <3>3. Calm(Append(k, "WRITESTATE"), s.sigq)
      BY <3>1, <3>2, CalmTrans
    <3> QED BY <1>c, <2>3, <3>3
  <2>5. Turns(p, s, r)
    BY <1>1, <2>2, <2>3, <2>4, PlainTurns
  <2> QED BY <2>1, <2>5, <1>s DEF Acts
<1>6. CASE Reallocate(p)
  <2>r. PICK r : r = [Allocate(s) EXCEPT !.allocs = @ + 1]
    OBVIOUS
  <2>1. Become(p, r) /\ s.session /\ s.allocs < MaxAlloc[p]
    BY <1>6, <1>s, <2>r DEF Reallocate
  <2>2. r \in Mid(p)
    BY <1>1, <2>1, <2>r, ReallocateKeeps DEF Keeps
  <2>3. /\ r.main = s.main /\ r.sock = s.sock /\ r.remoteOnline = s.remoteOnline /\ r.dead = s.dead
        /\ r.state = s.state /\ r.connectReq = s.connectReq /\ r.pending = s.pending /\ r.out = s.out
        /\ r.sigq = Append(s.sigq, "REQUESTSIGNALING")
    BY <1>1, <2>r DEF Allocate, Mid
  <2>4. Calm(r.sigq, s.sigq)
    BY <1>c, <2>3
  <2>5. Turns(p, s, r)
    BY <1>1, <2>2, <2>3, <2>4, PlainTurns
  <2> QED BY <2>1, <2>5, <1>s DEF Acts
<1> QED BY <1>2, <1>3, <1>4, <1>5, <1>6 DEF WorkerMsg

-----------------------------------------------------------------------------
(* Reading a message of the partner.                                       *)

\* The state s expects a message of type t.
Fits(s, t) ==
    /\ t = "initiate" => s.state = "INIT"
    /\ t = "accept" => s.state = "SENTINITIATE"
    /\ t = "transport" => s.state \in Later \cup {"RECEIVEDINITIATE"}

\* What the handler of such a message leaves.
Hears(p, s, t, r) ==
    /\ r \in Mid(p) /\ r.dead = "no" /\ Orderly(r)
    /\ r.remoteOnline = s.remoteOnline /\ r.sock = s.sock
    /\ \/ t = "initiate" /\ r.state = "RECEIVEDINITIATE" /\ r.out = <<>>
       \/ t = "accept" /\ r.state = "RECEIVEDACCEPT" /\ Quiet(r.out)
       \/ t = "transport" /\ r.state = s.state /\ r.out = <<>>

LEMMA OnInitiateHears ==
    ASSUME NEW p, NEW s, Local(p, s, "none"), Orderly(s), s.dead = "no", s.out = <<>>,
           Fits(s, "initiate"), NEW r, r = OnInitiateMessage(s)
    PROVE  Hears(p, s, "initiate", r)
<1>0. s \in Mid(p) /\ s.state = "INIT"
  BY DEF Local, Fits
<1>a. PICK a : a = CreateTransportProxies(s)
  OBVIOUS
<1>b. PICK b : b = SetState(a, "RECEIVEDINITIATE")
  OBVIOUS
<1>1. r = CompleteNegotiation(b)
  BY <1>0, <1>a, <1>b DEF OnInitiateMessage, CheckState
<1>2. Local(p, a, "none") /\ a \in Mid(p)
  BY <1>a, ProxiesKeep DEF Local
<1>3. "RECEIVEDINITIATE" \in States
  BY DEF States
<1>4. Local(p, b, "none") /\ b \in Mid(p)
  BY <1>2, <1>3, <1>b, SetStateKeeps DEF Local
<1>5. r \in Mid(p)
  BY <1>1, <1>4, CompleteKeeps DEF Local
<1>6. Steady(a, s) /\ a.out = s.out /\ a.pending
  BY <1>0, <1>a, ProxiesSteady
<1>7. Steady(b, a) /\ b.state = "RECEIVEDINITIATE" /\ b.out = a.out /\ b.pending = a.pending
  BY <1>2, <1>3, <1>b, SetStateSteady
<1>8. Steady(r, b) /\ r.state = b.state /\ r.out = b.out /\ r.pending = b.pending
  BY <1>1, <1>4, CompleteSteady
<1>9. Steady(r, s)
  <2>1. Steady(b, s)
    BY <1>6, <1>7, SteadyTrans
  <2> QED BY <1>8, <2>1, SteadyTrans
<1>10. Orderly(r)
  BY <1>0, <1>6, <1>7, <1>8, <1>9, SteadyOrderly DEF Idle
<1> QED BY <1>5, <1>6, <1>7, <1>8, <1>9, <1>10 DEF Hears, Steady

LEMMA OnAcceptHears ==
    ASSUME NEW p, NEW s, Local(p, s, "none"), Orderly(s), s.dead = "no", s.out = <<>>,
           Fits(s, "accept"), NEW r, r = OnAcceptMessage(s)
    PROVE  Hears(p, s, "accept", r)
<1>0. s \in Mid(p) /\ s.state = "SENTINITIATE"
  BY DEF Local, Fits
<1>a. PICK a : a = SendAllUnsentTransportInfoMessages(s)
  OBVIOUS
<1>b. PICK b : b = SetState(a, "RECEIVEDACCEPT")
  OBVIOUS
<1>1. r = CompleteNegotiation(b)
  BY <1>0, <1>a, <1>b DEF OnAcceptMessage, CheckState
<1>2. Local(p, a, "none") /\ a \in Mid(p)
  BY <1>a, FlushKeeps DEF Local
<1>3. "RECEIVEDACCEPT" \in States
  BY DEF States
<1>4. Local(p, b, "none") /\ b \in Mid(p)
  BY <1>2, <1>3, <1>b, SetStateKeeps DEF Local
<1>5. r \in Mid(p)
  BY <1>1, <1>4, CompleteKeeps DEF Local
<1>6. /\ Steady(a, s)
      /\ \/ a.out = s.out
         \/ \E m \in Msgs : m.type = "transport" /\ a.out = Append(s.out, m)
  BY <1>0, <1>a, FlushSteady
<1>7. Steady(b, a) /\ b.state = "RECEIVEDACCEPT" /\ b.out = a.out
  BY <1>2, <1>3, <1>b, SetStateSteady
<1>8. Steady(r, b) /\ r.state = b.state /\ r.out = b.out
  BY <1>1, <1>4, CompleteSteady
<1>9. Steady(r, s)
  <2>1. Steady(b, s)
    BY <1>6, <1>7, SteadyTrans
  <2> QED BY <1>8, <2>1, SteadyTrans
<1>10. Orderly(r)
  BY <1>0, <1>7, <1>8, <1>9, SteadyOrderly DEF Idle
<1>11. Quiet(r.out)
  <2>1. CASE a.out = s.out
    BY <1>7, <1>8, <2>1 DEF Quiet
  <2>2. CASE \E m \in Msgs : m.type = "transport" /\ a.out = Append(s.out, m)
    <3>m. PICK m \in Msgs : m.type = "transport" /\ a.out = Append(s.out, m)
      BY <2>2
    <3>1. a.out = <<m>>
      BY <3>m
    <3> QED BY <1>7, <1>8, <3>m, <3>1 DEF Quiet
  <2> QED BY <1>6, <2>1, <2>2
<1> QED BY <1>5, <1>7, <1>8, <1>9, <1>10, <1>11 DEF Hears, Steady

LEMMA OnTransportHears ==
    ASSUME NEW p, NEW s, Local(p, s, "none"), Orderly(s), s.dead = "no", s.out = <<>>,
           Fits(s, "transport"), NEW cands \in Seq(Candidates),
           NEW r, r = OnTransportInfoMessage(s, cands)
    PROVE  Hears(p, s, "transport", r)
<1>0. s \in Mid(p) /\ s.state \in Later \cup {"RECEIVEDINITIATE"}
  BY DEF Local, Fits
<1>n. PICK n : n = Noted(s, cands)
  OBVIOUS
<1>a. PICK a : a = CompleteNegotiation(n)
  OBVIOUS
<1>k. PICK k : k = a.wq \o [i \in DOMAIN cands |-> CandidateMsg(cands[i])]
  OBVIOUS
<1>1. r = [a EXCEPT !.wq = k] \/ r = a
  BY <1>n, <1>a, <1>k, OnTransportInfoCases DEF OnRemoteCandidates
<1>l. Local(p, n, "none") /\ n \in Mid(p)
  BY <1>n, NotedKeeps DEF Local
<1>2. Local(p, a, "none") /\ a \in Mid(p)
  BY <1>l, <1>a, CompleteKeeps DEF Local
<1>3. r \in Mid(p)
  BY OnTransportInfoKeeps DEF Keeps
<1>4. Steady(a, s) /\ a.state = s.state /\ a.out = s.out /\ a.pending = s.pending
  <2>1. Steady(a, n) /\ a.state = n.state /\ a.out = n.out /\ a.pending = n.pending
    BY <1>l, <1>a, CompleteSteady
  <2>2. /\ n.main = s.main /\ n.sock = s.sock /\ n.remoteOnline = s.remoteOnline /\ n.dead = s.dead
        /\ n.sigq = s.sigq /\ n.state = s.state /\ n.out = s.out /\ n.pending = s.pending
        /\ n.sigq \in Seq(SignalIds)
    BY <1>0, <1>n DEF Noted, Mid
  <2>3. Steady(n, s)
    BY <2>2, SteadySame
  <2> QED BY <2>1, <2>2, <2>3, SteadyTrans
<1>5. /\ r.main = a.main /\ r.sock = a.sock /\ r.remoteOnline = a.remoteOnline /\ r.dead = a.dead
      /\ r.sigq = a.sigq /\ r.state = a.state /\ r.out = a.out /\ r.pending = a.pending
      /\ r.sigq \in Seq(SignalIds)
  BY <1>1, <1>2 DEF Mid
<1>6. Steady(r, s)
  <2>1. Steady(r, a)
    BY <1>5, SteadySame
  <2> QED BY <1>4, <2>1, SteadyTrans
<1>7. r.state = s.state /\ r.out = <<>> /\ r.pending = s.pending
  BY <1>4, <1>5
<1>8. s.state \notin Idle
  BY <1>0 DEF Idle, Later
<1>9. Orderly(r)
  <2>1. r.state \in {"SENTINITIATE", "RECEIVEDINITIATE"} => r.pending
    BY <1>7 DEF Orderly
  <2> QED BY <1>6, <1>7, <1>8, <2>1, SteadyOrderly
<1> QED BY <1>3, <1>6, <1>7, <1>9 DEF Hears, Steady

LEMMA OnIncomingHears ==
    ASSUME NEW p, NEW s, Local(p, s, "none"), Orderly(s), s.dead = "no", s.out = <<>>,
           NEW m \in Msgs, Fits(s, m.type), NEW r, r = OnIncomingMessage(s, m)
    PROVE  Hears(p, s, m.type, r)
<1>0. m.type \in {"initiate", "accept", "transport"} /\ m.cands \in Seq(Candidates)
  BY DEF Msgs
<1>1. CASE m.type = "initiate"
  <2>1. r = OnInitiateMessage(s)
    BY <1>1 DEF OnIncomingMessage
  <2> QED BY <1>1, <2>1, OnInitiateHears
<1>2. CASE m.type = "accept"
  <2>1. r = OnAcceptMessage(s)
    BY <1>2 DEF OnIncomingMessage
  <2> QED BY <1>2, <2>1, OnAcceptHears
<1>3. CASE m.type = "transport"
  <2>1. r = OnTransportInfoMessage(s, m.cands)
    BY <1>3 DEF OnIncomingMessage
  <2> QED BY <1>0, <1>3, <2>1, OnTransportHears
<1> QED BY <1>0, <1>1, <1>2, <1>3

\* The login of the partner is heard: MSG_DO_INITIATE is posted.
LEMMA RemoteLoginOrderly ==
    ASSUME NEW p, NEW s \in Mid(p), Orderly(s),
           NEW r, r = [s EXCEPT !.remoteOnline = TRUE, !.sigq = Append(@, "DO_INITIATE")]
    PROVE  /\ Orderly(r) /\ r \in Mid(p) /\ r.remoteOnline
           /\ r.state = s.state /\ r.out = s.out /\ r.dead = s.dead /\ r.sock = s.sock
<1>c. "DO_INITIATE" \in SignalIds
  BY DEF SignalIds
<1>q. PICK q \in Seq(SignalIds) : q = s.sigq
  BY DEF Mid
<1>2. Append(q, "DO_INITIATE") \in Seq(SignalIds)
  BY <1>c
<1>k. PICK k \in Seq(SignalIds) : k = Append(q, "DO_INITIATE")
  BY <1>2
<1>3. r = [s EXCEPT !.remoteOnline = TRUE, !.sigq = k]
  BY <1>q, <1>k
<1>4. r \in Mid(p)
  BY ZenonT(60), <1>3 DEF Mid
<1>5. /\ r.main = s.main /\ r.sock = s.sock /\ r.remoteOnline /\ r.dead = s.dead
      /\ r.out = s.out /\ r.state = s.state /\ r.pending = s.pending /\ r.connectReq = s.connectReq
      /\ r.sigq = k
  BY ZenonT(60), <1>3 DEF Mid
<1>6. /\ Count(k, "START") = Count(q, "START")
      /\ Count(k, "CREATE_SESSION") = Count(q, "CREATE_SESSION")
  <2>1. OneMore(k, q, "DO_INITIATE")
    BY <1>c, <1>k, CountPost
  <2> QED BY <2>1 DEF OneMore
<1>7. Orderly(r)
  BY <1>5, <1>6, <1>q DEF Orderly
<1> QED BY <1>4, <1>5, <1>7

-----------------------------------------------------------------------------
(* The words that carry what a handler sent.                               *)

Sent(n, o) == [i \in DOMAIN o |-> SendWord(n, o[i])]

LEMMA SentIs ==
    ASSUME NEW n \in Names, NEW o \in Seq(Msgs), NEW w, w = Sent(n, o)
    PROVE  /\ w \in Seq(Words)
           /\ DOMAIN w = DOMAIN o
           /\ \A i \in DOMAIN w : Carries(w[i]) /\ w[i].body = o[i] /\ w[i] = SendWord(n, o[i])
<1>1. w \in Seq(Words)
  BY SentWords DEF Sent
<1> QED BY <1>1 DEF Sent, SendWord, Word, Carries

LEMMA SentCarries ==
    ASSUME NEW n \in Names, NEW o \in Seq(Msgs), NEW w, w = Sent(n, o)
    PROVE  /\ o = <<>> => None(w)
           /\ Quiet(o) => Trans(w)
           /\ \A t : Opens(o, t) => Led(w, t)
<1>1. /\ DOMAIN w = DOMAIN o
      /\ \A i \in DOMAIN w : Carries(w[i]) /\ w[i].body = o[i]
  BY SentIs
<1>2. o = <<>> => None(w)
  BY <1>1 DEF None
<1>3. Quiet(o) => Trans(w)
  BY <1>1 DEF Quiet, Trans
<1>4. ASSUME NEW t, Opens(o, t) PROVE Led(w, t)
  <2>1. 1 \in DOMAIN o /\ \A j \in DOMAIN o : j # 1 => 1 < j
    BY <1>4 DEF Opens
  <2> QED BY <1>1, <1>4, <2>1 DEF Opens, Led
<1> QED BY <1>2, <1>3, <1>4

-----------------------------------------------------------------------------
(* The whole system.  Two processes never log in with the same name, and a *)
(* process that is wanted wants the one that wants it; the run "restart"   *)
(* shows what happens without.                                             *)

Mates(p, q) == RemoteName[p] = MyName[q] /\ RemoteName[q] = MyName[p]

OwnNames ==
    /\ \A p, q \in Procs : MyName[p] = MyName[q] => p = q
    /\ \A p, q \in Procs : RemoteName[p] = MyName[q] => RemoteName[q] = MyName[p]

\* The connection of p: c at the server, b and a its two streams, n the pid
\* the server keeps, s the process, u whether the server is up.  The login is
\* the first word, and what follows is for the partner.
Line(p, c, b, a, n, s, u) ==
    /\ c = "none" => b = <<>> /\ a = <<>> /\ n = NoName
    /\ n \in {NoName, MyName[p]}
    /\ \A i \in DOMAIN b : b[i].type = "login" =>
          i = 1 /\ b[i] = LoginWord(MyName[p]) /\ n = NoName
    /\ \A i \in DOMAIN b : b[i].type = "send" => b[i].who = {RemoteName[p]}
    /\ s.dead = "no" => /\ s.sock = "open" => c # "none" /\ (u => c = "open")
                        /\ s.sock # "open" => c = "none"
                        /\ \A i \in DOMAIN b : b[i] # FinWord

\* p has anything of its partner: the login, a session, a message.
Trace(p, s, b, a) == HeardBy(p, s, a) \/ s.state \notin Idle \/ ~None(b) \/ ~None(a)

\* The table holds a process under its own name only, and every one that is
\* connected and logged in.
Entry(p) ==
    /\ \A n \in Names : peerObjects[n] = p => n = MyName[p] /\ pid[p] = n
    /\ up /\ conn[p] = "open" /\ pid[p] # NoName => peerObjects[MyName[p]] = p

Known(p) ==
    Trace(p, pr[p], c2s[p], s2c[p]) =>
        pid[p] # NoName /\ \E q \in Procs : Mates(p, q) /\ pid[q] # NoName

HandshakeInv ==
    /\ \A p \in Procs : Line(p, conn[p], c2s[p], s2c[p], pid[p], pr[p], up)
    /\ \A p \in Procs : Entry(p)
    /\ \A p \in Procs : Known(p)
    /\ \A p \in Procs : pr[p].dead = "no" => Orderly(pr[p])
    /\ \A p, q \in Procs :
          Mates(p, q) => Pair(p, q, pr[p], pr[q], s2c[q], c2s[p], s2c[p], c2s[q])
    /\ NoAssert

LEMMA MatesDiffer ==
    ASSUME OwnNames, NEW p \in Procs, NEW q \in Procs, Mates(p, q)
    PROVE  p # q /\ Mates(q, p) /\ \A x \in Procs : Mates(p, x) => x = q
BY ProberAssumption DEF Mates, OwnNames

\* A step of p alone.
LEMMA StepAgrees ==
    ASSUME OwnNames, ServerType, DOMAIN pr = Procs, HandshakeInv, NEW p \in Procs,
           NEW r, NEW v, NEW y,
           pr' = [pr EXCEPT ![p] = r], c2s' = [c2s EXCEPT ![p] = v], s2c' = [s2c EXCEPT ![p] = y],
           UNCHANGED <<up, conn, pid, peerObjects>>,
           Line(p, conn[p], v, y, pid[p], r, up),
           Trace(p, r, v, y) => Trace(p, pr[p], c2s[p], s2c[p]),
           r.dead = "no" => Orderly(r), r.dead # "assert",
           \A q \in Procs : Mates(p, q) => Pair(p, q, r, pr[q], s2c[q], v, y, c2s[q])
    PROVE  HandshakeInv'
<1>0. /\ pr'[p] = r /\ c2s'[p] = v /\ s2c'[p] = y
      /\ \A q \in Procs : q # p => pr'[q] = pr[q] /\ c2s'[q] = c2s[q] /\ s2c'[q] = s2c[q]
      /\ up' = up /\ conn' = conn /\ pid' = pid /\ peerObjects' = peerObjects
  BY DEF ServerType
<1>1. ASSUME NEW q \in Procs PROVE Line(q, conn'[q], c2s'[q], s2c'[q], pid'[q], pr'[q], up')
  <2>1. CASE q = p
    BY <1>0, <2>1
  <2>2. CASE q # p
    BY <1>0, <2>2 DEF HandshakeInv
  <2> QED BY <2>1, <2>2
<1>2. \A q \in Procs : Entry(q)'
  BY <1>0 DEF HandshakeInv, Entry
<1>3. ASSUME NEW q \in Procs PROVE Known(q)'
  <2>0. Known(q)
    BY DEF HandshakeInv
  <2>1. Trace(q, pr'[q], c2s'[q], s2c'[q]) => Trace(q, pr[q], c2s[q], s2c[q])
    <3>1. CASE q = p
      BY <1>0, <3>1
    <3>2. CASE q # p
      BY <1>0, <3>2
    <3> QED BY <3>1, <3>2
  <2> QED BY <1>0, <2>0, <2>1 DEF Known
<1>4. \A q \in Procs : pr'[q].dead = "no" => Orderly(pr'[q])
  BY <1>0 DEF HandshakeInv
<1>5. ASSUME NEW q \in Procs, NEW x \in Procs, Mates(q, x)
      PROVE  Pair(q, x, pr'[q], pr'[x], s2c'[x], c2s'[q], s2c'[q], c2s'[x])
  <2>0. q # x /\ Mates(x, q)
    BY <1>5, MatesDiffer
  <2>1. CASE q = p
    BY <1>0, <1>5, <2>0, <2>1
  <2>2. CASE x = p
    <3>1. Pair(x, q, pr'[x], pr'[q], s2c'[q], c2s'[x], s2c'[x], c2s'[q])
      BY <1>0, <2>0, <2>2
    <3> QED BY <3>1, PairSwap
  <2>3. CASE q # p /\ x # p
    BY <1>0, <1>5, <2>3 DEF HandshakeInv
  <2> QED BY <2>1, <2>2, <2>3
<1>6. NoAssert'
  BY <1>0 DEF HandshakeInv, NoAssert
<1> QED BY <1>1, <1>2, <1>3, <1>4, <1>5, <1>6 DEF HandshakeInv

\* A turn of the session keeps the invariant of the pair.
LEMMA TurnPair ==
    ASSUME NEW p, NEW q, NEW s, NEW t, NEW a, NEW b \in Seq(Words), NEW c, NEW d,
           Pair(p, q, s, t, a, b, c, d), s.dead = "no",
           NEW o \in Seq(Msgs), NEW r, r.out = o, Turn(s, r),
           NEW n \in Names, NEW v, v = b \o Sent(n, o),
           NEW e, e.state = r.state, e.remoteOnline = s.remoteOnline, e.dead = "no"
    PROVE  Pair(p, q, e, t, a, v, c, d)
<1>w. PICK w : w = Sent(n, o)
  OBVIOUS
<1>1. w \in Seq(Words)
  BY <1>w, SentIs
<1>2. /\ o = <<>> => None(w)
      /\ Quiet(o) => Trans(w)
      /\ \A k : Opens(o, k) => Led(w, k)
  BY <1>w, SentCarries
<1>3. v = b \o w
  BY <1>w
<1>4. CASE r.state = s.state /\ Quiet(r.out) /\ (r.out # <<>> => s.state \in Later)
  <2>1. Trans(w) /\ (None(w) \/ s.state \in Later)
    BY <1>2, <1>4
  <2>2. Pair(p, q, s, t, a, v, c, d)
    BY <1>1, <1>3, <2>1, PairSends
  <2>3. e.state = s.state /\ e.dead = s.dead /\ (s.remoteOnline => e.remoteOnline)
        /\ (e.remoteOnline => HeardBy(p, s, c))
    BY <1>4 DEF HeardBy
  <2> QED BY <2>2, <2>3, PairView
<1>e. r.out = <<>> => Trans(w) /\ None(w)
  BY <1>2 DEF None, Trans
<1>5. CASE s.state = "NULL" /\ r.state = "INIT" /\ r.out = <<>>
  <2>1. Pair(p, q, s, t, a, v, c, d)
    BY <1>1, <1>3, <1>5, <1>e, PairSends
  <2> QED BY <1>5, <2>1, PairCreate
<1>6. CASE s.state = "INIT" /\ s.remoteOnline /\ r.state = "SENTINITIATE" /\ Opens(r.out, "initiate")
  BY <1>1, <1>2, <1>3, <1>6, PairInvite
<1>7. CASE s.state = "RECEIVEDINITIATE" /\ r.state = "SENTACCEPT" /\ Opens(r.out, "accept")
  BY <1>1, <1>2, <1>3, <1>7, PairAccept
<1>8. CASE s.state \in {"SENTACCEPT", "RECEIVEDACCEPT"} /\ r.state = "INPROGRESS" /\ r.out = <<>>
  <2>1. Pair(p, q, s, t, a, v, c, d)
    BY <1>1, <1>3, <1>8, <1>e, PairSends
  <2> QED BY <1>8, <2>1, PairEstablish
<1> QED BY <1>4, <1>5, <1>6, <1>7, <1>8 DEF Turn

\* What a process sends leaves its line in order.
SendsOn(p, c, b, a, n, s, u, o, e, y) ==
    /\ Line(p, c, b, a, n, s, u) /\ s.dead = "no" /\ b \in Seq(Words) /\ o \in Seq(Msgs)
    /\ c = "none" => o = <<>> /\ y = <<>>
    /\ e.sock = "open" <=> s.sock = "open"

LEMMA LineSends ==
    ASSUME NEW p \in Procs, NEW c, NEW b, NEW a, NEW n, NEW s, NEW u, NEW o, NEW e, NEW y,
           SendsOn(p, c, b, a, n, s, u, o, e, y), NEW v, v = b \o Sent(RemoteName[p], o)
    PROVE  Line(p, c, v, y, n, e, u)
<1>0. /\ Line(p, c, b, a, n, s, u) /\ s.dead = "no" /\ b \in Seq(Words) /\ o \in Seq(Msgs)
      /\ c = "none" => o = <<>>
      /\ c = "none" => y = <<>>
      /\ e.sock = "open" <=> s.sock = "open"
  BY DEF SendsOn
<1>n. PICK k \in Names : k = RemoteName[p]
  BY ProberAssumption
<1>w. PICK w : w = Sent(k, o)
  OBVIOUS
<1>1. /\ w \in Seq(Words) /\ DOMAIN w = DOMAIN o
      /\ \A i \in DOMAIN w : w[i] = SendWord(k, o[i])
  BY <1>0, <1>w, SentIs
<1>2. v = b \o w
  BY <1>n, <1>w
<1>3. c = "none" => v = <<>>
  <2>1. SUFFICES ASSUME c = "none" PROVE v = <<>>
    OBVIOUS
  <2>2. b = <<>> /\ w = <<>>
    BY <1>0, <1>1, <2>1 DEF Line
  <2> QED BY <1>0, <1>2, <2>2
<1>4. ASSUME NEW i \in DOMAIN v
      PROVE  \/ i \in DOMAIN b /\ v[i] = b[i]
             \/ \E j \in DOMAIN w : v[i] = w[j]
  BY <1>0, <1>1, <1>2
<1>5. \A i \in DOMAIN w : w[i].type = "send" /\ w[i].who = {RemoteName[p]} /\ w[i] # FinWord
  BY <1>1, <1>n DEF SendWord, FinWord, Word
<1>6. \A i \in DOMAIN v : v[i].type = "login" =>
          i = 1 /\ v[i] = LoginWord(MyName[p]) /\ n = NoName
  BY <1>0, <1>4, <1>5 DEF Line
<1>7. \A i \in DOMAIN v : v[i].type = "send" => v[i].who = {RemoteName[p]}
  BY <1>0, <1>4, <1>5 DEF Line
<1>8. \A i \in DOMAIN v : v[i] # FinWord
  BY <1>0, <1>4, <1>5 DEF Line
<1>9. /\ n \in {NoName, MyName[p]} /\ (c = "none" => n = NoName)
      /\ e.sock = "open" => c # "none" /\ (u => c = "open")
      /\ e.sock # "open" => c = "none"
  BY <1>0 DEF Line
<1> QED BY <1>0, <1>3, <1>6, <1>7, <1>8, <1>9 DEF Line

\* The hypotheses of every step below.
Agreed == OwnNames /\ ProberInv /\ HandshakeInv

LEMMA AgreedAbout ==
    ASSUME Agreed, NEW p \in Procs, NEW s, s = pr[p], NEW b, b = c2s[p], NEW a, a = s2c[p]
    PROVE  /\ b \in Seq(Words) /\ a \in Seq(Words)
           /\ Line(p, conn[p], b, a, pid[p], s, up)
           /\ s.dead = "no" => Orderly(s)
           /\ \A q \in Procs : Mates(p, q) => Pair(p, q, s, pr[q], s2c[q], b, a, c2s[q])
           /\ Trace(p, s, b, a) =>
                pid[p] # NoName /\ \E q \in Procs : Mates(p, q) /\ pid[q] # NoName
           /\ ServerType /\ DOMAIN pr = Procs /\ OwnNames /\ HandshakeInv
BY DEF Agreed, ProberInv, ServerType, HandshakeInv, Known

LEMMA DeadFields ==
    ASSUME NEW d, NEW r, r = [ProberInit EXCEPT !.main = "on", !.dead = d]
    PROVE  r.dead = d /\ r.state = "NULL" /\ ~r.remoteOnline
<1>u. PICK u : u = [main |-> "off", sock |-> "none", dead |-> "no", io |-> FALSE,
     remoteOnline |-> FALSE, targets |-> 0,
     state |-> "NULL", pending |-> FALSE, timer |-> FALSE, out |-> <<>>,
     proxy |-> "INIT", connectReq |-> FALSE, ready |-> <<>>, unsent |-> <<>>,
     twritable |-> FALSE, writable |-> FALSE, waiting |-> FALSE,
     session |-> FALSE, remote |-> <<>>, got |-> <<>>,
     made |-> 0, allocs |-> 0, flips |-> 0,
     sigq |-> <<>>, wq |-> <<>>]
  OBVIOUS
<1>1. r = [u EXCEPT !.main = "on", !.dead = d]
  BY <1>u DEF ProberInit
<1> QED BY ZenonT(60), <1>u, <1>1

\* A process that ends leaves at most a fin.
LEMMA DieAgrees ==
    ASSUME Agreed, NEW p \in Procs, pr[p].dead = "no", NEW d \in Reasons \ {"no", "assert"},
           Die(p, d)
    PROVE  HandshakeInv'
<1>s. PICK s : s = pr[p]
  OBVIOUS
<1>b. PICK b : b = c2s[p]
  OBVIOUS
<1>a. PICK a : a = s2c[p]
  OBVIOUS
<1>1. /\ b \in Seq(Words) /\ a \in Seq(Words)
      /\ Line(p, conn[p], b, a, pid[p], s, up)
      /\ \A q \in Procs : Mates(p, q) => Pair(p, q, s, pr[q], s2c[q], b, a, c2s[q])
      /\ ServerType /\ DOMAIN pr = Procs /\ OwnNames /\ HandshakeInv
  BY <1>s, <1>b, <1>a, AgreedAbout
<1>r. PICK r : r = [ProberInit EXCEPT !.main = "on", !.dead = d]
  OBVIOUS
<1>2. r.dead = d /\ r.state = "NULL" /\ ~r.remoteOnline
  BY <1>r, DeadFields
<1>v. PICK v : v = IF s.sock = "open" THEN Append(b, FinWord) ELSE b
  OBVIOUS
<1>y. PICK y : y = <<>>
  OBVIOUS
<1>3. /\ pr' = [pr EXCEPT ![p] = r]
      /\ s2c' = [s2c EXCEPT ![p] = y]
      /\ UNCHANGED <<up, conn, pid, peerObjects>>
  BY <1>r, <1>y DEF Die
<1>4. c2s' = [c2s EXCEPT ![p] = v]
  <2>1. CASE s.sock = "open"
    BY <1>s, <1>b, <1>v, <2>1 DEF Die
  <2>2. CASE s.sock # "open"
    BY <1>s, <1>b, <1>v, <2>2, <1>1 DEF Die, ServerType
  <2> QED BY <2>1, <2>2
<1>5. Bare(v, b)
  <2>n. PICK n : n = MyName[p]
    OBVIOUS
  <2>1. FinWord \in Words /\ ~Carries(FinWord) /\ FinWord # LoginWord(n)
    BY WordTypes DEF Carries, FinWord, LoginWord, Word
  <2>2. CASE s.sock = "open"
    BY <1>1, <1>v, <2>1, <2>2, PlainlyAppend DEF Plainly
  <2>3. CASE s.sock # "open"
    BY <1>v, <2>3, PlainlySame DEF Plainly
  <2> QED BY <2>2, <2>3
<1>6. Line(p, conn[p], v, y, pid[p], r, up)
  <2>1. conn[p] = "none" => v = <<>>
    BY <1>1, <1>s, <1>v DEF Line
  <2>2. \A i \in DOMAIN v : (i \in DOMAIN b /\ v[i] = b[i]) \/ v[i] = FinWord
    <3>1. CASE s.sock = "open"
      BY <1>1, <1>v, <3>1
    <3>2. CASE s.sock # "open"
      BY <1>v, <3>2
    <3> QED BY <3>1, <3>2
  <2>3. FinWord.type = "fin"
    BY DEF FinWord, Word
  <2>4. \A i \in DOMAIN v : v[i].type = "login" =>
          i = 1 /\ v[i] = LoginWord(MyName[p]) /\ pid[p] = NoName
    BY <1>1, <2>2, <2>3 DEF Line
  <2>5. \A i \in DOMAIN v : v[i].type = "send" => v[i].who = {RemoteName[p]}
    BY <1>1, <2>2, <2>3 DEF Line
  <2>6. pid[p] \in {NoName, MyName[p]} /\ (conn[p] = "none" => pid[p] = NoName)
    BY <1>1 DEF Line
  <2> QED BY <1>2, <1>y, <2>1, <2>4, <2>5, <2>6 DEF Line
<1>7. Trace(p, r, v, y) => Trace(p, s, b, a)
  <2>1. ~HeardBy(p, r, y) /\ r.state \in Idle /\ None(y)
    BY <1>2, <1>y DEF HeardBy, Has, Idle, None
  <2> QED BY <1>5, <2>1 DEF Trace, Bare
<1>8. \A q \in Procs : Mates(p, q) => Pair(p, q, r, pr[q], s2c[q], v, y, c2s[q])
  BY <1>1, <1>2, <1>5, PairDies
<1> QED BY <1>1, <1>2, <1>3, <1>4, <1>6, <1>7, <1>8, <1>s, <1>b, <1>a, StepAgrees

\* The handler of a posted message, or the worker.
LEMMA BecomeAgrees ==
    ASSUME Agreed, NEW p \in Procs, pr[p].dead = "no", NEW r, Turns(p, pr[p], r), Become(p, r)
    PROVE  HandshakeInv'
<1>0. r \in Mid(p) /\ r.dead \in Reasons /\ r.dead # "assert" /\ r.out \in Seq(Msgs)
  BY DEF Turns, Mid
<1>1. CASE r.dead # "no"
  <2>1. Die(p, r.dead)
    BY <1>1 DEF Become
  <2> QED BY <1>0, <1>1, <2>1, DieAgrees
<1>2. CASE r.dead = "no"
  <2>s. PICK s : s = pr[p]
    OBVIOUS
  <2>b. PICK b : b = c2s[p]
    OBVIOUS
  <2>a. PICK a : a = s2c[p]
    OBVIOUS
  <2>1. /\ b \in Seq(Words) /\ a \in Seq(Words)
        /\ Line(p, conn[p], b, a, pid[p], s, up)
        /\ \A q \in Procs : Mates(p, q) => Pair(p, q, s, pr[q], s2c[q], b, a, c2s[q])
        /\ ServerType /\ DOMAIN pr = Procs /\ OwnNames /\ HandshakeInv
        /\ Trace(p, s, b, a) => pid[p] # NoName
    BY <2>s, <2>b, <2>a, AgreedAbout
  <2>2. /\ Orderly(r) /\ Turn(s, r) /\ r.remoteOnline = s.remoteOnline
        /\ r.sock = "open" <=> s.sock = "open"
        /\ s.dead = "no"
    BY <1>2, <2>s DEF Turns
  <2>o. PICK o \in Seq(Msgs) : o = r.out
    BY <1>0
  <2>n. PICK n \in Names : n = RemoteName[p]
    BY ProberAssumption
  <2>v. PICK v : v = b \o Sent(n, o)
    OBVIOUS
  <2>f. (r.io \/ r.sigq = <<>>) \in BOOLEAN
    OBVIOUS
  <2>g. PICK g \in BOOLEAN : g = (r.io \/ r.sigq = <<>>)
    BY <2>f
  <2>e. PICK e : e = [r EXCEPT !.out = <<>>, !.io = g]
    OBVIOUS
  <2>3. /\ pr' = [pr EXCEPT ![p] = [r EXCEPT !.out = <<>>, !.io = @ \/ r.sigq = <<>>]]
        /\ c2s' = [c2s EXCEPT ![p] = @ \o
                      [i \in DOMAIN r.out |-> SendWord(RemoteName[p], r.out[i])]]
        /\ UNCHANGED <<up, conn, pid, peerObjects, s2c>>
    BY <1>2 DEF Become
  <2>4. pr' = [pr EXCEPT ![p] = e]
    BY <2>3, <2>g, <2>e
  <2>5. c2s' = [c2s EXCEPT ![p] = v]
    BY <2>3, <2>v, <2>o, <2>n, <2>b DEF Sent
  <2>6. s2c' = [s2c EXCEPT ![p] = a]
    BY <2>1, <2>3, <2>a DEF ServerType
  <2>7. /\ e.state = r.state /\ e.remoteOnline = r.remoteOnline /\ e.dead = r.dead
        /\ e.sock = r.sock /\ e.sigq = r.sigq /\ e.main = r.main /\ e.connectReq = r.connectReq
        /\ e.pending = r.pending
    BY <1>0, <2>e DEF Mid
  <2>8. Orderly(e)
    BY <2>2, <2>7 DEF Orderly
  <2>9. o # <<>> \/ e.state \notin Idle => s.state \notin Idle \/ s.remoteOnline
    BY <2>2, <2>7, <2>o DEF Turn, Idle, Later
  <2>10. conn[p] = "none" => o = <<>>
    BY <2>1, <2>9 DEF Trace, HeardBy, Line
  <2>11. Line(p, conn[p], v, a, pid[p], e, up)
    <3>1. e.sock = "open" <=> s.sock = "open"
      BY <2>2, <2>7
    <3>2. conn[p] = "none" => a = <<>>
      BY <2>1 DEF Line
    <3>3. v = b \o Sent(RemoteName[p], o)
      BY <2>v, <2>n
    <3>4. Line(p, conn[p], b, a, pid[p], s, up) /\ b \in Seq(Words) /\ s.dead = "no"
      BY <2>1, <2>2
    <3>5. SendsOn(p, conn[p], b, a, pid[p], s, up, o, e, a)
      BY <2>10, <3>1, <3>2, <3>4 DEF SendsOn
    <3> QED BY <3>3, <3>5, LineSends
  <2>12. Trace(p, e, v, a) => Trace(p, s, b, a)
    <3>1. None(b) /\ o = <<>> => None(v)
      <4>1. Sent(n, o) \in Seq(Words) /\ (o = <<>> => None(Sent(n, o)))
        BY SentIs, SentCarries
      <4> QED BY <2>1, <2>v, <4>1, StreamConcat
    <3>2. HeardBy(p, e, a) => HeardBy(p, s, a)
      BY <2>2, <2>7 DEF HeardBy
    <3> QED BY <2>9, <3>1, <3>2 DEF Trace, HeardBy
  <2>13. \A q \in Procs : Mates(p, q) => Pair(p, q, e, pr[q], s2c[q], v, a, c2s[q])
    <3>1. SUFFICES ASSUME NEW q \in Procs, Mates(p, q)
                   PROVE  Pair(p, q, e, pr[q], s2c[q], v, a, c2s[q])
      OBVIOUS
    <3>2. Pair(p, q, s, pr[q], s2c[q], b, a, c2s[q])
      BY <2>1, <3>1
    <3>3. e.remoteOnline = s.remoteOnline /\ e.dead = "no" /\ e.state = r.state /\ r.out = o
      BY <1>2, <2>2, <2>7, <2>o
    <3> QED BY <2>1, <2>2, <2>v, <3>2, <3>3, TurnPair
  <2>14. e.dead # "assert"
    BY <1>0, <2>7
  <2> QED BY <2>1, <2>3, <2>4, <2>5, <2>6, <2>8, <2>11, <2>12, <2>13, <2>14, <2>s, <2>b, <2>a, StepAgrees
<1> QED BY <1>1, <1>2

\* Reading a word that carries no message.
LEMMA ReadPlainAgrees ==
    ASSUME Agreed, NEW p \in Procs, NEW r \in Mid(p), Read(p, r), NEW s, s = pr[p],
           ~Carries(Head(s2c[p])), r.dead = "no", Orderly(r), r.out = <<>>,
           r.state = s.state, r.sock = s.sock, s.remoteOnline => r.remoteOnline,
           r.remoteOnline => HeardBy(p, s, s2c[p])
    PROVE  HandshakeInv'
<1>b. PICK b : b = c2s[p]
  OBVIOUS
<1>a. PICK a : a = s2c[p]
  OBVIOUS
<1>1. /\ b \in Seq(Words) /\ a \in Seq(Words)
      /\ Line(p, conn[p], b, a, pid[p], s, up)
      /\ \A q \in Procs : Mates(p, q) => Pair(p, q, s, pr[q], s2c[q], b, a, c2s[q])
      /\ ServerType /\ DOMAIN pr = Procs /\ OwnNames /\ HandshakeInv
  BY <1>b, <1>a, AgreedAbout
<1>2. /\ pr' = [pr EXCEPT ![p] = [r EXCEPT !.out = <<>>]]
      /\ s2c' = [s2c EXCEPT ![p] = Tail(@)]
      /\ c2s' = [c2s EXCEPT ![p] = @ \o
                      [i \in DOMAIN r.out |-> SendWord(RemoteName[p], r.out[i])]]
      /\ UNCHANGED <<up, conn, pid, peerObjects>>
      /\ a # <<>> /\ s.dead = "no"
  BY <1>a DEF Read, Alive
<1>e. PICK e : e = [r EXCEPT !.out = <<>>]
  OBVIOUS
<1>y. PICK y : y = Tail(a)
  OBVIOUS
<1>3. /\ e.state = r.state /\ e.remoteOnline = r.remoteOnline /\ e.dead = r.dead
      /\ e.sock = r.sock /\ e.sigq = r.sigq /\ e.main = r.main /\ e.connectReq = r.connectReq
      /\ e.pending = r.pending
  BY <1>e DEF Mid
<1>4. Orderly(e)
  BY <1>3 DEF Orderly
<1>5. c2s' = [c2s EXCEPT ![p] = b]
  <2>1. [i \in DOMAIN r.out |-> SendWord(RemoteName[p], r.out[i])] = <<>>
    OBVIOUS
  <2>2. b \o <<>> = b
    BY <1>1
  <2> QED BY <1>2, <1>b, <2>1, <2>2
<1>6. pr' = [pr EXCEPT ![p] = e] /\ s2c' = [s2c EXCEPT ![p] = y]
  BY <1>2, <1>e, <1>y, <1>a
<1>7. /\ y \in Seq(Words) /\ (None(y) <=> None(a)) /\ Plainly(y, a, RemoteName[p])
      /\ \A m : Has(y, m) => Has(a, m)
  <2>1. ~Carries(Head(a))
    BY <1>a
  <2>2. /\ y \in Seq(Words)
        /\ ~Carries(Head(a)) => (None(y) <=> None(a))
        /\ Trans(a) => Trans(y)
        /\ \A t : Led(a, t) /\ ~Carries(Head(a)) => Led(y, t)
        /\ \A w : Has(y, w) => Has(a, w)
    BY <1>1, <1>2, <1>y, StreamTail
  <2> QED BY <2>1, <2>2 DEF Plainly, Bare
<1>8. Line(p, conn[p], b, y, pid[p], e, up)
  <2>1. conn[p] # "none"
    BY <1>1, <1>2 DEF Line
  <2>2. s.dead = "no" /\ e.sock = s.sock
    BY <1>2, <1>3
  <2> QED BY <1>1, <2>1, <2>2 DEF Line
<1>9. Trace(p, e, b, y) => Trace(p, s, b, a)
  <2>1. HeardBy(p, e, y) => HeardBy(p, s, a)
    BY <1>3, <1>7, <1>a DEF HeardBy
  <2> QED BY <1>3, <1>7, <2>1 DEF Trace
<1>10. ASSUME NEW q \in Procs, Mates(p, q)
       PROVE  Pair(p, q, e, pr[q], s2c[q], b, y, c2s[q])
  <2>1. Pair(p, q, s, pr[q], s2c[q], b, a, c2s[q])
    BY <1>1, <1>10
  <2>2. /\ e.state = s.state /\ e.dead = s.dead /\ (s.remoteOnline => e.remoteOnline)
        /\ e.remoteOnline => HeardBy(p, s, a)
    BY <1>2, <1>3, <1>a
  <2>3. Pair(p, q, e, pr[q], s2c[q], b, a, c2s[q])
    BY <2>1, <2>2, PairView
  <2>4. /\ Plainly(s2c[q], s2c[q], RemoteName[q]) /\ Bare(b, b) /\ Bare(c2s[q], c2s[q])
    BY PlainlySame DEF Plainly
  <2> QED BY <1>7, <2>3, <2>4, PairPlainly
<1>11. e.dead # "assert"
  BY <1>3
<1> QED BY <1>1, <1>2, <1>4, <1>5, <1>6, <1>8, <1>9, <1>10, <1>11, <1>b, <1>a, StepAgrees

\* A message that the session expects takes the pair one step further.
LEMMA HearsPair ==
    ASSUME NEW p, NEW q, NEW s, NEW t, NEW a, NEW b \in Seq(Words), NEW c \in Seq(Words), NEW d,
           Pair(p, q, s, t, a, b, c, d), s.dead = "no",
           c # <<>>, Carries(Head(c)), NEW k, k = Head(c).body.type, Fits(s, k),
           NEW r, Hears(p, s, k, r), NEW o \in Seq(Msgs), o = r.out,
           NEW n \in Names, NEW v, v = b \o Sent(n, o), NEW y, y = Tail(c),
           NEW e, e.state = r.state, e.remoteOnline = s.remoteOnline, e.dead = "no"
    PROVE  Pair(p, q, e, t, a, v, y, d)
<1>w. PICK w : w = Sent(n, o)
  OBVIOUS
<1>1. w \in Seq(Words) /\ (o = <<>> => None(w)) /\ (Quiet(o) => Trans(w))
  BY <1>w, SentIs, SentCarries
<1>2. v = b \o w
  BY <1>w
<1>e. o = <<>> => v = b
  <2>1. SUFFICES ASSUME o = <<>> PROVE v = b
    OBVIOUS
  <2>2. w = <<>>
    BY <1>w, <2>1 DEF Sent
  <2> QED BY <1>2, <2>2
<1>3. CASE k = "initiate"
  BY <1>3, <1>e, PairReadInitiate DEF Fits, Hears
<1>4. CASE k = "accept"
  <2>1. s.state = "SENTINITIATE" /\ e.state = "RECEIVEDACCEPT" /\ Trans(w)
    BY <1>1, <1>4 DEF Fits, Hears
  <2> QED BY <1>1, <1>2, <1>4, <2>1, PairReadAccept
<1>5. CASE k = "transport"
  <2>1. e.state = s.state /\ v = b /\ s.state \in Later \cup {"RECEIVEDINITIATE"}
    BY <1>5, <1>e DEF Fits, Hears
  <2> QED BY <1>5, <2>1, PairReadTransport
<1> QED BY <1>3, <1>4, <1>5 DEF Hears

\* No message reaches a session that does not expect it.
LEMMA MessageFits ==
    ASSUME Agreed, NEW p \in Procs, Alive(p), s2c[p] # <<>>, Carries(Head(s2c[p])),
           pr[p].state # "NULL"
    PROVE  Fits(pr[p], Head(s2c[p]).body.type)
<1>s. PICK s : s = pr[p]
  OBVIOUS
<1>b. PICK b : b = c2s[p]
  OBVIOUS
<1>a. PICK a : a = s2c[p]
  OBVIOUS
<1>1. /\ a \in Seq(Words)
      /\ \A q \in Procs : Mates(p, q) => Pair(p, q, s, pr[q], s2c[q], b, a, c2s[q])
      /\ Trace(p, s, b, a) =>
                pid[p] # NoName /\ \E q \in Procs : Mates(p, q) /\ pid[q] # NoName
  BY <1>s, <1>b, <1>a, AgreedAbout
<1>2. s \in Mid(p) /\ s.dead = "no" /\ s.state \in States
  <2>1. s \in Mid(p) /\ s.dead = "no"
    BY <1>s, AliveLocal DEF Agreed
  <2> QED BY <2>1 DEF Mid
<1>3. a # <<>> /\ Carries(Head(a)) /\ s.state # "NULL"
  BY <1>s, <1>a
<1>4. Trace(p, s, b, a)
  BY <1>1, <1>3, StreamTail DEF Trace
<1>5. PICK q \in Procs : Mates(p, q)
  BY <1>1, <1>4
<1>6. Pair(p, q, s, pr[q], s2c[q], b, a, c2s[q])
  BY <1>1, <1>5
<1>7. /\ Head(a).body.type = "initiate" => s.state \in Idle
      /\ Head(a).body.type = "accept" => s.state = "SENTINITIATE"
      /\ Head(a).body.type = "transport" => s.state \in Later \cup {"RECEIVEDINITIATE"}
  BY <1>1, <1>2, <1>3, <1>6, ReadKinds
<1>8. Fits(s, Head(a).body.type)
  BY SMTT(40), <1>3, <1>7 DEF Fits, Idle
<1> QED BY <1>8, <1>s, <1>a

LEMMA ReadMessageAgrees ==
    ASSUME Agreed, NEW p \in Procs, NEW r, Read(p, r), NEW s, s = pr[p],
           NEW k, k = Head(s2c[p]).body.type, Carries(Head(s2c[p])),
           Fits(s, k), Hears(p, s, k, r)
    PROVE  HandshakeInv'
<1>b. PICK b : b = c2s[p]
  OBVIOUS
<1>a. PICK a : a = s2c[p]
  OBVIOUS
<1>1. /\ b \in Seq(Words) /\ a \in Seq(Words)
      /\ Line(p, conn[p], b, a, pid[p], s, up)
      /\ \A q \in Procs : Mates(p, q) => Pair(p, q, s, pr[q], s2c[q], b, a, c2s[q])
      /\ ServerType /\ DOMAIN pr = Procs /\ OwnNames /\ HandshakeInv
  BY <1>b, <1>a, AgreedAbout
<1>r. /\ r \in Mid(p) /\ r.dead = "no" /\ Orderly(r) /\ r.remoteOnline = s.remoteOnline
      /\ r.sock = s.sock /\ r.out \in Seq(Msgs)
  BY DEF Hears, Mid
<1>2. /\ pr' = [pr EXCEPT ![p] = [r EXCEPT !.out = <<>>]]
      /\ s2c' = [s2c EXCEPT ![p] = Tail(@)]
      /\ c2s' = [c2s EXCEPT ![p] = @ \o
                      [i \in DOMAIN r.out |-> SendWord(RemoteName[p], r.out[i])]]
      /\ UNCHANGED <<up, conn, pid, peerObjects>>
      /\ a # <<>> /\ s.dead = "no"
  BY <1>a, <1>r DEF Read, Alive
<1>o. PICK o \in Seq(Msgs) : o = r.out
  BY <1>r
<1>n. PICK n \in Names : n = RemoteName[p]
  BY ProberAssumption
<1>v. PICK v : v = b \o Sent(n, o)
  OBVIOUS
<1>e. PICK e : e = [r EXCEPT !.out = <<>>]
  OBVIOUS
<1>y. PICK y : y = Tail(a)
  OBVIOUS
<1>3. /\ e.state = r.state /\ e.remoteOnline = r.remoteOnline /\ e.dead = r.dead
      /\ e.sock = r.sock /\ e.sigq = r.sigq /\ e.main = r.main /\ e.connectReq = r.connectReq
      /\ e.pending = r.pending
  BY <1>e, <1>r DEF Mid
<1>4. Orderly(e)
  BY <1>3, <1>r DEF Orderly
<1>5. c2s' = [c2s EXCEPT ![p] = v]
  BY <1>2, <1>v, <1>o, <1>n, <1>b DEF Sent
<1>6. pr' = [pr EXCEPT ![p] = e] /\ s2c' = [s2c EXCEPT ![p] = y]
  BY <1>2, <1>e, <1>y, <1>a
<1>7. conn[p] # "none"
  BY <1>1, <1>2 DEF Line
<1>8. Line(p, conn[p], v, y, pid[p], e, up)
  <2>1. e.sock = "open" <=> s.sock = "open"
    BY <1>3, <1>r
  <2>2. v = b \o Sent(RemoteName[p], o)
    BY <1>v, <1>n
  <2>3. Line(p, conn[p], b, a, pid[p], s, up) /\ b \in Seq(Words) /\ s.dead = "no"
    BY <1>1, <1>2
  <2>4. (conn[p] = "none" => o = <<>>) /\ (conn[p] = "none" => y = <<>>)
    BY <1>7
  <2>5. SendsOn(p, conn[p], b, a, pid[p], s, up, o, e, y)
    BY <2>1, <2>3, <2>4 DEF SendsOn
  <2> QED BY <2>2, <2>5, LineSends
<1>9. Trace(p, s, b, a)
  <2>1. Carries(Head(a))
    BY <1>a
  <2> QED BY <1>1, <1>2, <2>1, StreamTail DEF Trace
<1>10. ASSUME NEW q \in Procs, Mates(p, q)
       PROVE  Pair(p, q, e, pr[q], s2c[q], v, y, c2s[q])
  <2>1. Pair(p, q, s, pr[q], s2c[q], b, a, c2s[q])
    BY <1>1, <1>10
  <2>2. e.state = r.state /\ e.remoteOnline = s.remoteOnline /\ e.dead = "no"
    BY <1>3, <1>r
  <2>3. k = Head(a).body.type /\ Carries(Head(a)) /\ a # <<>> /\ s.dead = "no"
    BY <1>2, <1>a
  <2> QED BY <1>1, <1>o, <1>v, <1>y, <2>1, <2>2, <2>3, HearsPair
<1>11. e.dead # "assert"
  BY <1>3, <1>r
<1> QED BY <1>1, <1>2, <1>4, <1>5, <1>6, <1>8, <1>9, <1>10, <1>11, <1>b, <1>a, StepAgrees

LEMMA ActsAgree ==
    ASSUME Agreed, NEW p \in Procs, pr[p].dead = "no", Acts(p) PROVE HandshakeInv'
BY BecomeAgrees DEF Acts

LEMMA CloseEventAgrees ==
    ASSUME Agreed, NEW p \in Procs, onCloseEvent(p) \/ Kill(p) PROVE HandshakeInv'
<1>1. (Die(p, "disconnected") \/ Die(p, "killed")) /\ pr[p].dead = "no"
  BY DEF onCloseEvent, Kill, Alive
<1>2. {"disconnected", "killed"} \subseteq Reasons \ {"no", "assert"}
  BY DEF Reasons
<1> QED BY <1>1, <1>2, DieAgrees

LEMMA ReadExitAgrees ==
    ASSUME Agreed, NEW p \in Procs, NEW d \in Reasons \ {"no", "assert"}, NEW r,
           r = Exits(pr[p], d), Read(p, r)
    PROVE  HandshakeInv'
<1>1. pr[p] \in Mid(p) /\ pr[p].dead = "no"
  BY AliveLocal DEF Read, Agreed
<1>2. r.dead = d
  BY <1>1 DEF Exits, Mid
<1>3. Die(p, d)
  BY <1>2 DEF Read
<1> QED BY <1>1, <1>3, DieAgrees

LEMMA RemoteLoginAgrees ==
    ASSUME Agreed, NEW p \in Procs, onRemoteLogin(p) PROVE HandshakeInv'
<1>s. PICK s : s = pr[p]
  OBVIOUS
<1>0. Alive(p) /\ s2c[p] # <<>>
  BY DEF onRemoteLogin, Reads
<1>1. s \in Mid(p) /\ s.dead = "no" /\ s.out = <<>> /\ Orderly(s)
  <2>1. s \in Mid(p) /\ s.dead = "no" /\ s.out = <<>>
    BY <1>0, <1>s, AliveOrderly DEF Agreed
  <2> QED BY <1>s, <2>1 DEF Agreed, HandshakeInv
<1>u. PICK u : u = [s EXCEPT !.remoteOnline = TRUE, !.sigq = Append(@, "DO_INITIATE")]
  OBVIOUS
<1>n. PICK n \in Names :
        Reads(p, LoginWord(n),
              LAMBDA x : IF RemoteArrived(p, n, x)
                         THEN [x EXCEPT !.remoteOnline = TRUE,
                                        !.sigq = Append(@, "DO_INITIATE")]
                         ELSE x)
  BY DEF onRemoteLogin
<1>h. Head(s2c[p]) = LoginWord(n)
  BY <1>n DEF Reads
<1>2. ~Carries(Head(s2c[p]))
  BY <1>h DEF Carries, LoginWord, Word
<1>3. CASE RemoteArrived(p, n, s)
  <2>1. Read(p, u)
    BY <1>n, <1>s, <1>u, <1>3 DEF Reads, Read
  <2>2. /\ Orderly(u) /\ u \in Mid(p) /\ u.remoteOnline
        /\ u.state = s.state /\ u.out = s.out /\ u.dead = s.dead /\ u.sock = s.sock
    BY ZenonT(60), <1>1, <1>u, RemoteLoginOrderly
  <2>3. HeardBy(p, s, s2c[p])
    <3>a. PICK a \in Seq(Words) : a = s2c[p] /\ a # <<>>
      BY <1>0 DEF Agreed, ProberInv, ServerType
    <3>1. 1 \in DOMAIN a /\ a[1] = LoginWord(RemoteName[p])
      BY <1>h, <1>3, <3>a DEF RemoteArrived
    <3> QED BY <3>1, <3>a DEF HeardBy, Has
  <2> QED BY <1>1, <1>2, <1>s, <2>1, <2>2, <2>3, ReadPlainAgrees
<1>4. CASE ~RemoteArrived(p, n, s)
  <2>1. Read(p, s)
    BY <1>n, <1>s, <1>4 DEF Reads, Read
  <2>2. s.remoteOnline => HeardBy(p, s, s2c[p])
    BY DEF HeardBy
  <2> QED BY <1>1, <1>2, <1>s, <2>1, <2>2, ReadPlainAgrees
<1> QED BY <1>3, <1>4

LEMMA RemoteOnlineAgrees ==
    ASSUME Agreed, NEW p \in Procs, onRemoteOnline(p) PROVE HandshakeInv'
<1>s. PICK s : s = pr[p]
  OBVIOUS
<1>0. Alive(p) /\ Read(p, s)
  BY <1>s DEF onRemoteOnline, Reads, Read
<1>1. s \in Mid(p) /\ s.dead = "no" /\ s.out = <<>> /\ Orderly(s)
  <2>1. s \in Mid(p) /\ s.dead = "no" /\ s.out = <<>>
    BY <1>0, <1>s, AliveOrderly DEF Agreed
  <2> QED BY <1>s, <2>1 DEF Agreed, HandshakeInv
<1>2. ~Carries(Head(s2c[p]))
  BY DEF onRemoteOnline, Reads, Carries, OnlineWord, Word
<1>3. s.remoteOnline => HeardBy(p, s, s2c[p])
  BY DEF HeardBy
<1> QED BY <1>0, <1>1, <1>2, <1>3, <1>s, ReadPlainAgrees

LEMMA RemoteOfflineAgrees ==
    ASSUME Agreed, NEW p \in Procs, onRemoteOffline(p) PROVE HandshakeInv'
<1>r. PICK r : r = Exits(pr[p], "remoteoffline")
  OBVIOUS
<1>1. Read(p, r)
  BY <1>r DEF onRemoteOffline, Reads, Read
<1>2. "remoteoffline" \in Reasons \ {"no", "assert"}
  BY DEF Reasons
<1> QED BY <1>1, <1>2, <1>r, ReadExitAgrees

LEMMA RemoteMessageAgrees ==
    ASSUME Agreed, NEW p \in Procs, onRemoteMessage(p) PROVE HandshakeInv'
<1>s. PICK s : s = pr[p]
  OBVIOUS
<1>0. Alive(p) /\ s2c[p] # <<>>
  BY DEF onRemoteMessage, Reads
<1>1. s \in Mid(p) /\ s.dead = "no" /\ s.out = <<>> /\ Orderly(s) /\ Local(p, s, "none")
  <2>1. s \in Mid(p) /\ s.dead = "no" /\ s.out = <<>> /\ Local(p, s, "none")
    BY SMTT(40), <1>0, <1>s, AliveOrderly DEF Agreed
  <2> QED BY <1>s, <2>1 DEF Agreed, HandshakeInv
<1>m. PICK m \in Msgs : m = Head(s2c[p]).body
  BY MessageRead DEF Agreed, ProberInv
<1>2. Read(p, IF s.state = "NULL" THEN Exits(s, "nullsession") ELSE OnIncomingMessage(s, m))
  BY SMTT(40), <1>s, <1>m, ReadsMessage
<1>3. Carries(Head(s2c[p]))
  BY DEF onRemoteMessage, Reads, Carries, MessageWord, Word
<1>4. CASE s.state = "NULL"
  <2>r. PICK r : r = Exits(pr[p], "nullsession")
    OBVIOUS
  <2>1. Read(p, r)
    BY <1>2, <1>4, <1>s, <2>r
  <2>2. "nullsession" \in Reasons \ {"no", "assert"}
    BY DEF Reasons
  <2> QED BY <2>1, <2>2, <2>r, ReadExitAgrees
<1>5. CASE s.state # "NULL"
  <2>r. PICK r : r = OnIncomingMessage(s, m)
    OBVIOUS
  <2>1. Read(p, r)
    BY <1>2, <1>5, <2>r
  <2>2. Fits(s, m.type)
    BY <1>0, <1>3, <1>5, <1>s, <1>m, MessageFits
  <2>3. Hears(p, s, m.type, r)
    BY <1>1, <2>2, <2>r, OnIncomingHears
  <2> QED BY <1>3, <1>s, <1>m, <2>1, <2>2, <2>3, ReadMessageAgrees
<1> QED BY <1>4, <1>5

\* The connection stands: the login is the first word.
LEMMA ConnectEventAgrees ==
    ASSUME Agreed, NEW p \in Procs, onConnectEvent(p) PROVE HandshakeInv'
<1>s. PICK s : s = pr[p]
  OBVIOUS
<1>b. PICK b : b = c2s[p]
  OBVIOUS
<1>a. PICK a : a = s2c[p]
  OBVIOUS
<1>1. /\ b \in Seq(Words) /\ a \in Seq(Words)
      /\ Line(p, conn[p], b, a, pid[p], s, up)
      /\ \A q \in Procs : Mates(p, q) => Pair(p, q, s, pr[q], s2c[q], b, a, c2s[q])
      /\ ServerType /\ DOMAIN pr = Procs /\ OwnNames /\ HandshakeInv
  BY <1>s, <1>b, <1>a, AgreedAbout
<1>2. s \in Mid(p) /\ s.dead = "no" /\ s.sock = "connecting" /\ Orderly(s)
  <2>1. s \in Mid(p) /\ s.dead = "no" /\ s.sock = "connecting"
    BY <1>s, AliveOrderly DEF Agreed, onConnectEvent
  <2> QED BY <1>s, <2>1 DEF Agreed, HandshakeInv
<1>n. PICK n \in Names : n = MyName[p]
  BY ProberAssumption
<1>w. PICK w \in Words : w = LoginWord(n)
  BY WordTypes
<1>v. PICK v : v = Append(b, w)
  OBVIOUS
<1>e. PICK e : e = [s EXCEPT !.sock = "open"]
  OBVIOUS
<1>3. /\ pr' = [pr EXCEPT ![p] = e]
      /\ conn' = [conn EXCEPT ![p] = "open"]
      /\ c2s' = [c2s EXCEPT ![p] = v]
      /\ up' = up /\ pid' = pid /\ peerObjects' = peerObjects /\ s2c' = s2c
  BY <1>s, <1>b, <1>n, <1>w, <1>v, <1>e DEF onConnectEvent
<1>4. /\ pr'[p] = e /\ conn'[p] = "open" /\ c2s'[p] = v /\ s2c'[p] = a
      /\ \A q \in Procs : q # p => pr'[q] = pr[q] /\ conn'[q] = conn[q] /\ c2s'[q] = c2s[q]
  BY <1>1, <1>3, <1>a DEF ServerType
<1>5. /\ e.state = s.state /\ e.remoteOnline = s.remoteOnline /\ e.dead = s.dead
      /\ e.sock = "open" /\ e.sigq = s.sigq /\ e.main = s.main /\ e.connectReq = s.connectReq
      /\ e.pending = s.pending
  BY <1>2, <1>e DEF Mid
<1>6. conn[p] = "none" /\ b = <<>> /\ a = <<>> /\ pid[p] = NoName
  BY <1>1, <1>2 DEF Line
<1>7. ~Carries(w) /\ w # LoginWord(RemoteName[p]) /\ w # FinWord /\ w.type = "login"
  BY <1>w, <1>n, ProberAssumption DEF Carries, LoginWord, FinWord, Word
<1>8. Plainly(v, b, RemoteName[p])
  BY <1>1, <1>v, <1>7, PlainlyAppend
<1>9. Line(p, "open", v, a, pid[p], e, up)
  <2>1. \A i \in DOMAIN v : i = 1 /\ v[i] = w
    BY <1>6, <1>v
  <2> QED BY <1>5, <1>6, <1>7, <1>n, <1>w, <2>1 DEF Line
<1>10. \A q \in Procs : Line(q, conn'[q], c2s'[q], s2c'[q], pid'[q], pr'[q], up')
  <2>1. SUFFICES ASSUME NEW q \in Procs
                 PROVE  Line(q, conn'[q], c2s'[q], s2c'[q], pid'[q], pr'[q], up')
    OBVIOUS
  <2>2. CASE q = p
    BY <1>3, <1>4, <1>9, <2>2
  <2>3. CASE q # p
    BY <1>1, <1>3, <1>4, <2>3 DEF HandshakeInv
  <2> QED BY <2>2, <2>3
<1>11. \A q \in Procs : Entry(q)'
  <2>1. SUFFICES ASSUME NEW q \in Procs PROVE Entry(q)'
    OBVIOUS
  <2>2. Entry(q)
    BY <1>1 DEF HandshakeInv
  <2>3. CASE q = p
    BY <1>3, <1>6, <2>2, <2>3 DEF Entry
  <2>4. CASE q # p
    BY <1>3, <1>4, <2>2, <2>4 DEF Entry
  <2> QED BY <2>3, <2>4
<1>12. ASSUME NEW q \in Procs PROVE Known(q)'
  <2>0. Known(q)
    BY <1>1 DEF HandshakeInv
  <2>1. Trace(q, pr'[q], c2s'[q], s2c'[q]) => Trace(q, pr[q], c2s[q], s2c[q])
    <3>1. CASE q = p
      <4>1. Trace(p, e, v, a) => Trace(p, s, b, a)
        BY <1>5, <1>8 DEF Trace, HeardBy, Plainly, Bare
      <4> QED BY <1>3, <1>4, <1>s, <1>b, <1>a, <3>1, <4>1
    <3>2. CASE q # p
      BY <1>3, <1>4, <3>2
    <3> QED BY <3>1, <3>2
  <2> QED BY <1>3, <2>0, <2>1 DEF Known
<1>13. \A q \in Procs : pr'[q].dead = "no" => Orderly(pr'[q])
  <2>1. Orderly(e)
    BY <1>2, <1>5 DEF Orderly
  <2> QED BY <1>1, <1>4, <2>1 DEF HandshakeInv
<1>14. ASSUME NEW q \in Procs, Mates(p, q)
       PROVE  Pair(p, q, e, pr[q], s2c[q], v, a, c2s[q])
  <2>1. Pair(p, q, s, pr[q], s2c[q], b, a, c2s[q])
    BY <1>1, <1>14
  <2>2. /\ e.state = s.state /\ e.dead = s.dead /\ (s.remoteOnline => e.remoteOnline)
        /\ e.remoteOnline => HeardBy(p, s, a)
    BY <1>5 DEF HeardBy
  <2>3. Pair(p, q, e, pr[q], s2c[q], b, a, c2s[q])
    BY <2>1, <2>2, PairView
  <2>4. /\ Plainly(s2c[q], s2c[q], RemoteName[q]) /\ Bare(v, b) /\ Bare(c2s[q], c2s[q])
        /\ Plainly(a, a, RemoteName[p])
    BY <1>8, PlainlySame DEF Plainly
  <2> QED BY <2>3, <2>4, PairPlainly
<1>15. ASSUME NEW q \in Procs, NEW x \in Procs, Mates(q, x)
       PROVE  Pair(q, x, pr'[q], pr'[x], s2c'[x], c2s'[q], s2c'[q], c2s'[x])
  <2>0. q # x /\ Mates(x, q)
    BY <1>1, <1>15, MatesDiffer
  <2>1. CASE q = p
    BY <1>3, <1>4, <1>14, <1>15, <2>0, <2>1
  <2>2. CASE x = p
    <3>1. Pair(x, q, pr'[x], pr'[q], s2c'[q], c2s'[x], s2c'[x], c2s'[q])
      BY <1>3, <1>4, <1>14, <2>0, <2>2
    <3> QED BY <3>1, PairSwap
  <2>3. CASE q # p /\ x # p
    BY <1>1, <1>3, <1>4, <1>15, <2>3 DEF HandshakeInv
  <2> QED BY <2>1, <2>2, <2>3
<1>16. NoAssert'
  BY <1>1, <1>2, <1>4, <1>5 DEF HandshakeInv, NoAssert
<1> QED BY <1>10, <1>11, <1>12, <1>13, <1>15, <1>16 DEF HandshakeInv

\* The steps that are turns of the session.
LEMMA StepActs ==
    ASSUME Agreed, NEW p \in Procs,
           \/ Login(p) \/ SignalStep(p) \/ PostCreateSession(p) \/ TimeoutDue(p) \/ WorkerMsg(p)
           \/ Gather(p) \/ Flip(p) \/ Reallocate(p)
    PROVE  pr[p].dead = "no" /\ Acts(p)
<1>0. ProberInv
  BY DEF Agreed
<1>1. CASE Login(p)
  <2>1. pr[p].dead = "no"
    <3>1. pr[p].main = "off" /\ Process(p, pr[p])
      BY <1>0, <1>1 DEF Login, ProberInv
    <3>2. pr[p] \in Mid(p) => pr[p].main # "off"
      BY DEF Mid
    <3> QED BY <3>1, <3>2, InitIsMid DEF Process, Keeps
  <2> QED BY <1>0, <1>1, <2>1, LoginActs
<1>2. CASE SignalStep(p) \/ PostCreateSession(p) \/ TimeoutDue(p) \/ WorkerMsg(p) \/ Gather(p)
           \/ Flip(p) \/ Reallocate(p)
  <2>1. Alive(p)
    BY <1>2 DEF SignalStep, onStart_w, createSession_s, doInitiate_s, doAccept_s, StateMsg,
       CandidateReadyMsg, RequestSignalingMsg, ConnectingMsg, WriteStateMsg, onSessionTimeout,
       Dispatch, PostCreateSession, TimeoutDue, WorkerMsg, SignalingReadyMsg, RemoteCandidateMsg,
       Works, Gather, Flip, Reallocate
  <2>2. pr[p].dead = "no" /\ Orderly(pr[p])
    BY <2>1 DEF Alive, Agreed, HandshakeInv
  <2>3. Acts(p)
    BY <1>0, <1>2, <2>2, StartActs, CreateActs, DoInitiateActs, DoAcceptActs, StateMsgActs,
       CandidateMsgActs, RequestMsgActs, ConnectingMsgActs, WriteStateMsgActs, SessionTimeoutActs,
       PostCreateActs, TimeoutDueActs, WorkerActs DEF SignalStep
  <2> QED BY <2>2, <2>3
<1> QED BY <1>1, <1>2

LEMMA ProberStepAgrees ==
    ASSUME Agreed, NEW p \in Procs, ProberStep(p) PROVE HandshakeInv'
<1>1. CASE Login(p) \/ SignalStep(p) \/ PostCreateSession(p) \/ TimeoutDue(p) \/ WorkerMsg(p)
           \/ Gather(p) \/ Flip(p) \/ Reallocate(p)
  BY <1>1, StepActs, ActsAgree
<1>2. CASE PeerStep(p)
  BY <1>2, ConnectEventAgrees, CloseEventAgrees, RemoteLoginAgrees, RemoteOnlineAgrees,
     RemoteOfflineAgrees, RemoteMessageAgrees DEF PeerStep
<1>3. CASE Kill(p)
  BY <1>3, CloseEventAgrees
<1> QED BY <1>1, <1>2, <1>3 DEF ProberStep

-----------------------------------------------------------------------------
(* The server.                                                             *)

LEMMA ServerAgrees ==
    ASSUME Agreed, pr' = pr,
           \A q \in Procs : Line(q, conn'[q], c2s'[q], s2c'[q], pid'[q], pr[q], up'),
           \A q \in Procs : Entry(q)',
           \A q \in Procs : Known(q)',
           \A q, x \in Procs :
              Mates(q, x) => Pair(q, x, pr[q], pr[x], s2c'[x], c2s'[q], s2c'[q], c2s'[x])
    PROVE  HandshakeInv'
BY DEF Agreed, HandshakeInv, NoAssert

\* The table.
LEMMA Listed ==
    ASSUME Agreed, NEW n \in Registered
    PROVE  /\ peerObjects[n] \in Procs /\ n \in Names
           /\ n = MyName[peerObjects[n]] /\ pid[peerObjects[n]] = n
           /\ conn[peerObjects[n]] # "none"
<1>1. n \in Names /\ peerObjects[n] # NoProc
  BY DEF Registered
<1>q. PICK q \in Procs : q = peerObjects[n]
  BY <1>1 DEF Agreed, ProberInv, ServerType
<1>2. Entry(q) /\ Line(q, conn[q], c2s[q], s2c[q], pid[q], pr[q], up)
  BY DEF Agreed, HandshakeInv
<1>3. n = MyName[q] /\ pid[q] = n
  BY <1>1, <1>q, <1>2 DEF Entry
<1>4. conn[q] # "none"
  BY <1>1, <1>2, <1>3, ServerAssumption DEF Line
<1> QED BY <1>1, <1>q, <1>3, <1>4

\* Taking the first word of p off its stream.
TakesOff(p, c, b, a, n, s, u, k, m) ==
    /\ Line(p, c, b, a, n, s, u) /\ b \in Seq(Words) /\ b # <<>>
    /\ k # "none" /\ (s.dead = "no" => k = c) /\ m \in {NoName, MyName[p]}

LEMMA LineTail ==
    ASSUME NEW p, NEW c, NEW b, NEW a, NEW n, NEW s, NEW u, NEW k, NEW m,
           TakesOff(p, c, b, a, n, s, u, k, m), NEW y
    PROVE  Line(p, k, Tail(b), y, m, s, u)
<1>v. PICK v : v = Tail(b)
  OBVIOUS
<1>0. /\ Line(p, c, b, a, n, s, u) /\ b \in Seq(Words) /\ b # <<>>
      /\ k # "none" /\ (s.dead = "no" => k = c) /\ m \in {NoName, MyName[p]}
  BY DEF TakesOff
<1>1. \A i \in DOMAIN v : i + 1 \in DOMAIN b /\ v[i] = b[i + 1] /\ i + 1 # 1
  BY <1>0, <1>v
<1>2. c # "none"
  BY <1>0 DEF Line
<1>3. \A i \in DOMAIN v : v[i].type # "login"
  BY <1>0, <1>1 DEF Line
<1>4. \A i \in DOMAIN v : v[i].type = "send" => v[i].who = {RemoteName[p]}
  BY <1>0, <1>1 DEF Line
<1>5. s.dead = "no" => /\ s.sock = "open" => k # "none" /\ (u => k = "open")
                       /\ s.sock # "open" => k = "none"
                       /\ \A i \in DOMAIN v : v[i] # FinWord
  BY <1>0, <1>1, <1>2 DEF Line
<1> QED BY <1>0, <1>3, <1>4, <1>5, <1>v DEF Line

LEMMA LineWrites ==
    ASSUME NEW p, NEW c, NEW b, NEW a, NEW n, NEW s, NEW u, Line(p, c, b, a, n, s, u),
           NEW y, y = a \/ c # "none"
    PROVE  Line(p, c, b, y, n, s, u)
BY DEF Line

\* A word that says nothing to n.
LEMMA PlainWrite ==
    ASSUME ServerType, NEW S, NEW w \in Words, ~Carries(w), NEW n, w # LoginWord(n),
           NEW q \in Procs
    PROVE  Plainly(WriteAll(S, w)[q], s2c[q], n)
<1>a. PICK a \in Seq(Words) : a = s2c[q]
  BY DEF ServerType
<1>1. CASE q \in S
  <2>1. WriteAll(S, w)[q] = Append(a, w)
    BY <1>1, <1>a DEF WriteAll
  <2> QED BY <1>a, <2>1, PlainlyAppend
<1>2. CASE q \notin S
  <2>1. WriteAll(S, w)[q] = s2c[q]
    BY <1>2 DEF WriteAll
  <2> QED BY <2>1, PlainlySame
<1> QED BY <1>1, <1>2

\* A step of the server that moves no message and no login.
LEMMA PlainStepAgrees ==
    ASSUME Agreed, pr' = pr, pid' = pid,
           \A q \in Procs : Line(q, conn'[q], c2s'[q], s2c'[q], pid[q], pr[q], up'),
           \A q \in Procs : Entry(q)',
           \A q \in Procs : Plainly(s2c'[q], s2c[q], RemoteName[q]) /\ Bare(c2s'[q], c2s[q])
    PROVE  HandshakeInv'
<1>1. ASSUME NEW q \in Procs PROVE Known(q)'
  <2>1. Known(q)
    BY DEF Agreed, HandshakeInv
  <2>2. Trace(q, pr[q], c2s'[q], s2c'[q]) => Trace(q, pr[q], c2s[q], s2c[q])
    BY DEF Trace, HeardBy, Plainly, Bare
  <2> QED BY <2>1, <2>2 DEF Known
<1>2. ASSUME NEW q \in Procs, NEW x \in Procs, Mates(q, x)
      PROVE  Pair(q, x, pr[q], pr[x], s2c'[x], c2s'[q], s2c'[q], c2s'[x])
  <2>1. Pair(q, x, pr[q], pr[x], s2c[x], c2s[q], s2c[q], c2s[x])
    BY <1>2 DEF Agreed, HandshakeInv
  <2>2. /\ Plainly(s2c'[x], s2c[x], RemoteName[x]) /\ Bare(c2s'[q], c2s[q])
        /\ Plainly(s2c'[q], s2c[q], RemoteName[q]) /\ Bare(c2s'[x], c2s[x])
    OBVIOUS
  <2> QED BY <2>1, <2>2, PairPlainly
<1> QED BY <1>1, <1>2, ServerAgrees

LEMMA ServerDiesAgrees ==
    ASSUME Agreed, ServerDies, pr' = pr PROVE HandshakeInv'
<1>0. ServerType /\ HandshakeInv
  BY DEF Agreed, ProberInv
<1>1. /\ up' = FALSE /\ pid' = pid /\ c2s' = c2s
      /\ \A q \in Procs : conn'[q] = IF conn[q] = "none" THEN "none" ELSE "closed"
      /\ \A n \in Names : peerObjects'[n] = NoProc
      /\ s2c' = WriteAll({q \in Procs : conn[q] = "open"}, FinWord)
  BY DEF ServerDies
<1>2. FinWord \in Words /\ ~Carries(FinWord) /\ \A n : FinWord # LoginWord(n)
  BY WordTypes DEF Carries, FinWord, LoginWord, Word
<1>3. \A q \in Procs : Plainly(s2c'[q], s2c[q], RemoteName[q]) /\ Bare(c2s'[q], c2s[q])
  BY <1>0, <1>1, <1>2, PlainWrite, PlainlySame DEF Plainly
<1>4. ASSUME NEW q \in Procs PROVE Line(q, conn'[q], c2s'[q], s2c'[q], pid[q], pr[q], up')
  <2>1. Line(q, conn[q], c2s[q], s2c[q], pid[q], pr[q], up)
    BY <1>0 DEF HandshakeInv
  <2>2. CASE conn[q] = "none"
    <3>1. s2c'[q] = s2c[q] /\ conn'[q] = "none"
      BY <1>1, <2>2 DEF WriteAll
    <3> QED BY <1>1, <2>1, <2>2, <3>1 DEF Line
  <2>3. CASE conn[q] # "none"
    <3>1. conn'[q] = "closed"
      BY <1>1, <2>3
    <3> QED BY <1>1, <2>1, <2>3, <3>1 DEF Line
  <2> QED BY <2>2, <2>3
<1>5. \A q \in Procs : Entry(q)'
  BY <1>1, ServerAssumption DEF Entry
<1> QED BY <1>1, <1>3, <1>4, <1>5, PlainStepAgrees

\* The head of p's stream.
Received(p, b, w) ==
    /\ b = c2s[p]
    /\ b \in Seq(Words) /\ b # <<>> /\ w = Head(b) /\ w \in Words /\ 1 \in DOMAIN b /\ b[1] = w
    /\ c2s'[p] = Tail(b)
    /\ \A q \in Procs : q # p => c2s'[q] = c2s[q]
    /\ up /\ conn[p] # "none"

LEMMA ReceivesIs ==
    ASSUME ServerType, NEW p \in Procs, NEW w, Receives(p, w)
    PROVE  Received(p, c2s[p], w)
<1>b. PICK b : b = c2s[p]
  OBVIOUS
<1>1. b \in Seq(Words) /\ b # <<>> /\ w = Head(b) /\ c2s' = [c2s EXCEPT ![p] = Tail(b)] /\ up
      /\ conn[p] # "none"
  BY <1>b DEF Receives, ServerType
<1>2. w \in Words /\ 1 \in DOMAIN b /\ b[1] = w
  BY <1>1
<1>3. c2s'[p] = Tail(b) /\ \A q \in Procs : q # p => c2s'[q] = c2s[q]
  BY <1>1 DEF ServerType
<1> QED BY <1>b, <1>1, <1>2, <1>3 DEF Received

LEMMA CloseAgrees ==
    ASSUME Agreed, NEW p \in Procs, OnClose(p), pr' = pr PROVE HandshakeInv'
<1>0. ServerType /\ HandshakeInv /\ OwnNames
  BY DEF Agreed, ProberInv
<1>b. PICK b : b = c2s[p]
  OBVIOUS
<1>1. /\ b \in Seq(Words) /\ b # <<>> /\ FinWord = Head(b) /\ 1 \in DOMAIN b /\ b[1] = FinWord
      /\ c2s'[p] = Tail(b)
      /\ \A q \in Procs : q # p => c2s'[q] = c2s[q]
  <2>1. Receives(p, FinWord)
    BY DEF OnClose
  <2>2. Received(p, c2s[p], FinWord)
    BY <1>0, <2>1, ReceivesIs
  <2> QED BY <1>b, <2>2 DEF Received
<1>2. Line(p, conn[p], b, s2c[p], pid[p], pr[p], up) /\ Entry(p)
  BY <1>0, <1>b DEF HandshakeInv
<1>3. pr[p].dead # "no"
  BY <1>1, <1>2 DEF Line
<1>4. /\ up' = up /\ pid' = pid /\ conn'[p] = "closed"
      /\ \A q \in Procs : q # p => conn'[q] = conn[q]
  BY <1>0 DEF OnClose, ServerType
<1>5. FinWord \in Words /\ ~Carries(FinWord)
  BY WordTypes DEF Carries, FinWord, Word
<1>6. Bare(c2s'[p], b)
  <2>1. /\ ~Carries(Head(b)) => (None(Tail(b)) <=> None(b))
        /\ Trans(b) => Trans(Tail(b))
        /\ \A t : Led(b, t) /\ ~Carries(Head(b)) => Led(Tail(b), t)
    BY <1>1, StreamTail
  <2> QED BY <1>1, <1>5, <2>1 DEF Bare
<1>o. OwnsEntry(p) => pid[p] \in Names /\ pid[p] = MyName[p] /\ peerObjects[pid[p]] = p
  <2>1. SUFFICES ASSUME pid[p] \in Registered
                 PROVE  pid[p] \in Names /\ pid[p] = MyName[p] /\ peerObjects[pid[p]] = p
    BY DEF OwnsEntry
  <2>2. /\ peerObjects[pid[p]] \in Procs /\ pid[p] \in Names
        /\ pid[p] = MyName[peerObjects[pid[p]]]
    BY <2>1, Listed
  <2>3. pid[p] = MyName[p]
    BY <1>2, <2>2, ServerAssumption DEF Line
  <2> QED BY <1>0, <2>2, <2>3 DEF OwnNames
<1>7. ASSUME NEW q \in Procs
      PROVE  /\ Plainly(s2c'[q], s2c[q], RemoteName[q])
             /\ s2c'[q] = s2c[q] \/ conn[q] # "none"
  <2>1. CASE OwnsEntry(p)
    <3>n. PICK n \in Names : n = pid[p]
      BY <1>o, <2>1
    <3>1. s2c' = WriteAll({peerObjects[m] : m \in Registered \ {n}}, OfflineWord(n))
      BY <2>1, <3>n DEF OnClose
    <3>2. OfflineWord(n) \in Words /\ ~Carries(OfflineWord(n)) /\ OfflineWord(n) # LoginWord(RemoteName[q])
      BY WordTypes DEF Carries, OfflineWord, LoginWord, Word
    <3>3. Plainly(s2c'[q], s2c[q], RemoteName[q])
      BY <1>0, <3>1, <3>2, PlainWrite
    <3>4. CASE q \in {peerObjects[m] : m \in Registered \ {n}}
      BY <3>3, <3>4, Listed
    <3>5. CASE q \notin {peerObjects[m] : m \in Registered \ {n}}
      BY <3>1, <3>3, <3>5 DEF WriteAll
    <3> QED BY <3>4, <3>5
  <2>2. CASE ~OwnsEntry(p)
    BY <2>2, PlainlySame DEF OnClose
  <2> QED BY <2>1, <2>2
<1>8. \A q \in Procs : Plainly(s2c'[q], s2c[q], RemoteName[q]) /\ Bare(c2s'[q], c2s[q])
  BY <1>1, <1>6, <1>7, <1>b, PlainlySame DEF Plainly
<1>9. ASSUME NEW q \in Procs PROVE Line(q, conn'[q], c2s'[q], s2c'[q], pid[q], pr[q], up')
  <2>1. CASE q = p
    <3>1. pid[p] \in {NoName, MyName[p]}
      BY <1>2 DEF Line
    <3>2. Line(p, "closed", c2s'[p], s2c'[p], pid[p], pr[p], up)
      <4>1. TakesOff(p, conn[p], b, s2c[p], pid[p], pr[p], up, "closed", pid[p])
        BY <1>1, <1>2, <1>3, <3>1 DEF TakesOff
      <4>2. Line(p, "closed", Tail(b), s2c'[p], pid[p], pr[p], up)
        BY <4>1, LineTail
      <4> QED BY <1>1, <4>2
    <3> QED BY <1>4, <2>1, <3>2
  <2>2. CASE q # p
    <3>1. Line(q, conn[q], c2s[q], s2c[q], pid[q], pr[q], up)
      BY <1>0 DEF HandshakeInv
    <3>2. Line(q, conn[q], c2s[q], s2c'[q], pid[q], pr[q], up)
      BY <1>7, <3>1, LineWrites
    <3> QED BY <1>1, <1>4, <2>2, <3>2
  <2> QED BY <2>1, <2>2
<1>10. ASSUME NEW q \in Procs PROVE Entry(q)'
  <2>0. Entry(q)
    BY <1>0 DEF HandshakeInv
  <2>1. CASE OwnsEntry(p)
    <3>n. PICK n \in Names : n = pid[p] /\ n = MyName[p]
      BY <1>o, <2>1
    <3>1. peerObjects' = [peerObjects EXCEPT ![n] = NoProc]
      BY <2>1, <3>n DEF OnClose
    <3>2. peerObjects'[n] = NoProc /\ \A m \in Names : m # n => peerObjects'[m] = peerObjects[m]
      BY <1>0, <3>1 DEF ServerType
    <3>3. CASE q = p
      BY ZenonT(60), <1>4, <2>0, <3>2, <3>3, ServerAssumption DEF Entry
    <3>4. CASE q # p
      <4>1. MyName[q] \in Names /\ MyName[q] # n
        BY <1>0, <3>n, <3>4, ProberAssumption DEF OwnNames
      <4> QED BY ZenonT(60), <1>4, <2>0, <3>2, <3>4, <4>1, ServerAssumption DEF Entry
    <3> QED BY <3>3, <3>4
  <2>2. CASE ~OwnsEntry(p)
    <3>1. peerObjects' = peerObjects
      BY <2>2 DEF OnClose
    <3>2. CASE q = p
      BY <1>4, <2>0, <3>1, <3>2 DEF Entry
    <3>3. CASE q # p
      BY <1>4, <2>0, <3>1, <3>3 DEF Entry
    <3> QED BY <3>2, <3>3
  <2> QED BY <2>1, <2>2
<1> QED BY <1>4, <1>8, <1>9, <1>10, PlainStepAgrees

\* What the server knows of a process whose login it reads.
LEMMA LoginIs ==
    ASSUME Agreed, NEW p \in Procs, NEW n, Receives(p, LoginWord(n))
    PROVE  /\ n = MyName[p] /\ n \in Names /\ pid[p] = NoName
           /\ \A m \in Registered : peerObjects[m] # p
           /\ n \notin Registered
<1>0. ServerType /\ HandshakeInv /\ OwnNames
  BY DEF Agreed, ProberInv
<1>1. Received(p, c2s[p], LoginWord(n))
  BY <1>0, ReceivesIs
<1>2. Line(p, conn[p], c2s[p], s2c[p], pid[p], pr[p], up)
  BY <1>0 DEF HandshakeInv
<1>3. LoginWord(n).type = "login" /\ \A m : LoginWord(n) = LoginWord(m) => n = m
  BY DEF LoginWord, Word
<1>4. n = MyName[p] /\ pid[p] = NoName
  BY <1>1, <1>2, <1>3 DEF Received, Line
<1>5. n \in Names
  BY <1>4, ProberAssumption
<1>6. \A m \in Registered : peerObjects[m] # p
  BY <1>4, Listed, ServerAssumption
<1>7. n \notin Registered
  BY <1>0, <1>4, <1>6, Listed DEF OwnNames
<1> QED BY <1>4, <1>5, <1>6, <1>7

LEMMA KickedAgrees ==
    ASSUME Agreed, NEW p \in Procs, LoginKicked(p) PROVE FALSE
BY LoginIs DEF LoginKicked

LEMMA AcceptedAgrees ==
    ASSUME Agreed, NEW p \in Procs, LoginAccepted(p), pr' = pr PROVE HandshakeInv'
<1>0. ServerType /\ HandshakeInv /\ OwnNames
  BY DEF Agreed, ProberInv
<1>n. PICK n \in Names :
        /\ Receives(p, LoginWord(n))
        /\ n \notin Registered
        /\ pid' = [pid EXCEPT ![p] = n]
        /\ s2c' = [WriteAll(Users, LoginWord(n)) EXCEPT ![p] = @ \o OnlineList]
        /\ peerObjects' = [peerObjects EXCEPT ![n] = p]
        /\ UNCHANGED <<up, conn>>
  BY DEF LoginAccepted
<1>1. /\ n = MyName[p] /\ pid[p] = NoName
      /\ \A m \in Registered : peerObjects[m] # p
  BY <1>n, LoginIs
<1>b. PICK b : b = c2s[p]
  OBVIOUS
<1>2. /\ b \in Seq(Words) /\ b # <<>> /\ LoginWord(n) = Head(b)
      /\ c2s'[p] = Tail(b) /\ conn[p] # "none"
      /\ \A q \in Procs : q # p => c2s'[q] = c2s[q]
  BY <1>0, <1>b, <1>n, ReceivesIs DEF Received
<1>u. p \notin Users
  BY <1>1 DEF Users
<1>3. /\ pid'[p] = n /\ \A q \in Procs : q # p => pid'[q] = pid[q]
      /\ peerObjects'[n] = p /\ \A m \in Names : m # n => peerObjects'[m] = peerObjects[m]
      /\ up' = up /\ conn' = conn
  BY <1>0, <1>n DEF ServerType
<1>4. /\ s2c'[p] = s2c[p] \o OnlineList
      /\ \A q \in Procs : q # p /\ q \in Users => s2c'[q] = Append(s2c[q], LoginWord(n))
      /\ \A q \in Procs : q # p /\ q \notin Users => s2c'[q] = s2c[q]
  BY <1>n, <1>u DEF WriteAll
<1>w. LoginWord(n) \in Words /\ ~Carries(LoginWord(n)) /\ \A m : m # n => LoginWord(n) # LoginWord(m)
  BY WordTypes DEF Carries, LoginWord, Word
<1>5. Plainly(s2c'[p], s2c[p], RemoteName[p])
  <2>a. PICK a \in Seq(Words) : a = s2c[p]
    BY <1>0 DEF ServerType
  <2>1. CASE Registered = {}
    <3>1. s2c'[p] = a
      BY <1>4, <2>a, <2>1 DEF OnlineList
    <3> QED BY <2>a, <3>1, PlainlySame
  <2>2. CASE Registered # {}
    <3>w. PICK w \in Words : w = OnlineWord(Registered)
      BY WordTypes DEF Registered
    <3>o. OnlineList = <<w>>
      BY <2>2, <3>w DEF OnlineList
    <3>c. a \o <<w>> = Append(a, w)
      OBVIOUS
    <3>1. s2c'[p] = Append(a, w)
      BY <1>4, <2>a, <3>o, <3>c
    <3>2. ~Carries(w) /\ w # LoginWord(RemoteName[p])
      BY <3>w DEF Carries, OnlineWord, LoginWord, Word
    <3> QED BY <2>a, <3>1, <3>2, PlainlyAppend
  <2> QED BY <2>1, <2>2
<1>6. ASSUME NEW q \in Procs, q # p, RemoteName[q] # n
      PROVE  Plainly(s2c'[q], s2c[q], RemoteName[q])
  <2>a. PICK a \in Seq(Words) : a = s2c[q]
    BY <1>0 DEF ServerType
  <2>1. CASE q \in Users
    <3>1. LoginWord(n) # LoginWord(RemoteName[q]) /\ s2c'[q] = Append(a, LoginWord(n))
      BY <1>4, <1>6, <1>w, <2>a, <2>1
    <3>2. Plainly(s2c'[q], a, RemoteName[q])
      BY <1>w, <3>1, PlainlyAppend
    <3> QED BY <2>a, <3>2
  <2>2. CASE q \notin Users
    BY <1>4, <1>6, <2>2, PlainlySame
  <2> QED BY <2>1, <2>2
<1>7. ASSUME NEW q \in Procs, q # p PROVE None(s2c'[q]) <=> None(s2c[q])
  <2>a. PICK a \in Seq(Words) : a = s2c[q]
    BY <1>0 DEF ServerType
  <2>k. PICK k : k # n
    <3>1. NoName # n
      BY ServerAssumption
    <3> QED BY <3>1
  <2>1. CASE q \in Users
    <3>1. LoginWord(n) # LoginWord(k) /\ s2c'[q] = Append(a, LoginWord(n))
      BY <1>4, <1>7, <1>w, <2>a, <2>1, <2>k
    <3>2. Plainly(s2c'[q], a, k)
      BY <1>w, <3>1, PlainlyAppend
    <3> QED BY <2>a, <3>2 DEF Plainly, Bare
  <2>2. CASE q \notin Users
    BY <1>4, <1>7, <2>2
  <2> QED BY <2>1, <2>2
<1>8. Bare(c2s'[p], b)
  <2>1. /\ ~Carries(Head(b)) => (None(Tail(b)) <=> None(b))
        /\ Trans(b) => Trans(Tail(b))
        /\ \A t : Led(b, t) /\ ~Carries(Head(b)) => Led(Tail(b), t)
    BY <1>2, StreamTail
  <2> QED BY <1>2, <1>w, <2>1 DEF Bare
<1>9. ASSUME NEW q \in Procs PROVE q \in Users => conn[q] # "none" /\ pid[q] # NoName
  BY Listed, ServerAssumption DEF Users
<1>10. ASSUME NEW q \in Procs PROVE Line(q, conn'[q], c2s'[q], s2c'[q], pid'[q], pr[q], up')
  <2>0. Line(q, conn[q], c2s[q], s2c[q], pid[q], pr[q], up)
    BY <1>0 DEF HandshakeInv
  <2>1. CASE q = p
    <3>1. TakesOff(p, conn[p], b, s2c[p], pid[p], pr[p], up, conn[p], n)
      BY <1>1, <1>2, <1>b, <2>0, <2>1 DEF TakesOff
    <3>2. Line(p, conn[p], Tail(b), s2c'[p], n, pr[p], up)
      BY <3>1, LineTail
    <3> QED BY <1>2, <1>3, <2>1, <3>2
  <2>2. CASE q # p
    <3>1. s2c'[q] = s2c[q] \/ conn[q] # "none"
      BY <1>4, <1>9, <2>2
    <3>2. Line(q, conn[q], c2s[q], s2c'[q], pid[q], pr[q], up)
      BY <2>0, <3>1, LineWrites
    <3> QED BY <1>2, <1>3, <2>2, <3>2
  <2> QED BY <2>1, <2>2
<1>11. ASSUME NEW q \in Procs PROVE Entry(q)'
  <2>0. Entry(q)
    BY <1>0 DEF HandshakeInv
  <2>1. CASE q = p
    <3>1. \A m \in Names : m # n => peerObjects[m] # p
      BY <1>1, <2>0, <2>1 DEF Entry
    <3> QED BY <1>1, <1>3, <2>1, <3>1 DEF Entry
  <2>2. CASE q # p
    <3>1. MyName[q] \in Names /\ MyName[q] # n
      BY <1>0, <1>1, <2>2, ProberAssumption DEF OwnNames
    <3> QED BY <1>3, <2>0, <2>2, <3>1 DEF Entry
  <2> QED BY <2>1, <2>2
<1>t. ~Trace(p, pr[p], b, s2c[p])
  BY <1>0, <1>1, <1>b DEF HandshakeInv, Known
<1>12. ASSUME NEW q \in Procs PROVE Known(q)'
  <2>0. Known(q)
    BY <1>0 DEF HandshakeInv
  <2>1. CASE q = p
    <3>1. ~Trace(p, pr[p], c2s'[p], s2c'[p])
      BY <1>5, <1>8, <1>t DEF Trace, HeardBy, Plainly, Bare
    <3> QED BY <2>1, <3>1 DEF Known
  <2>2. CASE q # p /\ RemoteName[q] # n
    <3>1. Trace(q, pr[q], c2s'[q], s2c'[q]) => Trace(q, pr[q], c2s[q], s2c[q])
      BY <1>2, <1>6, <2>2 DEF Trace, HeardBy, Plainly, Bare
    <3>2. pid[q] # NoName => pid'[q] # NoName
      BY <1>3, <2>2
    <3>3. \A x \in Procs : pid[x] # NoName => pid'[x] # NoName
      BY <1>1, <1>3
    <3> QED BY <2>0, <3>1, <3>2, <3>3 DEF Known
  <2>3. CASE q # p /\ RemoteName[q] = n
    <3>1. Mates(q, p)
      BY <1>0, <1>1, <2>3 DEF Mates, OwnNames
    <3>2. pid'[p] # NoName
      BY <1>3, ServerAssumption
    <3>3. Trace(q, pr[q], c2s'[q], s2c'[q]) => pid[q] # NoName
      <4>1. CASE q \in Users
        BY <1>9, <4>1
      <4>2. CASE q \notin Users
        BY <1>2, <1>4, <2>0, <2>3, <4>2 DEF Known
      <4> QED BY <4>1, <4>2
    <3> QED BY <1>3, <2>3, <3>1, <3>2, <3>3 DEF Known
  <2> QED BY <2>1, <2>2, <2>3
<1>13. ASSUME NEW q \in Procs, Mates(p, q)
       PROVE  Pair(p, q, pr[p], pr[q], s2c'[q], c2s'[p], s2c'[p], c2s'[q])
  <2>0. q # p /\ Mates(q, p) /\ \A x \in Procs : Mates(q, x) => x = p
    BY <1>0, <1>13, MatesDiffer
  <2>1. Pair(p, q, pr[p], pr[q], s2c[q], b, s2c[p], c2s[q])
    BY <1>0, <1>13, <1>b DEF HandshakeInv
  <2>2. ~Trace(q, pr[q], c2s[q], s2c[q])
    BY <1>0, <1>1, <2>0 DEF HandshakeInv, Known
  <2>3. ~HeardBy(p, pr[p], s2c[p]) /\ PNone(s2c[q], b)
    BY <1>t, <2>2 DEF Trace, PNone
  <2>4. None(s2c'[q]) /\ None(c2s'[p]) /\ c2s'[q] = c2s[q]
    BY <1>2, <1>7, <1>8, <2>0, <2>3 DEF PNone, Bare
  <2> QED BY <1>5, <2>1, <2>3, <2>4, PairLogin
<1>14. ASSUME NEW q \in Procs, NEW x \in Procs, Mates(q, x)
       PROVE  Pair(q, x, pr[q], pr[x], s2c'[x], c2s'[q], s2c'[q], c2s'[x])
  <2>0. q # x /\ Mates(x, q)
    BY <1>0, <1>14, MatesDiffer
  <2>1. CASE q = p
    BY <1>13, <1>14, <2>1
  <2>2. CASE x = p
    <3>1. Pair(x, q, pr[x], pr[q], s2c'[q], c2s'[x], s2c'[x], c2s'[q])
      BY <1>13, <2>0, <2>2
    <3> QED BY <3>1, PairSwap
  <2>3. CASE q # p /\ x # p
    <3>1. RemoteName[q] # n /\ RemoteName[x] # n
      BY <1>0, <1>1, <1>14, <2>3 DEF Mates, OwnNames
    <3>2. /\ Plainly(s2c'[x], s2c[x], RemoteName[x]) /\ Plainly(s2c'[q], s2c[q], RemoteName[q])
          /\ c2s'[q] = c2s[q] /\ c2s'[x] = c2s[x]
      BY <1>2, <1>6, <2>3, <3>1
    <3>3. Bare(c2s'[q], c2s[q]) /\ Bare(c2s'[x], c2s[x])
      BY <3>2, PlainlySame DEF Plainly
    <3>4. Pair(q, x, pr[q], pr[x], s2c[x], c2s[q], s2c[q], c2s[x])
      BY <1>0, <1>14 DEF HandshakeInv
    <3> QED BY <3>2, <3>3, <3>4, PairPlainly
  <2> QED BY <2>1, <2>2, <2>3
<1> QED BY <1>10, <1>11, <1>12, <1>14, ServerAgrees

\* What is so when the server reads a message of p: it is for the partner q,
\* which has logged in; it reaches q, or q is dead.
Relays(p, q, b, y) ==
    /\ Mates(p, q) /\ pid[q] # NoName /\ pid[p] \in Names
    /\ b = c2s[p] /\ b \in Seq(Words) /\ b # <<>> /\ Carries(Head(b)) /\ Head(b).body \in Msgs
    /\ c2s'[p] = Tail(b) /\ conn[p] # "none" /\ conn[q] # "none"
    /\ \A x \in Procs : x # p => c2s'[x] = c2s[x]
    /\ \A x \in Procs : x # q => s2c'[x] = s2c[x]
    /\ \/ y = MessageWord(pid[p], Head(b).body) /\ s2c'[q] = Append(s2c[q], y)
       \/ pr[q].dead # "no" /\ s2c'[q] = s2c[q]

\* A living process that has logged in is in the table.
LEMMA LivesListed ==
    ASSUME Agreed, NEW q \in Procs, up, pid[q] # NoName, pr[q].dead = "no"
    PROVE  MyName[q] \in Registered
<1>1. Line(q, conn[q], c2s[q], s2c[q], pid[q], pr[q], up) /\ Entry(q)
  BY DEF Agreed, HandshakeInv
<1>2. conn[q] = "open"
  BY <1>1 DEF Line
<1>3. peerObjects[MyName[q]] = q
  BY <1>1, <1>2 DEF Entry
<1> QED BY <1>3, ProberAssumption, ServerAssumption DEF Registered

LEMMA SendRelays ==
    ASSUME Agreed, NEW p \in Procs, Send(p)
    PROVE  /\ \E q \in Procs : \E y : Relays(p, q, c2s[p], y)
           /\ up' = up /\ conn' = conn /\ pid' = pid /\ peerObjects' = peerObjects
<1>0. ServerType /\ HandshakeInv /\ OwnNames
  BY DEF Agreed, ProberInv
<1>b. PICK b : b = c2s[p]
  OBVIOUS
<1>n. PICK n \in Names :
        /\ Receives(p, SendWord(n, Head(b).body))
        /\ s2c' = IF pid[p] # NoName /\ n \in Registered
                  THEN WriteAll({peerObjects[n]}, MessageWord(pid[p], Head(b).body))
                  ELSE s2c
        /\ UNCHANGED <<up, conn, pid, peerObjects>>
  BY <1>b DEF Send
<1>w. PICK w : w = SendWord(n, Head(b).body)
  OBVIOUS
<1>1. /\ b \in Seq(Words) /\ b # <<>> /\ w = Head(b) /\ w \in Words /\ 1 \in DOMAIN b /\ b[1] = w
      /\ c2s'[p] = Tail(b) /\ up /\ conn[p] # "none"
      /\ \A x \in Procs : x # p => c2s'[x] = c2s[x]
  BY <1>0, <1>b, <1>n, <1>w, ReceivesIs DEF Received
<1>2. w.type = "send" /\ w.who = {n} /\ w.body \in Msgs
  <2>1. w.type = "send" /\ w.who = {n}
    BY <1>w DEF SendWord, Word
  <2> QED BY <1>1, <2>1 DEF Words
<1>3. Carries(w) /\ ~None(b)
  BY <1>1, <1>2 DEF Carries, None
<1>4. Line(p, conn[p], b, s2c[p], pid[p], pr[p], up)
  BY <1>0, <1>b DEF HandshakeInv
<1>5. n = RemoteName[p]
  <2>1. w.who = {RemoteName[p]}
    BY <1>1, <1>2, <1>4 DEF Line
  <2> QED BY <1>2, <2>1
<1>6. PICK q \in Procs : pid[p] # NoName /\ Mates(p, q) /\ pid[q] # NoName
  BY <1>0, <1>3, <1>b DEF HandshakeInv, Known, Trace
<1>7. pid[p] \in Names /\ conn[q] # "none"
  <2>1. Line(q, conn[q], c2s[q], s2c[q], pid[q], pr[q], up)
    BY <1>0 DEF HandshakeInv
  <2> QED BY <1>0, <1>6, <2>1 DEF Line, ServerType
<1>y. PICK y : y = MessageWord(pid[p], Head(b).body)
  OBVIOUS
<1>8. CASE n \in Registered
  <2>1. peerObjects[n] = q
    BY <1>0, <1>5, <1>6, <1>8, Listed DEF Mates, OwnNames
  <2>2. s2c' = WriteAll({q}, y)
    BY <1>6, <1>8, <1>n, <1>y, <2>1
  <2>3. s2c'[q] = Append(s2c[q], y) /\ \A x \in Procs : x # q => s2c'[x] = s2c[x]
    BY <2>2 DEF WriteAll
  <2>4. Relays(p, q, b, y)
    BY <1>1, <1>2, <1>3, <1>6, <1>7, <1>b, <1>y, <2>3 DEF Relays
  <2> QED BY <1>b, <1>n, <2>4
<1>9. CASE n \notin Registered
  <2>1. s2c' = s2c
    BY <1>9, <1>n
  <2>2. pr[q].dead # "no"
    BY <1>1, <1>5, <1>6, <1>9, LivesListed DEF Mates
  <2>4. Relays(p, q, b, y)
    BY <1>1, <1>2, <1>3, <1>6, <1>7, <1>b, <2>1, <2>2 DEF Relays
  <2> QED BY <1>b, <1>n, <2>4
<1> QED BY <1>8, <1>9

LEMMA SendAgrees ==
    ASSUME Agreed, NEW p \in Procs, Send(p), pr' = pr PROVE HandshakeInv'
<1>0. ServerType /\ HandshakeInv /\ OwnNames
  BY DEF Agreed, ProberInv
<1>b. PICK b : b = c2s[p]
  OBVIOUS
<1>q. PICK q \in Procs : \E y : Relays(p, q, b, y)
  BY <1>b, SendRelays
<1>y. PICK y : Relays(p, q, b, y)
  BY <1>q
<1>1. /\ Mates(p, q) /\ pid[q] # NoName /\ pid[p] \in Names
      /\ b \in Seq(Words) /\ b # <<>> /\ Carries(Head(b)) /\ Head(b).body \in Msgs
      /\ c2s'[p] = Tail(b) /\ conn[p] # "none" /\ conn[q] # "none"
      /\ \A x \in Procs : x # p => c2s'[x] = c2s[x]
      /\ \A x \in Procs : x # q => s2c'[x] = s2c[x]
      /\ \/ y = MessageWord(pid[p], Head(b).body) /\ s2c'[q] = Append(s2c[q], y)
         \/ pr[q].dead # "no" /\ s2c'[q] = s2c[q]
  BY <1>y DEF Relays
<1>2. up' = up /\ conn' = conn /\ pid' = pid /\ peerObjects' = peerObjects
  BY SendRelays
<1>3. /\ p # q /\ Mates(q, p) /\ pid[p] # NoName
      /\ \A x \in Procs : Mates(p, x) => x = q
      /\ \A x \in Procs : Mates(q, x) => x = p
  BY <1>0, <1>1, MatesDiffer, ServerAssumption
<1>4. ASSUME NEW x \in Procs PROVE Line(x, conn'[x], c2s'[x], s2c'[x], pid'[x], pr[x], up')
  <2>0. Line(x, conn[x], c2s[x], s2c[x], pid[x], pr[x], up)
    BY <1>0 DEF HandshakeInv
  <2>1. CASE x = p
    <3>0. pid[p] \in {NoName, MyName[p]}
      BY <2>0, <2>1 DEF Line
    <3>1. TakesOff(p, conn[p], b, s2c[p], pid[p], pr[p], up, conn[p], pid[p])
      BY <1>1, <1>b, <2>0, <2>1, <3>0 DEF TakesOff
    <3>2. Line(p, conn[p], Tail(b), s2c[p], pid[p], pr[p], up)
      BY <3>1, LineTail
    <3> QED BY <1>1, <1>2, <1>3, <2>1, <3>2
  <2>2. CASE x # p
    <3>1. s2c'[x] = s2c[x] \/ conn[x] # "none"
      BY <1>1
    <3>2. Line(x, conn[x], c2s[x], s2c'[x], pid[x], pr[x], up)
      BY <2>0, <3>1, LineWrites
    <3> QED BY <1>1, <1>2, <2>2, <3>2
  <2> QED BY <2>1, <2>2
<1>5. \A x \in Procs : Entry(x)'
  BY <1>0, <1>2 DEF HandshakeInv, Entry
<1>6. ASSUME NEW x \in Procs PROVE Known(x)'
  <2>1. CASE x = p \/ x = q
    BY <1>1, <1>2, <1>3, <2>1 DEF Known
  <2>2. CASE x # p /\ x # q
    BY <1>0, <1>1, <1>2, <2>2 DEF HandshakeInv, Known
  <2> QED BY <2>1, <2>2
<1>7. Pair(p, q, pr[p], pr[q], s2c'[q], c2s'[p], s2c'[p], c2s'[q])
  <2>a. PICK a \in Seq(Words) : a = s2c[q]
    BY <1>0 DEF ServerType
  <2>0. Pair(p, q, pr[p], pr[q], a, b, s2c[p], c2s[q])
    BY <1>0, <1>1, <1>b, <2>a DEF HandshakeInv
  <2>e. s2c'[p] = s2c[p] /\ c2s'[q] = c2s[q]
    BY <1>1, <1>3
  <2>1. CASE y = MessageWord(pid[p], Head(b).body) /\ s2c'[q] = Append(s2c[q], y)
    <3>1. y \in Words
      BY <1>1, <2>1, WordTypes
    <3>2. Carries(y) /\ y.body = Head(b).body /\ y # LoginWord(RemoteName[q])
      BY <2>1 DEF Carries, MessageWord, LoginWord, Word
    <3>3. s2c'[q] = Append(a, y)
      BY <2>1, <2>a
    <3>4. Pair(p, q, pr[p], pr[q], s2c'[q], Tail(b), s2c[p], c2s[q])
      BY <1>1, <2>0, <3>1, <3>2, <3>3, PairRelay
    <3> QED BY <1>1, <2>e, <3>4
  <2>2. CASE pr[q].dead # "no" /\ s2c'[q] = s2c[q]
    <3>1. Pair(p, q, pr[p], pr[q], a, Tail(b), s2c[p], c2s[q])
      BY <2>0, <2>2, PairDrop
    <3> QED BY <1>1, <2>2, <2>a, <2>e, <3>1
  <2> QED BY <1>1, <2>1, <2>2
<1>8. ASSUME NEW x \in Procs, NEW z \in Procs, Mates(x, z)
      PROVE  Pair(x, z, pr[x], pr[z], s2c'[z], c2s'[x], s2c'[x], c2s'[z])
  <2>0. x # z /\ Mates(z, x)
    BY <1>0, <1>8, MatesDiffer
  <2>1. CASE x = p
    BY <1>3, <1>7, <1>8, <2>1
  <2>2. CASE x = q
    <3>1. z = p
      BY <1>3, <1>8, <2>2
    <3> QED BY <1>7, <2>2, <3>1, PairSwap
  <2>3. CASE x # p /\ x # q
    <3>1. z # p /\ z # q
      BY <1>3, <2>0, <2>3
    <3> QED BY <1>0, <1>1, <1>8, <2>3, <3>1 DEF HandshakeInv
  <2> QED BY <2>1, <2>2, <2>3
<1> QED BY <1>4, <1>5, <1>6, <1>8, ServerAgrees

LEMMA InitAgrees == ASSUME Init PROVE HandshakeInv
<1>u. PICK u : u = [main |-> "off", sock |-> "none", dead |-> "no", io |-> FALSE,
     remoteOnline |-> FALSE, targets |-> 0,
     state |-> "NULL", pending |-> FALSE, timer |-> FALSE, out |-> <<>>,
     proxy |-> "INIT", connectReq |-> FALSE, ready |-> <<>>, unsent |-> <<>>,
     twritable |-> FALSE, writable |-> FALSE, waiting |-> FALSE,
     session |-> FALSE, remote |-> <<>>, got |-> <<>>,
     made |-> 0, allocs |-> 0, flips |-> 0,
     sigq |-> <<>>, wq |-> <<>>]
  OBVIOUS
<1>1. /\ u.main = "off" /\ u.sock = "none" /\ u.dead = "no" /\ ~u.remoteOnline
      /\ u.state = "NULL" /\ ~u.connectReq /\ u.sigq = <<>>
  BY <1>u
<1>e. PICK e : e = <<>>
  OBVIOUS
<1>2. \A p \in Procs : pr[p] = u
  BY <1>u DEF Init, ProberInit
<1>3. \A p \in Procs : conn[p] = "none" /\ pid[p] = NoName /\ c2s[p] = e /\ s2c[p] = e
  BY <1>e DEF Init, ServerInit
<1>4. \A n \in Names : peerObjects[n] = NoProc
  BY DEF Init, ServerInit
<1>d. DOMAIN e = {}
  BY <1>e
<1>5. None(e) /\ \A w : ~Has(e, w)
  BY <1>d DEF None, Has
<1>6. \A p \in Procs : ~HeardBy(p, u, e) /\ ~Trace(p, u, e, e)
  BY <1>1, <1>5 DEF HeardBy, Trace, Idle
<1>7. \A p \in Procs : Line(p, "none", e, e, NoName, u, up)
  BY <1>1, <1>d, <1>e DEF Line
<1>8. \A p \in Procs : Entry(p)
  BY <1>3, <1>4, ServerAssumption DEF Entry
<1>9. \A p \in Procs : Known(p)
  BY <1>2, <1>3, <1>6 DEF Known
<1>10. Orderly(u)
  <2>1. Count(<<>>, "START") = 0 /\ Count(<<>>, "CREATE_SESSION") = 0 /\ Count(<<>>, "DO_INITIATE") = 0
    BY CountEmpty DEF Count
  <2> QED BY <1>1, <2>1 DEF Orderly
<1>11. \A p, q : Pair(p, q, u, u, e, e, e, e) \/ HeardBy(p, u, e) \/ HeardBy(q, u, e)
  BY <1>1, <1>5 DEF Pair, Expect, Agree, PNone, Idle, Later
<1>12. NoAssert
  BY <1>1, <1>2 DEF NoAssert
<1> QED BY <1>1, <1>2, <1>3, <1>6, <1>7, <1>8, <1>9, <1>10, <1>11, <1>12 DEF HandshakeInv

LEMMA NextAgrees == ASSUME Agreed, [Next]_vars PROVE HandshakeInv'
<1>1. CASE \E p \in Procs : ServerStep(p) /\ UNCHANGED pr
  <2>1. PICK p \in Procs : ServerStep(p) /\ UNCHANGED pr
    BY <1>1
  <2> QED BY <2>1, KickedAgrees, AcceptedAgrees, SendAgrees, CloseAgrees DEF ServerStep
<1>2. CASE \E p \in Procs : ProberStep(p)
  BY <1>2, ProberStepAgrees
<1>3. CASE ServerDies /\ UNCHANGED pr
  BY <1>3, ServerDiesAgrees
<1>4. CASE UNCHANGED vars
  <2>1. pr' = pr /\ up' = up /\ conn' = conn /\ pid' = pid /\ peerObjects' = peerObjects
        /\ c2s' = c2s /\ s2c' = s2c
    BY <1>4 DEF vars, serverVars
  <2> QED BY <2>1 DEF Agreed, HandshakeInv, Entry, Known, NoAssert
<1> QED BY <1>1, <1>2, <1>3, <1>4 DEF Next

\* Of processes with names of their own, HandshakeInv holds in every state: at
\* every moment of the handshake the states of the two sessions, the words the
\* server has still to relay and the words on the streams fit together.
THEOREM HandshakeInvariant == ASSUME OwnNames PROVE Spec => []HandshakeInv
<1>1. Init => HandshakeInv
  BY InitAgrees
<1>2. ProberInv /\ HandshakeInv /\ [Next]_vars => HandshakeInv'
  BY NextAgrees DEF Agreed
<1> QED BY <1>1, <1>2, ProberInvariant, PTL DEF Spec

\* No ASSERT of CheckState, SpeculativelyConnectChannels or
\* OnChannelCandidateReady_s fails: a message never reaches a session in a
\* state that does not expect it, however the streams and threads interleave.
THEOREM NoAssertFails == ASSUME OwnNames PROVE Spec => []NoAssert
<1>1. HandshakeInv => NoAssert
  BY DEF HandshakeInv
<1> QED BY <1>1, HandshakeInvariant, PTL

\* Never do both partners initiate (IceProber::onRemoteLogin), and a session that
\* is established on one side is past its own handshake on the other.
THEOREM SessionsAgree == ASSUME OwnNames PROVE Spec => []HandshakeAgrees
<1>1. HandshakeInv => HandshakeAgrees
  <2>1. SUFFICES ASSUME HandshakeInv, NEW pq \in Pairs, Alive(pq[1]), Alive(pq[2])
                 PROVE  /\ ~(pr[pq[1]].remoteOnline /\ pr[pq[2]].remoteOnline)
                        /\ pr[pq[1]].state = "INPROGRESS" =>
                              pr[pq[2]].state \notin {"NULL", "INIT", "RECEIVEDINITIATE"}
                        /\ pr[pq[1]].state = "RECEIVEDACCEPT" =>
                              pr[pq[2]].state \in {"SENTACCEPT", "INPROGRESS"}
    BY DEF HandshakeAgrees
  <2>p. PICK p \in Procs : p = pq[1]
    BY DEF Pairs
  <2>q. PICK q \in Procs : q = pq[2]
    BY DEF Pairs
  <2>2. Mates(p, q)
    BY <2>p, <2>q DEF Pairs, Mates
  <2>3. Pair(p, q, pr[p], pr[q], s2c[q], c2s[p], s2c[p], c2s[q])
    BY <2>1, <2>2 DEF HandshakeInv
  <2>4. Agree(p, q, pr[p], pr[q], s2c[q], c2s[p], s2c[p], c2s[q])
    BY <2>1, <2>3, <2>p, <2>q DEF Pair, Alive
  <2> QED BY <2>4, <2>p, <2>q DEF Agree, Way, HeardBy, Idle
<1> QED BY <1>1, HandshakeInvariant, PTL

-----------------------------------------------------------------------------
(* The refinement of the abstract handshake, its safety part.              *)

\* What one step makes of a process: s before, e after, c its stream.
Moves(s, e, c) ==
    \/ e.dead # "no"
    \/ /\ e.dead = "no"
       /\ \/ e.state = s.state
          \/ s.state = "NULL" /\ e.state = "INIT"
          \/ s.state = "INIT" /\ s.remoteOnline /\ e.state = "SENTINITIATE"
          \/ s.state = "INIT" /\ ~None(c) /\ e.state = "RECEIVEDINITIATE"
          \/ s.state = "RECEIVEDINITIATE" /\ e.state = "SENTACCEPT"
          \/ s.state = "SENTINITIATE" /\ ~None(c) /\ e.state = "RECEIVEDACCEPT"
          \/ s.state \in {"SENTACCEPT", "RECEIVEDACCEPT"} /\ e.state = "INPROGRESS"

\* A step of p, which was alive.
Moved(p) ==
    /\ pr[p].dead = "no"
    /\ \E e : pr' = [pr EXCEPT ![p] = e] /\ Moves(pr[p], e, s2c[p])

LEMMA DieMoves ==
    ASSUME NEW p \in Procs, pr[p].dead = "no", NEW d, d # "no", Die(p, d) PROVE Moved(p)
<1>r. PICK r : r = [ProberInit EXCEPT !.main = "on", !.dead = d]
  OBVIOUS
<1>1. r.dead # "no"
  BY <1>r, DeadFields
<1>2. pr' = [pr EXCEPT ![p] = r]
  BY <1>r DEF Die
<1> QED BY <1>1, <1>2 DEF Moved, Moves

LEMMA ActsMoves ==
    ASSUME NEW p \in Procs, pr[p].dead = "no", Acts(p) PROVE Moved(p)
<1>r. PICK r : Turns(p, pr[p], r) /\ Become(p, r)
  BY DEF Acts
<1>1. CASE r.dead # "no"
  BY <1>1, <1>r, DieMoves DEF Become
<1>2. CASE r.dead = "no"
  <2>e. PICK e : e = [r EXCEPT !.out = <<>>, !.io = @ \/ r.sigq = <<>>]
    OBVIOUS
  <2>1. r \in Mid(p) /\ Turn(pr[p], r)
    BY <1>2, <1>r DEF Turns
  <2>2. e.state = r.state /\ e.dead = r.dead
    BY <2>1, <2>e DEF Mid
  <2>3. pr' = [pr EXCEPT ![p] = e]
    BY <1>2, <1>r, <2>e DEF Become
  <2>4. Moves(pr[p], e, s2c[p])
    BY <1>2, <2>1, <2>2 DEF Moves, Turn
  <2> QED BY <2>3, <2>4 DEF Moved
<1> QED BY <1>1, <1>2

LEMMA ReadMoves ==
    ASSUME NEW p \in Procs, NEW r, Read(p, r),
           r.dead = "no" => r \in Mid(p) /\ Moves(pr[p], r, s2c[p])
    PROVE  Moved(p)
<1>0. pr[p].dead = "no"
  BY DEF Read, Alive
<1>1. CASE r.dead # "no"
  BY <1>0, <1>1, DieMoves DEF Read
<1>2. CASE r.dead = "no"
  <2>e. PICK e : e = [r EXCEPT !.out = <<>>]
    OBVIOUS
  <2>2. e.state = r.state /\ e.dead = r.dead
    BY <1>2, <2>e DEF Mid
  <2>3. pr' = [pr EXCEPT ![p] = e]
    BY <1>2, <2>e DEF Read
  <2>4. Moves(pr[p], e, s2c[p])
    BY <1>2, <2>2 DEF Moves
  <2> QED BY <1>0, <2>3, <2>4 DEF Moved
<1> QED BY <1>1, <1>2

LEMMA ConnectMoves ==
    ASSUME ProberInv, NEW p \in Procs, onConnectEvent(p) PROVE Moved(p)
<1>e. PICK e : e = [pr[p] EXCEPT !.sock = "open"]
  OBVIOUS
<1>1. pr[p].dead = "no" /\ pr[p] \in Mid(p)
  BY AliveLocal DEF onConnectEvent
<1>2. pr' = [pr EXCEPT ![p] = e]
  BY <1>e DEF onConnectEvent
<1>3. e.state = pr[p].state /\ e.dead = pr[p].dead
  BY <1>1, <1>e DEF Mid
<1> QED BY <1>1, <1>2, <1>3 DEF Moved, Moves

LEMMA ReadExitMoves ==
    ASSUME ProberInv, NEW p \in Procs, NEW d, d # "no", NEW r, r = Exits(pr[p], d), Read(p, r)
    PROVE  Moved(p)
<1>1. pr[p] \in Mid(p)
  BY AliveLocal DEF Read
<1>2. r.dead = d
  BY <1>1 DEF Exits, Mid
<1> QED BY <1>2, ReadMoves

LEMMA RemoteLoginMoves ==
    ASSUME ProberInv, NEW p \in Procs, onRemoteLogin(p) PROVE Moved(p)
<1>s. PICK s : s = pr[p]
  OBVIOUS
<1>1. Alive(p) /\ s \in Mid(p) /\ s.dead = "no"
  BY <1>s, AliveLocal DEF onRemoteLogin, Reads
<1>u. PICK u : u = [s EXCEPT !.remoteOnline = TRUE, !.sigq = Append(@, "DO_INITIATE")]
  OBVIOUS
<1>n. PICK n \in Names :
        Reads(p, LoginWord(n),
              LAMBDA x : IF RemoteArrived(p, n, x)
                         THEN [x EXCEPT !.remoteOnline = TRUE,
                                        !.sigq = Append(@, "DO_INITIATE")]
                         ELSE x)
  BY DEF onRemoteLogin
<1>2. Read(p, u) \/ Read(p, s)
  <2>1. CASE RemoteArrived(p, n, s)
    <3>1. Read(p, u)
      BY <1>n, <1>s, <1>u, <2>1 DEF Reads, Read
    <3> QED BY <3>1
  <2>2. CASE ~RemoteArrived(p, n, s)
    <3>1. Read(p, s)
      BY <1>n, <1>s, <2>2 DEF Reads, Read
    <3> QED BY <3>1
  <2> QED BY <2>1, <2>2
<1>3. CASE Read(p, u)
  <2>1. u.dead = "no" /\ u.state = s.state
    BY <1>1, <1>u DEF Mid
  <2>e. PICK e : e = [u EXCEPT !.out = <<>>]
    OBVIOUS
  <2>2. pr' = [pr EXCEPT ![p] = e]
    BY <1>3, <2>1, <2>e DEF Read
  <2>3. e.dead = "no" /\ e.state = s.state
    BY <1>1, <1>u, <2>e DEF Mid
  <2> QED BY <1>1, <1>s, <2>2, <2>3 DEF Moved, Moves
<1>4. CASE Read(p, s)
  BY <1>1, <1>4, <1>s, ReadMoves DEF Moves
<1> QED BY <1>2, <1>3, <1>4

LEMMA RemoteMessageMoves ==
    ASSUME Agreed, NEW p \in Procs, onRemoteMessage(p) PROVE Moved(p)
<1>s. PICK s : s = pr[p]
  OBVIOUS
<1>0. Alive(p) /\ s2c[p] # <<>>
  BY DEF onRemoteMessage, Reads
<1>1. s \in Mid(p) /\ s.dead = "no" /\ s.out = <<>> /\ Orderly(s) /\ Local(p, s, "none")
  <2>1. s \in Mid(p) /\ s.dead = "no" /\ s.out = <<>> /\ Local(p, s, "none")
    BY SMTT(40), <1>0, <1>s, AliveOrderly DEF Agreed
  <2> QED BY <1>s, <2>1 DEF Agreed, HandshakeInv
<1>m. PICK m \in Msgs : m = Head(s2c[p]).body
  BY MessageRead DEF Agreed, ProberInv
<1>2. Read(p, IF s.state = "NULL" THEN Exits(s, "nullsession") ELSE OnIncomingMessage(s, m))
  BY <1>s, <1>m, ReadsMessage
<1>3. Carries(Head(s2c[p]))
  BY DEF onRemoteMessage, Reads, Carries, MessageWord, Word
<1>4. CASE s.state = "NULL"
  <2>r. PICK r : r = Exits(pr[p], "nullsession")
    OBVIOUS
  <2>1. Read(p, r)
    BY <1>2, <1>4, <1>s, <2>r
  <2> QED BY <2>1, <2>r, ReadExitMoves DEF Agreed
<1>5. CASE s.state # "NULL"
  <2>r. PICK r : r = OnIncomingMessage(s, m)
    OBVIOUS
  <2>1. Read(p, r)
    BY <1>2, <1>5, <2>r
  <2>2. Fits(s, m.type)
    BY <1>0, <1>3, <1>5, <1>s, <1>m, MessageFits
  <2>3. Hears(p, s, m.type, r)
    BY <1>1, <2>2, <2>r, OnIncomingHears
  <2>4. ~None(s2c[p])
    <3>a. PICK a \in Seq(Words) : a = s2c[p]
      BY DEF Agreed, ProberInv, ServerType
    <3> QED BY <1>0, <1>3, <3>a, StreamTail
  <2>5. r \in Mid(p) /\ Moves(s, r, s2c[p])
    BY <2>2, <2>3, <2>4 DEF Hears, Fits, Moves
  <2> QED BY <1>s, <2>1, <2>5, ReadMoves
<1> QED BY <1>4, <1>5

LEMMA ProberStepMoves ==
    ASSUME Agreed, NEW p \in Procs, ProberStep(p) PROVE Moved(p)
<1>0. ProberInv
  BY DEF Agreed
<1>1. CASE Login(p) \/ SignalStep(p) \/ PostCreateSession(p) \/ TimeoutDue(p) \/ WorkerMsg(p)
           \/ Gather(p) \/ Flip(p) \/ Reallocate(p)
  BY <1>1, StepActs, ActsMoves
<1>2. CASE onConnectEvent(p)
  BY <1>0, <1>2, ConnectMoves
<1>3. CASE onCloseEvent(p) \/ Kill(p)
  BY <1>3, DieMoves DEF onCloseEvent, Kill, Alive
<1>4. CASE onRemoteLogin(p)
  BY <1>0, <1>4, RemoteLoginMoves
<1>5. CASE onRemoteOnline(p)
  <2>1. Read(p, pr[p])
    BY <1>5 DEF onRemoteOnline, Reads, Read
  <2>2. pr[p] \in Mid(p)
    BY <1>0, <2>1, AliveLocal DEF Read
  <2> QED BY <2>1, <2>2, ReadMoves DEF Moves
<1>6. CASE onRemoteOffline(p)
  <2>r. PICK r : r = Exits(pr[p], "remoteoffline")
    OBVIOUS
  <2>1. Read(p, r)
    BY <1>6, <2>r DEF onRemoteOffline, Reads, Read
  <2> QED BY <1>0, <2>1, <2>r, ReadExitMoves
<1>7. CASE onRemoteMessage(p)
  BY <1>7, RemoteMessageMoves
<1> QED BY <1>1, <1>2, <1>3, <1>4, <1>5, <1>6, <1>7 DEF ProberStep, PeerStep

\* What a session shows of the handshake before and after a step, and what
\* its partner shows meanwhile.
Shows(x, y, z) ==
    \/ x = y
    \/ x # "gone" /\ y = "gone"
    \/ x = "idle" /\ y = "inviting" /\ z \in {"idle", "gone"}
    \/ x = "idle" /\ y = "invited" /\ z \in {"inviting", "gone"}
    \/ x = "invited" /\ y = "accepted" /\ z \in {"inviting", "gone"}
    \/ x = "inviting" /\ y = "accepted" /\ z \in {"accepted", "established", "gone"}
    \/ /\ x = "accepted" /\ y = "established"
       /\ z \in {"inviting", "accepted", "established", "gone"}

LEMMA PhaseIs ==
    ASSUME NEW s
    PROVE  /\ s.dead # "no" => Phase(s) = "gone"
           /\ s.dead = "no" =>
                /\ s.state \in Idle => Phase(s) = "idle"
                /\ s.state = "SENTINITIATE" => Phase(s) = "inviting"
                /\ s.state = "RECEIVEDINITIATE" => Phase(s) = "invited"
                /\ s.state \in {"SENTACCEPT", "RECEIVEDACCEPT"} => Phase(s) = "accepted"
                /\ s.state = "INPROGRESS" => Phase(s) = "established"
BY DEF Phase, Idle

\* The pair's invariant makes each step of p one of the abstract handshake.
LEMMA MoveShows ==
    ASSUME NEW p, NEW q, NEW s, NEW t, NEW a, NEW b, NEW c, NEW d,
           Pair(p, q, s, t, a, b, c, d), s.dead = "no", s.state \in States,
           NEW e, Moves(s, e, c)
    PROVE  Shows(Phase(s), Phase(e), Phase(t))
<1>1. CASE e.dead # "no"
  <2>1. Phase(e) = "gone"
    BY <1>1, PhaseIs
  <2>2. Phase(s) # "gone"
    BY PhaseIs DEF States, Idle
  <2> QED BY <2>1, <2>2 DEF Shows
<1>2. CASE e.dead = "no" /\ e.state = s.state
  <2>1. Phase(e) = Phase(s)
    BY <1>2 DEF Phase
  <2> QED BY <2>1 DEF Shows
<1>3. CASE t.dead # "no"
  <2>1. Phase(t) = "gone"
    BY <1>3, PhaseIs
  <2> QED BY <1>1, <1>2, <2>1, PhaseIs DEF Shows, Moves, Idle
<1>4. CASE t.dead = "no" /\ e.dead = "no" /\ e.state # s.state
  <2>0. Agree(p, q, s, t, a, b, c, d)
    BY <1>4 DEF Pair
  <2>1. CASE s.state = "NULL" /\ e.state = "INIT"
    BY <1>4, <2>1, PhaseIs DEF Shows, Idle
  <2>2. CASE s.state = "INIT" /\ s.remoteOnline /\ e.state = "SENTINITIATE"
    <3>1. t.state \in Idle
      BY <2>0, <2>2 DEF Agree, Way, HeardBy, Idle
    <3> QED BY <1>4, <2>2, <3>1, PhaseIs DEF Shows, Idle
  <2>3. CASE s.state = "INIT" /\ ~None(c) /\ e.state = "RECEIVEDINITIATE"
    <3>1. t.state = "SENTINITIATE"
      BY <2>0, <2>3 DEF Agree, Way, PNone, Idle
    <3> QED BY <1>4, <2>3, <3>1, PhaseIs DEF Shows, Idle
  <2>4. CASE s.state = "RECEIVEDINITIATE" /\ e.state = "SENTACCEPT"
    <3>1. t.state = "SENTINITIATE"
      BY <2>0, <2>4 DEF Agree, Way, Idle
    <3> QED BY <1>4, <2>4, <3>1, PhaseIs DEF Shows
  <2>5. CASE s.state = "SENTINITIATE" /\ ~None(c) /\ e.state = "RECEIVEDACCEPT"
    <3>1. t.state \in {"SENTACCEPT", "INPROGRESS"}
      BY <2>0, <2>5 DEF Agree, Way, PNone, Idle
    <3> QED BY <1>4, <2>5, <3>1, PhaseIs DEF Shows
  <2>6. CASE s.state \in {"SENTACCEPT", "RECEIVEDACCEPT"} /\ e.state = "INPROGRESS"
    <3>1. t.state \in {"SENTINITIATE", "SENTACCEPT", "RECEIVEDACCEPT", "INPROGRESS"}
      BY <2>0, <2>6 DEF Agree, Way, Idle
    <3> QED BY <1>4, <2>6, <3>1, PhaseIs DEF Shows
  <2> QED BY <1>4, <2>1, <2>2, <2>3, <2>4, <2>5, <2>6 DEF Moves
<1> QED BY <1>1, <1>2, <1>3, <1>4 DEF Moves

\* The refinement mapping.
Shown == [p \in Paired |-> Phase(pr[p])]

LEMMA PairedIs ==
    ASSUME OwnNames, NEW p \in Paired
    PROVE  p \in Procs /\ PairedTo[p] \in Paired /\ Mates(p, PairedTo[p])
<1>1. PICK q \in Procs : <<p, q>> \in Pairs /\ p \in Procs
  BY DEF Paired, Pairs
<1>2. PairedTo[p] \in Procs /\ <<p, PairedTo[p]>> \in Pairs
  BY <1>1 DEF PairedTo
<1>r. PICK r : r = PairedTo[p]
  OBVIOUS
<1>3. r \in Procs /\ <<p, r>> \in Pairs
  BY <1>2, <1>r
<1>4. Mates(p, r)
  BY <1>3 DEF Pairs, Mates
<1>5. <<r, p>> \in Pairs
  BY <1>1, <1>3, <1>4 DEF Pairs, Mates
<1>6. r \in Paired
  <2>1. r = <<r, p>>[1]
    OBVIOUS
  <2> QED BY <1>5, <2>1 DEF Paired
<1> QED BY <1>1, <1>4, <1>6, <1>r

LEMMA MovedShows ==
    ASSUME Agreed, NEW p \in Procs, Moved(p) PROVE Shake!Next \/ UNCHANGED Shown
<1>e. PICK e : pr' = [pr EXCEPT ![p] = e] /\ Moves(pr[p], e, s2c[p])
  BY DEF Moved
<1>0. OwnNames /\ DOMAIN pr = Procs
  BY DEF Agreed, ProberInv
<1>1. CASE p \notin Paired
  <2>1. \A x \in Paired : pr'[x] = pr[x]
    BY <1>0, <1>1, <1>e, PairedIs
  <2> QED BY <2>1 DEF Shown
<1>2. CASE p \in Paired
  <2>q. PICK q : q = PairedTo[p]
    OBVIOUS
  <2>1. q \in Procs /\ q \in Paired /\ Mates(p, q)
    BY <1>0, <1>2, <2>q, PairedIs
  <2>2. Pair(p, q, pr[p], pr[q], s2c[q], c2s[p], s2c[p], c2s[q])
    BY <2>1 DEF Agreed, HandshakeInv
  <2>3. pr[p].dead = "no" /\ pr[p].state \in States
    <3>1. pr[p] \in ProberType(p)
      BY InitType, MidType DEF Agreed, ProberInv, Process, Keeps
    <3> QED BY <3>1 DEF Moved, ProberType
  <2>4. Shows(Phase(pr[p]), Phase(e), Phase(pr[q]))
    BY <1>e, <2>2, <2>3, MoveShows
  <2>f. PICK f : f = Shown
    OBVIOUS
  <2>g. PICK g : g = Shown'
    OBVIOUS
  <2>5. f[p] = Phase(pr[p]) /\ f[q] = Phase(pr[q])
    BY <1>2, <2>1, <2>f DEF Shown
  <2>6. g = [f EXCEPT ![p] = Phase(e)]
    BY <1>0, <1>2, <1>e, <2>f, <2>g, PairedIs DEF Shown
  <2>7. Shows(f[p], Phase(e), f[q])
    BY <2>4, <2>5
  <2>8. CASE Phase(e) = f[p]
    <3>1. g = f
      BY <2>6, <2>8, <2>f DEF Shown
    <3> QED BY <2>f, <2>g, <3>1
  <2>9. CASE Phase(e) # f[p]
    BY <1>2, <2>6, <2>7, <2>9, <2>f, <2>g, <2>q
       DEF Shown, Shows, Shake!Next, Shake!Invite, Shake!HearInvite, Shake!Accept, Shake!HearAccept,
           Shake!Establish, Shake!Vanish, Shake!Goes, Shake!PartnerIn
  <2> QED BY <2>8, <2>9
<1> QED BY <1>1, <1>2

LEMMA NextShows == ASSUME Agreed, [Next]_vars PROVE [Shake!Next]_Shown
<1>1. CASE \E p \in Procs : ProberStep(p)
  BY <1>1, ProberStepMoves, MovedShows
<1>2. CASE pr' = pr
  BY <1>2 DEF Shown
<1> QED BY <1>1, <1>2 DEF Next, vars

\* The sessions of two partners, with the dialog server between them, implement
\* the safety part of the abstract handshake: every step of a process (Initiate,
\* OnInitiateMessage, Accept, OnAcceptMessage, OnTransportWritable) and every
\* step of the server is a step of Handshake or leaves what it shows unchanged.
THEOREM HandshakeRefined == ASSUME OwnNames PROVE Spec => Shake!Safe
<1>1. Init => Shake!Init
  <2>1. ASSUME Init, NEW p \in Paired PROVE Phase(pr[p]) = "idle"
    <3>1. pr[p] = ProberInit
      BY <2>1, PairedIs DEF Init
    <3> QED BY <3>1 DEF ProberInit, Phase
  <2> QED BY <2>1 DEF Shake!Init
<1>2. ProberInv /\ HandshakeInv /\ [Next]_vars => [Shake!Next]_Shown
  BY NextShows DEF Agreed
<1> QED BY <1>1, <1>2, ProberInvariant, HandshakeInvariant, PTL DEF Spec, Shake!Safe, Shown

-----------------------------------------------------------------------------
(* The candidates in words, in the worker's queue and in messages.         *)

\* The candidates in a word.
CandsOf(w) == IF w.type \in {"send", "message"} THEN w.body.cands ELSE <<>>

CandsOfAll(q) == [i \in DOMAIN q |-> CandsOf(q[i])]

LEMMA CandsOfType == ASSUME NEW w \in Words PROVE CandsOf(w) \in Seq(Candidates)
BY DEF CandsOf, Words, Msgs

LEMMA CarriedIs ==
    ASSUME NEW q \in Seq(Words), NEW k, k = CandsOfAll(q)
    PROVE  /\ Carried(q) = Concat(k) /\ k \in Seq(Seq(Candidates)) /\ Len(k) = Len(q)
           /\ \A i \in 1 .. Len(q) : k[i] = CandsOf(q[i])
           /\ Carried(q) \in Seq(Candidates)
<1>1. \A i \in DOMAIN q : q[i] \in Words
  OBVIOUS
<1>2. \A i \in DOMAIN q : k[i] = CandsOf(q[i]) /\ k[i] \in Seq(Candidates)
  BY <1>1, CandsOfType DEF CandsOfAll
<1>3. DOMAIN k = 1 .. Len(q) /\ DOMAIN q = 1 .. Len(q) /\ k = [i \in 1 .. Len(q) |-> k[i]]
  BY DEF CandsOfAll
<1>u. PICK U : U = Seq(Candidates)
  OBVIOUS
<1>4. k \in [1 .. Len(q) -> U]
  BY <1>2, <1>3, <1>u
<1>5. k \in Seq(U) /\ Len(k) = Len(q)
  BY <1>4
<1>6. Carried(q) = Concat(k)
  BY DEF CandsOfAll, Carried, CandsOf
<1>7. k \in Seq(Seq(Candidates))
  BY <1>5, <1>u
<1>8. Concat(k) \in Seq(Candidates)
  BY <1>7, ConcatType
<1> QED BY <1>2, <1>3, <1>5, <1>6, <1>7, <1>8

LEMMA CarriedJoin ==
    ASSUME NEW q \in Seq(Words), NEW r \in Seq(Words)
    PROVE  Carried(q \o r) = Carried(q) \o Carried(r)
<1>t. PICK t : t = q \o r
  OBVIOUS
<1>1. /\ t \in Seq(Words) /\ Len(t) = Len(q) + Len(r)
      /\ \A i \in 1 .. Len(q) : i \in 1 .. Len(t) /\ t[i] = q[i]
      /\ \A i \in 1 .. Len(r) : Len(q) + i \in 1 .. Len(t) /\ t[Len(q) + i] = r[i]
  BY <1>t
<1>a. PICK a : a = CandsOfAll(q)
  OBVIOUS
<1>b. PICK b : b = CandsOfAll(r)
  OBVIOUS
<1>c. PICK c : c = CandsOfAll(t)
  OBVIOUS
<1>2. /\ Carried(q) = Concat(a) /\ a \in Seq(Seq(Candidates)) /\ Len(a) = Len(q)
      /\ \A i \in 1 .. Len(q) : a[i] = CandsOf(q[i])
  BY <1>a, CarriedIs
<1>3. /\ Carried(r) = Concat(b) /\ b \in Seq(Seq(Candidates)) /\ Len(b) = Len(r)
      /\ \A i \in 1 .. Len(r) : b[i] = CandsOf(r[i])
  BY <1>b, CarriedIs
<1>4. /\ Carried(t) = Concat(c) /\ c \in Seq(Seq(Candidates)) /\ Len(c) = Len(t)
      /\ \A i \in 1 .. Len(t) : c[i] = CandsOf(t[i])
  BY <1>1, <1>c, CarriedIs
<1>5. Spliced(c, a, b)
  <2>1. \A i \in 1 .. Len(a) : c[i] = a[i]
    BY <1>1, <1>2, <1>4
  <2>2. \A i \in 1 .. Len(b) : c[Len(a) + i] = b[i]
    BY <1>1, <1>2, <1>3, <1>4
  <2> QED BY <1>1, <1>2, <1>3, <1>4, <2>1, <2>2 DEF Spliced
<1>6. Concat(c) = Concat(a) \o Concat(b)
  BY <1>2, <1>3, <1>4, <1>5, ConcatSpliced
<1> QED BY <1>2, <1>3, <1>4, <1>6, <1>t

LEMMA CarriedOne ==
    ASSUME NEW w \in Words, NEW q, q = <<w>> PROVE Carried(q) = CandsOf(w)
<1>k. PICK k : k = CandsOfAll(q)
  OBVIOUS
<1>e. PICK e \in Seq(Candidates) : e = CandsOf(w)
  BY CandsOfType
<1>1. q \in Seq(Words) /\ Len(q) = 1 /\ q[1] = w
  OBVIOUS
<1>2. k = <<e>>
  BY <1>k, <1>e, <1>1 DEF CandsOfAll
<1>3. Carried(q) = Concat(k)
  BY <1>1, <1>k, CarriedIs
<1> QED BY <1>2, <1>3, <1>e, ConcatOne

LEMMA CarriedNone == Carried(<<>>) = <<>>
<1>k. PICK k : k = CandsOfAll(<<>>)
  OBVIOUS
<1>q. PICK q : q = <<>>
  OBVIOUS
<1>0. q \in Seq(Words)
  BY <1>q
<1>1. k = <<>>
  BY <1>k DEF CandsOfAll
<1>2. Carried(q) = Concat(k)
  BY <1>0, <1>k, <1>q, CarriedIs
<1> QED BY <1>1, <1>2, <1>q, ConcatNone

LEMMA CarriedAppend ==
    ASSUME NEW q \in Seq(Words), NEW w \in Words, NEW r, r = Append(q, w)
    PROVE  Carried(r) = Carried(q) \o CandsOf(w)
<1>o. PICK o : o = <<w>>
  OBVIOUS
<1>1. o \in Seq(Words) /\ r = q \o o
  BY <1>o
<1>2. Carried(q \o o) = Carried(q) \o Carried(o)
  BY <1>1, CarriedJoin
<1> QED BY <1>1, <1>2, <1>o, CarriedOne

LEMMA CarriedTail ==
    ASSUME NEW q \in Seq(Words), q # <<>>, NEW r, r = Tail(q), NEW w, w = Head(q)
    PROVE  r \in Seq(Words) /\ w \in Words /\ Carried(q) = CandsOf(w) \o Carried(r)
<1>o. PICK o : o = <<w>>
  OBVIOUS
<1>1. w \in Words /\ r \in Seq(Words)
  OBVIOUS
<1>2. o \in Seq(Words) /\ q = o \o r
  BY <1>o
<1>3. Carried(o \o r) = Carried(o) \o Carried(r)
  BY <1>1, <1>2, CarriedJoin
<1> QED BY <1>1, <1>2, <1>3, <1>o, CarriedOne

\* The candidate in a message of the worker thread.
CandOf(m) == IF m.cand = <<>> THEN <<>> ELSE <<m.cand>>

CandOfAll(q) == [i \in DOMAIN q |-> CandOf(q[i])]

LEMMA CandOfType == ASSUME NEW m \in WorkMsgs PROVE CandOf(m) \in Seq(Candidates)
<1>1. m = ReadyMsg \/ \E c \in Candidates : m = CandidateMsg(c)
  BY DEF WorkMsgs
<1> QED BY <1>1 DEF CandOf, ReadyMsg, CandidateMsg

LEMMA QueuedIs ==
    ASSUME NEW q \in Seq(WorkMsgs), NEW k, k = CandOfAll(q)
    PROVE  /\ Queued(q) = Concat(k) /\ k \in Seq(Seq(Candidates)) /\ Len(k) = Len(q)
           /\ \A i \in 1 .. Len(q) : k[i] = CandOf(q[i])
           /\ Queued(q) \in Seq(Candidates)
<1>1. \A i \in DOMAIN q : q[i] \in WorkMsgs
  OBVIOUS
<1>2. \A i \in DOMAIN q : k[i] = CandOf(q[i]) /\ k[i] \in Seq(Candidates)
  BY <1>1, CandOfType DEF CandOfAll
<1>3. DOMAIN k = 1 .. Len(q) /\ DOMAIN q = 1 .. Len(q) /\ k = [i \in 1 .. Len(q) |-> k[i]]
  BY DEF CandOfAll
<1>u. PICK U : U = Seq(Candidates)
  OBVIOUS
<1>4. k \in [1 .. Len(q) -> U]
  BY <1>2, <1>3, <1>u
<1>5. k \in Seq(U) /\ Len(k) = Len(q)
  BY <1>4
<1>6. Queued(q) = Concat(k)
  BY DEF CandOfAll, Queued, CandOf
<1>7. k \in Seq(Seq(Candidates))
  BY <1>5, <1>u
<1>8. Concat(k) \in Seq(Candidates)
  BY <1>7, ConcatType
<1> QED BY <1>2, <1>3, <1>5, <1>6, <1>7, <1>8

LEMMA QueuedJoin ==
    ASSUME NEW q \in Seq(WorkMsgs), NEW r \in Seq(WorkMsgs)
    PROVE  Queued(q \o r) = Queued(q) \o Queued(r)
<1>t. PICK t : t = q \o r
  OBVIOUS
<1>1. /\ t \in Seq(WorkMsgs) /\ Len(t) = Len(q) + Len(r)
      /\ \A i \in 1 .. Len(q) : i \in 1 .. Len(t) /\ t[i] = q[i]
      /\ \A i \in 1 .. Len(r) : Len(q) + i \in 1 .. Len(t) /\ t[Len(q) + i] = r[i]
  BY <1>t
<1>a. PICK a : a = CandOfAll(q)
  OBVIOUS
<1>b. PICK b : b = CandOfAll(r)
  OBVIOUS
<1>c. PICK c : c = CandOfAll(t)
  OBVIOUS
<1>2. /\ Queued(q) = Concat(a) /\ a \in Seq(Seq(Candidates)) /\ Len(a) = Len(q)
      /\ \A i \in 1 .. Len(q) : a[i] = CandOf(q[i])
  BY <1>a, QueuedIs
<1>3. /\ Queued(r) = Concat(b) /\ b \in Seq(Seq(Candidates)) /\ Len(b) = Len(r)
      /\ \A i \in 1 .. Len(r) : b[i] = CandOf(r[i])
  BY <1>b, QueuedIs
<1>4. /\ Queued(t) = Concat(c) /\ c \in Seq(Seq(Candidates)) /\ Len(c) = Len(t)
      /\ \A i \in 1 .. Len(t) : c[i] = CandOf(t[i])
  BY <1>1, <1>c, QueuedIs
<1>5. Spliced(c, a, b)
  <2>1. \A i \in 1 .. Len(a) : c[i] = a[i]
    BY <1>1, <1>2, <1>4
  <2>2. \A i \in 1 .. Len(b) : c[Len(a) + i] = b[i]
    BY <1>1, <1>2, <1>3, <1>4
  <2> QED BY <1>1, <1>2, <1>3, <1>4, <2>1, <2>2 DEF Spliced
<1>6. Concat(c) = Concat(a) \o Concat(b)
  BY <1>2, <1>3, <1>4, <1>5, ConcatSpliced
<1> QED BY <1>2, <1>3, <1>4, <1>6, <1>t

LEMMA QueuedOne ==
    ASSUME NEW m \in WorkMsgs, NEW q, q = <<m>> PROVE Queued(q) = CandOf(m)
<1>k. PICK k : k = CandOfAll(q)
  OBVIOUS
<1>e. PICK e \in Seq(Candidates) : e = CandOf(m)
  BY CandOfType
<1>1. q \in Seq(WorkMsgs) /\ Len(q) = 1 /\ q[1] = m
  OBVIOUS
<1>2. k = <<e>>
  BY <1>k, <1>e, <1>1 DEF CandOfAll
<1>3. Queued(q) = Concat(k)
  BY <1>1, <1>k, QueuedIs
<1> QED BY <1>2, <1>3, <1>e, ConcatOne

LEMMA QueuedNone == Queued(<<>>) = <<>>
<1>k. PICK k : k = CandOfAll(<<>>)
  OBVIOUS
<1>q. PICK q : q = <<>>
  OBVIOUS
<1>0. q \in Seq(WorkMsgs)
  BY <1>q
<1>1. k = <<>>
  BY <1>k DEF CandOfAll
<1>2. Queued(q) = Concat(k)
  BY <1>0, <1>k, <1>q, QueuedIs
<1> QED BY <1>1, <1>2, <1>q, ConcatNone

LEMMA QueuedAppend ==
    ASSUME NEW q \in Seq(WorkMsgs), NEW m \in WorkMsgs, NEW r, r = Append(q, m)
    PROVE  Queued(r) = Queued(q) \o CandOf(m)
<1>o. PICK o : o = <<m>>
  OBVIOUS
<1>1. o \in Seq(WorkMsgs) /\ r = q \o o
  BY <1>o
<1>2. Queued(q \o o) = Queued(q) \o Queued(o)
  BY <1>1, QueuedJoin
<1> QED BY <1>1, <1>2, <1>o, QueuedOne

LEMMA QueuedTail ==
    ASSUME NEW q \in Seq(WorkMsgs), q # <<>>, NEW r, r = Tail(q), NEW m, m = Head(q)
    PROVE  r \in Seq(WorkMsgs) /\ m \in WorkMsgs /\ Queued(q) = CandOf(m) \o Queued(r)
<1>o. PICK o : o = <<m>>
  OBVIOUS
<1>1. m \in WorkMsgs /\ r \in Seq(WorkMsgs)
  OBVIOUS
<1>2. o \in Seq(WorkMsgs) /\ q = o \o r
  BY <1>o
<1>3. Queued(o \o r) = Queued(o) \o Queued(r)
  BY <1>1, <1>2, QueuedJoin
<1> QED BY <1>1, <1>2, <1>3, <1>o, QueuedOne

\* The candidates in the messages a handler sent.
Bodies(o) == Concat([i \in DOMAIN o |-> o[i].cands])

\* The candidates in one of them.
BodyOf(m) == m.cands

BodyOfAll(q) == [i \in DOMAIN q |-> BodyOf(q[i])]

LEMMA BodyOfType == ASSUME NEW m \in Msgs PROVE BodyOf(m) \in Seq(Candidates)
BY DEF BodyOf, Msgs

LEMMA BodiesIs ==
    ASSUME NEW q \in Seq(Msgs), NEW k, k = BodyOfAll(q)
    PROVE  /\ Bodies(q) = Concat(k) /\ k \in Seq(Seq(Candidates)) /\ Len(k) = Len(q)
           /\ \A i \in 1 .. Len(q) : k[i] = BodyOf(q[i])
           /\ Bodies(q) \in Seq(Candidates)
<1>1. \A i \in DOMAIN q : q[i] \in Msgs
  OBVIOUS
<1>2. \A i \in DOMAIN q : k[i] = BodyOf(q[i]) /\ k[i] \in Seq(Candidates)
  BY <1>1, BodyOfType DEF BodyOfAll
<1>3. DOMAIN k = 1 .. Len(q) /\ DOMAIN q = 1 .. Len(q) /\ k = [i \in 1 .. Len(q) |-> k[i]]
  BY DEF BodyOfAll
<1>u. PICK U : U = Seq(Candidates)
  OBVIOUS
<1>4. k \in [1 .. Len(q) -> U]
  BY <1>2, <1>3, <1>u
<1>5. k \in Seq(U) /\ Len(k) = Len(q)
  BY <1>4
<1>6. Bodies(q) = Concat(k)
  BY DEF BodyOfAll, Bodies, BodyOf
<1>7. k \in Seq(Seq(Candidates))
  BY <1>5, <1>u
<1>8. Concat(k) \in Seq(Candidates)
  BY <1>7, ConcatType
<1> QED BY <1>2, <1>3, <1>5, <1>6, <1>7, <1>8

LEMMA BodiesJoin ==
    ASSUME NEW q \in Seq(Msgs), NEW r \in Seq(Msgs)
    PROVE  Bodies(q \o r) = Bodies(q) \o Bodies(r)
<1>t. PICK t : t = q \o r
  OBVIOUS
<1>1. /\ t \in Seq(Msgs) /\ Len(t) = Len(q) + Len(r)
      /\ \A i \in 1 .. Len(q) : i \in 1 .. Len(t) /\ t[i] = q[i]
      /\ \A i \in 1 .. Len(r) : Len(q) + i \in 1 .. Len(t) /\ t[Len(q) + i] = r[i]
  BY <1>t
<1>a. PICK a : a = BodyOfAll(q)
  OBVIOUS
<1>b. PICK b : b = BodyOfAll(r)
  OBVIOUS
<1>c. PICK c : c = BodyOfAll(t)
  OBVIOUS
<1>2. /\ Bodies(q) = Concat(a) /\ a \in Seq(Seq(Candidates)) /\ Len(a) = Len(q)
      /\ \A i \in 1 .. Len(q) : a[i] = BodyOf(q[i])
  BY <1>a, BodiesIs
<1>3. /\ Bodies(r) = Concat(b) /\ b \in Seq(Seq(Candidates)) /\ Len(b) = Len(r)
      /\ \A i \in 1 .. Len(r) : b[i] = BodyOf(r[i])
  BY <1>b, BodiesIs
<1>4. /\ Bodies(t) = Concat(c) /\ c \in Seq(Seq(Candidates)) /\ Len(c) = Len(t)
      /\ \A i \in 1 .. Len(t) : c[i] = BodyOf(t[i])
  BY <1>1, <1>c, BodiesIs
<1>5. Spliced(c, a, b)
  <2>1. \A i \in 1 .. Len(a) : c[i] = a[i]
    BY <1>1, <1>2, <1>4
  <2>2. \A i \in 1 .. Len(b) : c[Len(a) + i] = b[i]
    BY <1>1, <1>2, <1>3, <1>4
  <2> QED BY <1>1, <1>2, <1>3, <1>4, <2>1, <2>2 DEF Spliced
<1>6. Concat(c) = Concat(a) \o Concat(b)
  BY <1>2, <1>3, <1>4, <1>5, ConcatSpliced
<1> QED BY <1>2, <1>3, <1>4, <1>6, <1>t

LEMMA BodiesOne ==
    ASSUME NEW m \in Msgs, NEW q, q = <<m>> PROVE Bodies(q) = BodyOf(m)
<1>k. PICK k : k = BodyOfAll(q)
  OBVIOUS
<1>e. PICK e \in Seq(Candidates) : e = BodyOf(m)
  BY BodyOfType
<1>1. q \in Seq(Msgs) /\ Len(q) = 1 /\ q[1] = m
  OBVIOUS
<1>2. k = <<e>>
  BY <1>k, <1>e, <1>1 DEF BodyOfAll
<1>3. Bodies(q) = Concat(k)
  BY <1>1, <1>k, BodiesIs
<1> QED BY <1>2, <1>3, <1>e, ConcatOne

LEMMA BodiesNone == Bodies(<<>>) = <<>>
<1>k. PICK k : k = BodyOfAll(<<>>)
  OBVIOUS
<1>q. PICK q : q = <<>>
  OBVIOUS
<1>0. q \in Seq(Msgs)
  BY <1>q
<1>1. k = <<>>
  BY <1>k DEF BodyOfAll
<1>2. Bodies(q) = Concat(k)
  BY <1>0, <1>k, <1>q, BodiesIs
<1> QED BY <1>1, <1>2, <1>q, ConcatNone

LEMMA BodiesAppend ==
    ASSUME NEW q \in Seq(Msgs), NEW m \in Msgs, NEW r, r = Append(q, m)
    PROVE  Bodies(r) = Bodies(q) \o BodyOf(m)
<1>o. PICK o : o = <<m>>
  OBVIOUS
<1>1. o \in Seq(Msgs) /\ r = q \o o
  BY <1>o
<1>2. Bodies(q \o o) = Bodies(q) \o Bodies(o)
  BY <1>1, BodiesJoin
<1> QED BY <1>1, <1>2, <1>o, BodiesOne

LEMMA BodiesTail ==
    ASSUME NEW q \in Seq(Msgs), q # <<>>, NEW r, r = Tail(q), NEW m, m = Head(q)
    PROVE  r \in Seq(Msgs) /\ m \in Msgs /\ Bodies(q) = BodyOf(m) \o Bodies(r)
<1>o. PICK o : o = <<m>>
  OBVIOUS
<1>1. m \in Msgs /\ r \in Seq(Msgs)
  OBVIOUS
<1>2. o \in Seq(Msgs) /\ q = o \o r
  BY <1>o
<1>3. Bodies(o \o r) = Bodies(o) \o Bodies(r)
  BY <1>1, <1>2, BodiesJoin
<1> QED BY <1>1, <1>2, <1>3, <1>o, BodiesOne

\* In words they are the same.
LEMMA SentCarried ==
    ASSUME NEW n, NEW o \in Seq(Msgs) PROVE Carried(Sent(n, o)) = Bodies(o)
<1>w. PICK w : w = Sent(n, o)
  OBVIOUS
<1>1. DOMAIN w = DOMAIN o /\ \A i \in DOMAIN o : w[i].type = "send" /\ w[i].body = o[i]
  BY <1>w DEF Sent, SendWord, Word
<1>2. CandsOfAll(w) = BodyOfAll(o)
  BY <1>1 DEF CandsOfAll, BodyOfAll, CandsOf, BodyOf
<1>3. Carried(w) = Concat(CandsOfAll(w)) /\ Bodies(o) = Concat(BodyOfAll(o))
  BY DEF Carried, CandsOfAll, CandsOf, Bodies, BodyOfAll, BodyOf
<1> QED BY <1>2, <1>3, <1>w

\* One more message has come: c, whose candidates go on if none is refused.
Passed(c) == IF \A i \in DOMAIN c : VerifyCandidate(c[i]) THEN c ELSE <<>>

LEMMA VerifiedAppend ==
    ASSUME NEW g \in Seq(Seq(Candidates)), NEW c \in Seq(Candidates), NEW h, h = Append(g, c)
    PROVE  Concat(Verified(h)) = Concat(Verified(g)) \o
                                    (IF \A i \in DOMAIN c : VerifyCandidate(c[i]) THEN c ELSE <<>>)
<1>u. PICK U : U = Seq(Candidates)
  OBVIOUS
<1>g. PICK x \in Seq(U) : x = g
  BY <1>u
<1>0. <<>> \in U /\ c \in U
  BY <1>u
<1>1. Passed(c) \in U /\ \A i \in 1 .. Len(x) : x[i] \in U /\ Passed(x[i]) \in U
  BY <1>0 DEF Passed
<1>v. PICK v \in Seq(U) : v = [i \in 1 .. Len(x) |-> Passed(x[i])]
  <2>1. [i \in 1 .. Len(x) |-> Passed(x[i])] \in Seq(U)
    BY <1>1
  <2> QED BY <2>1
<1>d. PICK d \in U : d = Passed(c)
  BY <1>1
<1>2. Len(v) = Len(x) /\ \A i \in 1 .. Len(x) : v[i] = Passed(x[i])
  BY <1>1, <1>v
<1>3. Verified(g) = v
  BY <1>g, <1>v DEF Verified, Passed
<1>w. PICK w : w = Verified(h)
  OBVIOUS
<1>y. PICK y \in Seq(U) : y = Append(v, d)
  <2>1. Append(v, d) \in Seq(U)
    OBVIOUS
  <2> QED BY <2>1
<1>4. /\ h \in Seq(U) /\ Len(h) = Len(x) + 1
      /\ \A i \in 1 .. Len(x) : h[i] = x[i]
      /\ h[Len(x) + 1] = c
  BY <1>0, <1>g
<1>5. w = [i \in 1 .. (Len(x) + 1) |-> Passed(h[i])]
  BY <1>4, <1>w DEF Verified, Passed
<1>6. /\ Len(y) = Len(x) + 1
      /\ \A i \in 1 .. Len(x) : y[i] = v[i]
      /\ y[Len(x) + 1] = d
  BY <1>2, <1>y
<1>7. \A i \in 1 .. (Len(x) + 1) : Passed(h[i]) = y[i]
  <2>1. ASSUME NEW i \in 1 .. (Len(x) + 1) PROVE Passed(h[i]) = y[i]
    <3>1. CASE i \in 1 .. Len(x)
      BY <1>2, <1>4, <1>6, <3>1
    <3>2. CASE i = Len(x) + 1
      BY <1>4, <1>6, <1>d, <3>2
    <3>3. i \in 1 .. Len(x) \/ i = Len(x) + 1
      OBVIOUS
    <3> QED BY <3>1, <3>2, <3>3
  <2> QED BY <2>1
<1>8. y = [i \in 1 .. (Len(x) + 1) |-> y[i]]
  BY <1>6
<1>9. w = y
  BY <1>5, <1>7, <1>8
<1>10. Concat(Append(v, d)) = Concat(v) \o d
  <2>1. v \in Seq(Seq(Candidates)) /\ d \in Seq(Candidates)
    BY <1>2, <1>u
  <2> QED BY <2>1, ConcatAppend
<1> QED BY <1>3, <1>9, <1>10, <1>d, <1>w, <1>y DEF Passed

\* One message to the worker for each candidate.
LEMMA QueuedEach ==
    ASSUME NEW c \in Seq(Candidates), NEW q, q = [i \in DOMAIN c |-> CandidateMsg(c[i])]
    PROVE  q \in Seq(WorkMsgs) /\ Queued(q) = c
<1>1. q \in Seq(WorkMsgs)
  BY DEF WorkMsgs
<1>k. PICK k : k = [i \in DOMAIN c |-> <<c[i]>>]
  OBVIOUS
<1>2. \A i \in DOMAIN c : c[i] # <<>>
  <2>1. ASSUME NEW x \in Candidates PROVE x # <<>>
    <3>1. PICK p \in Procs : x \in {p} \X (1 .. MaxCand[p])
      BY DEF Candidates
    <3>2. x = <<x[1], x[2]>>
      BY <3>1
    <3>y. PICK y, z : x = <<y, z>>
      BY <3>2
    <3>3. <<y, z>> # <<>>
      <4>1. DOMAIN <<y, z>> = 1 .. 2 /\ DOMAIN <<>> = {}
        OBVIOUS
      <4> QED BY <4>1
    <3> QED BY <3>y, <3>3
  <2> QED BY <2>1
<1>3. CandOfAll(q) = k
  <2>1. DOMAIN q = DOMAIN c /\ \A i \in DOMAIN c : q[i].cand = c[i]
    BY DEF CandidateMsg
  <2> QED BY <1>2, <1>k, <2>1 DEF CandOfAll, CandOf
<1>4. Queued(q) = Concat(CandOfAll(q))
  BY DEF Queued, CandOfAll, CandOf
<1>5. Concat(k) = c
  BY <1>k, ConcatSingles
<1> QED BY <1>1, <1>3, <1>4, <1>5

-----------------------------------------------------------------------------
(* The candidates of one process through its handlers.                     *)

\* Only transport messages hold candidates.
Tidy == {m \in Msgs : m.type # "transport" => m.cands = <<>>}

\* The candidates of the partner that have come, those that the channel got or
\* will get from the worker's queue, and those still to be sent to the partner.
Came(s)  == Concat(s.got)
Took(s)  == s.remote \o Queued(s.wq)
Rest(s)  == s.unsent \o s.ready
Gives(s) == Bodies(s.out) \o Rest(s)

\* The channel gets what came in messages without a refused candidate.
Settled(s) == Took(s) = Concat(Verified(s.got))

\* From s to r nothing is lost, doubled or overtaken.
Sends(r, s) ==
    /\ Gives(r) = Gives(s)
    /\ r.made = s.made
    /\ s.out \in Seq(Tidy) => r.out \in Seq(Tidy)

Flows(r, s) == r.got = s.got /\ Took(r) = Took(s) /\ Sends(r, s)

\* The candidates c come, and are dealt with as they must be.
Hands(r, s, c) == Came(r) = Came(s) \o c /\ (Settled(s) => Settled(r))

Untouched(r, s) ==
    /\ r.got = s.got
    /\ r.remote = s.remote /\ r.wq = s.wq /\ r.unsent = s.unsent /\ r.ready = s.ready
    /\ r.out = s.out /\ r.made = s.made

LEMMA FlowsTrans ==
    ASSUME NEW r, NEW s, NEW t, Flows(r, s), Flows(s, t) PROVE Flows(r, t)
BY DEF Flows, Sends

LEMMA UntouchedFlows ==
    ASSUME NEW r, NEW s, Untouched(r, s) PROVE Flows(r, s)
BY DEF Untouched, Flows, Sends, Took, Gives, Rest

LEMMA MidFields ==
    ASSUME NEW p, NEW s \in Mid(p)
    PROVE  /\ s.remote \in Seq(Candidates) /\ s.wq \in Seq(WorkMsgs)
           /\ s.unsent \in Seq(Candidates) /\ s.ready \in Seq(Candidates)
           /\ s.out \in Seq(Msgs) /\ s.made \in Nat
           /\ Took(s) \in Seq(Candidates) /\ Rest(s) \in Seq(Candidates)
           /\ Bodies(s.out) \in Seq(Candidates) /\ Gives(s) \in Seq(Candidates)
           /\ s.got \in Seq(Seq(Candidates)) /\ Came(s) \in Seq(Candidates)
<1>1. /\ s.remote \in Seq(Candidates) /\ s.wq \in Seq(WorkMsgs)
      /\ s.unsent \in Seq(Candidates) /\ s.ready \in Seq(Candidates)
      /\ s.out \in Seq(Msgs) /\ s.made \in Nat
  BY DEF Mid
<1>2. Queued(s.wq) \in Seq(Candidates) /\ Bodies(s.out) \in Seq(Candidates)
  BY <1>1, QueuedIs, BodiesIs
<1>3. Took(s) \in Seq(Candidates) /\ Rest(s) \in Seq(Candidates)
  BY <1>1, <1>2 DEF Took, Rest
<1>4. Gives(s) \in Seq(Candidates)
  BY <1>2, <1>3 DEF Gives
<1>5. s.got \in Seq(Seq(Candidates))
  BY DEF Mid
<1>6. Came(s) \in Seq(Candidates)
  BY <1>5, ConcatType DEF Came
<1> QED BY <1>1, <1>2, <1>3, <1>4, <1>5, <1>6

LEMMA SetStateFlows ==
    ASSUME NEW p, NEW s \in Mid(p), NEW x, NEW r, r = SetState(s, x) PROVE Flows(r, s)
<1>1. Untouched(r, s)
  BY DEF SetState, Mid, Untouched
<1> QED BY <1>1, UntouchedFlows

LEMMA ProxiesFlow ==
    ASSUME NEW p, NEW s \in Mid(p), NEW r, r = CreateTransportProxies(s) PROVE Flows(r, s)
<1>1. Untouched(r, s)
  BY DEF CreateTransportProxies, Mid, Untouched
<1> QED BY <1>1, UntouchedFlows

LEMMA ConnectFlows ==
    ASSUME NEW p, NEW s \in Mid(p), NEW x, NEW r, r = ConnectChannels([s EXCEPT !.proxy = x])
    PROVE  Flows(r, s)
<1>t. PICK t : t = [s EXCEPT !.proxy = x]
  OBVIOUS
<1>1. Untouched(t, s) /\ DOMAIN t = DOMAIN s
  BY <1>t DEF Mid, Untouched
<1>2. r = t \/ r = [t EXCEPT !.connectReq = TRUE, !.waiting = TRUE,
                   !.sigq = @ \o <<"CANDIDATEREADY", "REQUESTSIGNALING", "CONNECTING">>]
  BY <1>t DEF ConnectChannels
<1>3. DOMAIN t = {"main", "sock", "dead", "io", "remoteOnline", "targets", "state", "pending", "timer",
        "out", "proxy", "connectReq", "ready", "unsent", "twritable", "writable", "waiting", "session",
        "remote", "got", "made", "allocs", "flips", "sigq", "wq"}
  BY <1>1 DEF Mid
<1>4. Untouched(r, t)
  BY <1>2, <1>3 DEF Untouched
<1> QED BY <1>1, <1>4, UntouchedFlows, FlowsTrans

LEMMA CompleteFlows ==
    ASSUME NEW p, NEW s \in Mid(p), NEW r, r = CompleteNegotiation(s) PROVE Flows(r, s)
<1>1. CASE s.proxy = "NEGOTIATED"
  <2>1. Untouched(r, s)
    BY <1>1 DEF CompleteNegotiation, Untouched
  <2> QED BY <2>1, UntouchedFlows
<1>2. CASE s.proxy # "NEGOTIATED"
  BY <1>2, ConnectFlows DEF CompleteNegotiation
<1> QED BY <1>1, <1>2

LEMMA SpeculativeFlows ==
    ASSUME NEW p, NEW s \in Mid(p), NEW r, r = SpeculativelyConnectChannels(s) PROVE Flows(r, s)
<1>1. CASE s.proxy = "NEGOTIATED"
  <2>0. r = [s EXCEPT !.dead = "assert"]
    BY <1>1 DEF SpeculativelyConnectChannels
  <2>1. Untouched(r, s)
    BY <2>0 DEF Mid, Untouched
  <2> QED BY <2>1, UntouchedFlows
<1>2. CASE s.proxy # "NEGOTIATED"
  BY <1>2, ConnectFlows DEF SpeculativelyConnectChannels
<1> QED BY <1>1, <1>2

\* Sending a message.
LEMMA SendGives ==
    ASSUME NEW p, NEW s \in Mid(p), NEW m \in Msgs, NEW r, r = SendMsg(s, m)
    PROVE  /\ Bodies(r.out) = Bodies(s.out) \o m.cands
           /\ m \in Tidy /\ s.out \in Seq(Tidy) => r.out \in Seq(Tidy)
           /\ r.remote = s.remote /\ r.wq = s.wq /\ r.unsent = s.unsent /\ r.ready = s.ready
           /\ r.made = s.made /\ r.got = s.got
<1>1. /\ r.out = Append(s.out, m)
      /\ r.remote = s.remote /\ r.wq = s.wq /\ r.unsent = s.unsent /\ r.ready = s.ready
      /\ r.made = s.made /\ r.got = s.got
  BY DEF SendMsg, Mid
<1>2. s.out \in Seq(Msgs)
  BY MidFields
<1>q. PICK q \in Seq(Msgs) : q = s.out
  BY <1>2
<1>3. Bodies(r.out) = Bodies(q) \o BodyOf(m)
  BY <1>1, <1>q, BodiesAppend
<1>4. m \in Tidy /\ q \in Seq(Tidy) => Append(q, m) \in Seq(Tidy)
  OBVIOUS
<1> QED BY <1>1, <1>3, <1>4, <1>q DEF BodyOf

LEMMA SendFlows ==
    ASSUME NEW p, NEW s \in Mid(p), NEW m \in Msgs, m.cands = <<>>, NEW r, r = SendMsg(s, m)
    PROVE  Flows(r, s)
<1>1. /\ Bodies(r.out) = Bodies(s.out) \o m.cands
      /\ m \in Tidy /\ s.out \in Seq(Tidy) => r.out \in Seq(Tidy)
      /\ r.remote = s.remote /\ r.wq = s.wq /\ r.unsent = s.unsent /\ r.ready = s.ready
      /\ r.made = s.made /\ r.got = s.got
  BY SendGives
<1>2. m \in Tidy
  BY DEF Tidy
<1>b. PICK b \in Seq(Candidates) : b = Bodies(s.out)
  BY MidFields
<1>3. b \o <<>> = b
  OBVIOUS
<1> QED BY <1>1, <1>2, <1>3, <1>b DEF Flows, Sends, Took, Gives, Rest

LEMMA FlushFlows ==
    ASSUME NEW p, NEW s \in Mid(p), NEW r, r = SendAllUnsentTransportInfoMessages(s)
    PROVE  Flows(r, s)
<1>t. PICK t : t = [s EXCEPT !.pending = FALSE]
  OBVIOUS
<1>0. t \in Mid(p) /\ Untouched(t, s)
  BY ZenonT(60), <1>t DEF Mid, Untouched
<1>1. CASE s.unsent = <<>>
  <2>1. r = t
    BY <1>0, <1>1, <1>t DEF SendAllUnsentTransportInfoMessages, Untouched
  <2> QED BY <1>0, <2>1, UntouchedFlows
<1>2. CASE s.unsent # <<>>
  <2>u. PICK u \in Seq(Candidates) : u = s.unsent
    BY MidFields
  <2>m. PICK m \in Msgs : m = Msg("transport", u)
    BY MsgType
  <2>a. PICK a : a = SendMsg(t, m)
    OBVIOUS
  <2>1. /\ Bodies(a.out) = Bodies(t.out) \o m.cands
        /\ m \in Tidy /\ t.out \in Seq(Tidy) => a.out \in Seq(Tidy)
        /\ a.remote = t.remote /\ a.wq = t.wq /\ a.unsent = t.unsent /\ a.ready = t.ready
        /\ a.made = t.made /\ a.got = t.got
    BY <1>0, <2>a, SendGives
  <2>2. m \in Tidy /\ m.cands = u
    BY <2>m DEF Tidy, Msg
  <2>3. r = [a EXCEPT !.unsent = <<>>]
    BY <1>0, <1>2, <1>t, <2>a, <2>m, <2>u DEF SendAllUnsentTransportInfoMessages, Untouched
  <2>4. a = [t EXCEPT !.out = Append(@, m)]
    BY <2>a DEF SendMsg
  <2>5. /\ r.out = a.out /\ r.remote = a.remote /\ r.wq = a.wq /\ r.unsent = <<>> /\ r.ready = a.ready
        /\ r.made = a.made /\ r.got = a.got
    BY <1>0, <2>3, <2>4 DEF Mid
  <2>b. PICK b \in Seq(Candidates) : b = Bodies(s.out)
    BY MidFields
  <2>y. PICK y \in Seq(Candidates) : y = s.ready
    BY MidFields
  <2>g. \A x, c, d \in Seq(Candidates) : (x \o c) \o d = x \o (c \o d)
    BY SMTT(40), Regroup
  <2>6. (b \o u) \o (<<>> \o y) = b \o (u \o y)
    <3>1. <<>> \o y = y
      OBVIOUS
    <3>2. (b \o u) \o y = b \o (u \o y)
      BY ZenonT(60), <2>g, <2>b, <2>u, <2>y
    <3> QED BY <3>1, <3>2
  <2>7. Gives(r) = Gives(s)
    BY <1>0, <2>1, <2>2, <2>5, <2>6, <2>b, <2>u, <2>y DEF Gives, Rest, Untouched
  <2> QED BY <1>0, <2>1, <2>2, <2>5, <2>7 DEF Flows, Sends, Took, Untouched
<1> QED BY <1>1, <1>2

LEMMA SameFlows == ASSUME NEW s PROVE Flows(s, s)
BY DEF Flows, Sends

LEMMA InitiateFlows ==
    ASSUME NEW p, NEW s, NEW h, Local(p, s, h), NEW r, r = Initiate(s) PROVE Flows(r, s)
<1>1. CASE s.state # "INIT"
  <2>1. r = s
    BY <1>1 DEF Initiate
  <2> QED BY <2>1, SameFlows
<1>2. CASE s.state = "INIT"
  <2>a. PICK a : a = CreateTransportProxies(s)
    OBVIOUS
  <2>3. Msg("initiate", <<>>) \in Msgs
    BY DEF Msg, Msgs
  <2>m. PICK m \in Msgs : m = Msg("initiate", <<>>)
    BY <2>3
  <2>b. PICK b : b = SendMsg(a, m)
    OBVIOUS
  <2>c. PICK c : c = SetState(b, "SENTINITIATE")
    OBVIOUS
  <2>1. r = SpeculativelyConnectChannels(c)
    BY <1>2, <2>a, <2>b, <2>c, <2>m DEF Initiate
  <2>2. Local(p, a, h)
    BY <2>a, ProxiesKeep
  <2>4. Local(p, b, h)
    BY <2>2, <2>b, SendMsgKeeps
  <2>5. "SENTINITIATE" \in States /\ m.cands = <<>>
    BY <2>m DEF States, Msg
  <2>6. Local(p, c, h)
    BY <2>4, <2>5, <2>c, SetStateKeeps
  <2>7. s \in Mid(p) /\ a \in Mid(p) /\ b \in Mid(p) /\ c \in Mid(p)
    BY <2>2, <2>4, <2>6 DEF Local
  <2>8. Flows(a, s)
    BY <2>7, <2>a, ProxiesFlow
  <2>9. Flows(b, a)
    BY <2>5, <2>7, <2>b, SendFlows
  <2>10. Flows(c, b)
    BY <2>7, <2>c, SetStateFlows
  <2>11. Flows(r, c)
    BY <2>1, <2>7, SpeculativeFlows
  <2> QED BY <2>8, <2>9, <2>10, <2>11, FlowsTrans
<1> QED BY <1>1, <1>2

LEMMA AcceptFlows ==
    ASSUME NEW p, NEW s, NEW h, Local(p, s, h), NEW r, r = Accept(s) PROVE Flows(r, s)
<1>1. CASE s.state # "RECEIVEDINITIATE"
  <2>1. r = s
    BY <1>1 DEF Accept
  <2> QED BY <2>1, SameFlows
<1>2. CASE s.state = "RECEIVEDINITIATE"
  <2>3. Msg("accept", <<>>) \in Msgs
    BY DEF Msg, Msgs
  <2>m. PICK m \in Msgs : m = Msg("accept", <<>>)
    BY <2>3
  <2>b. PICK b : b = SendMsg(s, m)
    OBVIOUS
  <2>c. PICK c : c = SetState(b, "SENTACCEPT")
    OBVIOUS
  <2>1. r = SendAllUnsentTransportInfoMessages(c)
    BY <1>2, <2>b, <2>c, <2>m DEF Accept
  <2>4. Local(p, b, h)
    BY <2>b, SendMsgKeeps
  <2>5. "SENTACCEPT" \in States /\ m.cands = <<>>
    BY <2>m DEF States, Msg
  <2>6. Local(p, c, h)
    BY <2>4, <2>5, <2>c, SetStateKeeps
  <2>7. s \in Mid(p) /\ b \in Mid(p) /\ c \in Mid(p)
    BY <2>4, <2>6 DEF Local
  <2>8. Flows(b, s)
    BY <2>5, <2>7, <2>b, SendFlows
  <2>9. Flows(c, b)
    BY <2>7, <2>c, SetStateFlows
  <2>10. Flows(r, c)
    BY <2>1, <2>7, FlushFlows
  <2> QED BY <2>8, <2>9, <2>10, FlowsTrans
<1> QED BY <1>1, <1>2

LEMMA CheckStateFlows ==
    ASSUME NEW p, NEW s \in Mid(p), NEW x, NEW t, Flows(t, s), NEW r, r = CheckState(s, x, t)
    PROVE  Flows(r, s)
<1>1. CASE s.state # x
  <2>1. r = [s EXCEPT !.dead = "assert"]
    BY <1>1 DEF CheckState
  <2>2. Untouched(r, s)
    BY <2>1 DEF Mid, Untouched
  <2> QED BY <2>2, UntouchedFlows
<1>2. CASE s.state = x
  BY <1>2 DEF CheckState
<1> QED BY <1>1, <1>2

LEMMA OnInitiateFlows ==
    ASSUME NEW p, NEW s, NEW h, Local(p, s, h), NEW r, r = OnInitiateMessage(s) PROVE Flows(r, s)
<1>a. PICK a : a = CreateTransportProxies(s)
  OBVIOUS
<1>b. PICK b : b = SetState(a, "RECEIVEDINITIATE")
  OBVIOUS
<1>c. PICK c : c = CompleteNegotiation(b)
  OBVIOUS
<1>1. r = CheckState(s, "INIT", c) /\ s \in Mid(p)
  BY <1>a, <1>b, <1>c DEF OnInitiateMessage, Local
<1>2. Local(p, a, h)
  BY <1>a, ProxiesKeep
<1>3. "RECEIVEDINITIATE" \in States
  BY DEF States
<1>4. Local(p, b, h)
  BY <1>2, <1>3, <1>b, SetStateKeeps
<1>5. a \in Mid(p) /\ b \in Mid(p)
  BY <1>2, <1>4 DEF Local
<1>6. Flows(a, s)
  BY <1>1, <1>a, ProxiesFlow
<1>7. Flows(b, a)
  BY <1>5, <1>b, SetStateFlows
<1>8. Flows(c, b)
  BY <1>5, <1>c, CompleteFlows
<1>9. Flows(c, s)
  BY <1>6, <1>7, <1>8, FlowsTrans
<1> QED BY <1>1, <1>9, CheckStateFlows

LEMMA OnAcceptFlows ==
    ASSUME NEW p, NEW s, NEW h, Local(p, s, h), NEW r, r = OnAcceptMessage(s) PROVE Flows(r, s)
<1>a. PICK a : a = SendAllUnsentTransportInfoMessages(s)
  OBVIOUS
<1>b. PICK b : b = SetState(a, "RECEIVEDACCEPT")
  OBVIOUS
<1>c. PICK c : c = CompleteNegotiation(b)
  OBVIOUS
<1>1. r = CheckState(s, "SENTINITIATE", c) /\ s \in Mid(p)
  BY <1>a, <1>b, <1>c DEF OnAcceptMessage, Local
<1>2. Local(p, a, h)
  BY <1>a, FlushKeeps
<1>3. "RECEIVEDACCEPT" \in States
  BY DEF States
<1>4. Local(p, b, h)
  BY <1>2, <1>3, <1>b, SetStateKeeps
<1>5. a \in Mid(p) /\ b \in Mid(p)
  BY <1>2, <1>4 DEF Local
<1>6. Flows(a, s)
  BY <1>1, <1>a, FlushFlows
<1>7. Flows(b, a)
  BY <1>5, <1>b, SetStateFlows
<1>8. Flows(c, b)
  BY <1>5, <1>c, CompleteFlows
<1>9. Flows(c, s)
  BY <1>6, <1>7, <1>8, FlowsTrans
<1> QED BY <1>1, <1>9, CheckStateFlows

LEMMA OnStateFlows ==
    ASSUME NEW p, NEW s \in Mid(p), NEW r, r = OnState(s) PROVE Flows(r, s)
<1>1. CASE s.state \in {"SENTACCEPT", "RECEIVEDACCEPT"}
  BY <1>1, SetStateFlows DEF OnState
<1>2. CASE s.state \notin {"SENTACCEPT", "RECEIVEDACCEPT"}
  BY <1>2, SameFlows DEF OnState
<1> QED BY <1>1, <1>2

LEMMA ArmFlows ==
    ASSUME NEW p, NEW s \in Mid(p), NEW t, t = s \/ t = [s EXCEPT !.twritable = s.writable],
           NEW r, r = OnTransportWritable(t)
    PROVE  Flows(r, s)
<1>1. DOMAIN t = DOMAIN s /\ Untouched(t, s)
  BY DEF Mid, Untouched
<1>2. Untouched(r, t)
  BY <1>1 DEF OnTransportWritable, Mid, Untouched
<1> QED BY <1>1, <1>2, UntouchedFlows, FlowsTrans

LEMMA OnWritableStateFlows ==
    ASSUME NEW p, NEW s \in Mid(p), NEW r, r = OnChannelWritableState_s(s) PROVE Flows(r, s)
<1>1. CASE s.twritable = s.writable
  BY <1>1, SameFlows DEF OnChannelWritableState_s
<1>2. CASE s.twritable # s.writable
  <2>1. r = OnTransportWritable([s EXCEPT !.twritable = s.writable])
    BY <1>2 DEF OnChannelWritableState_s
  <2> QED BY <2>1, ArmFlows
<1> QED BY <1>1, <1>2

\* The candidates that are ready go out, or wait behind those kept back; if
\* they go out, none is kept back (Stranded).
LEMMA OnCandidatesReadyFlows ==
    ASSUME NEW p, NEW s, Local(p, s, "CANDIDATEREADY"), NEW r, r = OnCandidatesReady(s)
    PROVE  Flows(r, s)
<1>0. s \in Mid(p)
  BY DEF Local
<1>1. s.connectReq
  BY DEF Local, Unconnected, ConnectMsgs
<1>2. s.unsent # <<>> => s.pending
  BY DEF Local, Stranded
<1>u. PICK u \in Seq(Candidates) : u = s.unsent
  BY <1>0, MidFields
<1>y. PICK y \in Seq(Candidates) : y = s.ready
  BY <1>0, MidFields
<1>b. PICK b \in Seq(Candidates) : b = Bodies(s.out)
  BY <1>0, MidFields
<1>t. PICK t : t = [s EXCEPT !.ready = <<>>]
  OBVIOUS
<1>3. t \in Mid(p)
  <2>1. <<>> \in Seq(Candidates)
    OBVIOUS
  <2> QED BY ZenonT(60), <1>0, <1>t, <2>1 DEF Mid
<1>4. /\ t.remote = s.remote /\ t.wq = s.wq /\ t.unsent = s.unsent /\ t.ready = <<>>
      /\ t.out = s.out /\ t.made = s.made /\ t.got = s.got
  BY <1>0, <1>t DEF Mid
<1>5. CASE s.ready = <<>>
  <2>1. r = t
    BY <1>1, <1>5, <1>t DEF OnCandidatesReady
  <2>2. Untouched(r, s)
    BY <1>4, <1>5, <2>1 DEF Untouched
  <2> QED BY <2>2, UntouchedFlows
<1>6. CASE s.ready # <<>> /\ s.pending
  <2>1. r = [t EXCEPT !.unsent = s.unsent \o s.ready]
    BY <1>1, <1>3, <1>4, <1>6, <1>t DEF OnCandidatesReady, Mid
  <2>2. /\ r.remote = s.remote /\ r.wq = s.wq /\ r.unsent = u \o y /\ r.ready = <<>>
        /\ r.out = s.out /\ r.made = s.made /\ r.got = s.got
    BY <1>3, <1>4, <1>u, <1>y, <2>1 DEF Mid
  <2>3. (u \o y) \o <<>> = u \o y
    OBVIOUS
  <2>4. Rest(r) = Rest(s)
    BY <1>u, <1>y, <2>2, <2>3 DEF Rest
  <2> QED BY <2>2, <2>4 DEF Flows, Sends, Took, Gives
<1>7. CASE s.ready # <<>> /\ ~s.pending
  <2>m. PICK m \in Msgs : m = Msg("transport", y)
    BY MsgType
  <2>1. r = SendMsg(t, m)
    BY <1>1, <1>7, <1>t, <1>y, <2>m DEF OnCandidatesReady
  <2>2. /\ Bodies(r.out) = Bodies(t.out) \o m.cands
        /\ m \in Tidy /\ t.out \in Seq(Tidy) => r.out \in Seq(Tidy)
        /\ r.remote = t.remote /\ r.wq = t.wq /\ r.unsent = t.unsent /\ r.ready = t.ready
        /\ r.made = t.made /\ r.got = t.got
    BY <1>3, <2>1, SendGives
  <2>3. m \in Tidy /\ m.cands = y
    BY <2>m DEF Tidy, Msg
  <2>4. u = <<>>
    BY <1>2, <1>7, <1>u
  <2>5. (b \o y) \o (<<>> \o <<>>) = b \o (<<>> \o y)
    <3>1. <<>> \o y = y /\ <<>> \o <<>> = <<>> /\ b \o y \in Seq(Candidates)
      OBVIOUS
    <3>2. (b \o y) \o <<>> = b \o y
      BY <3>1
    <3> QED BY <3>1, <3>2
  <2>6. Gives(r) = Gives(s)
    BY <1>4, <1>b, <1>u, <1>y, <2>2, <2>3, <2>4, <2>5 DEF Gives, Rest
  <2> QED BY <1>4, <2>2, <2>3, <2>6 DEF Flows, Sends, Took
<1> QED BY <1>5, <1>6, <1>7

LEMMA OnSignalingReadyFlows ==
    ASSUME NEW p, NEW s \in Mid(p), NEW r, r = OnSignalingReady(s) PROVE Flows(r, s)
<1>q. PICK q \in Seq(WorkMsgs) : q = s.wq
  BY MidFields
<1>1. ReadyMsg \in WorkMsgs
  BY DEF WorkMsgs
<1>k. PICK k : k = Append(q, ReadyMsg)
  OBVIOUS
<1>2. Queued(k) = Queued(q) \o CandOf(ReadyMsg)
  BY <1>1, <1>k, QueuedAppend
<1>3. CandOf(ReadyMsg) = <<>>
  BY DEF CandOf, ReadyMsg
<1>4. Queued(q) \in Seq(Candidates)
  BY QueuedIs
<1>5. Queued(k) = Queued(q)
  BY <1>2, <1>3, <1>4
<1>6. /\ r.wq = k /\ r.remote = s.remote /\ r.unsent = s.unsent /\ r.ready = s.ready
      /\ r.out = s.out /\ r.made = s.made /\ r.got = s.got
  BY <1>k, <1>q DEF OnSignalingReady, Mid
<1> QED BY <1>5, <1>6, <1>q DEF Flows, Sends, Took, Gives, Rest

\* What a transport message brings is put behind the rest: as come, and in the
\* worker's queue unless one of its candidates is refused.
LEMMA OnTransportInfoFlows ==
    ASSUME NEW p, NEW s, Local(p, s, "none"), NEW c \in Seq(Candidates),
           NEW r, r = OnTransportInfoMessage(s, c)
    PROVE  Hands(r, s, c) /\ Sends(r, s)
<1>n. PICK n : n = Noted(s, c)
  OBVIOUS
<1>t. PICK t : t = CompleteNegotiation(n)
  OBVIOUS
<1>0. s \in Mid(p) /\ Local(p, n, "none") /\ n \in Mid(p)
  BY <1>n, NotedKeeps DEF Local
<1>1. t \in Mid(p)
  BY <1>0, <1>t, CompleteKeeps DEF Local
<1>2. Flows(t, n)
  BY <1>0, <1>t, CompleteFlows
<1>3. /\ n.got = Append(s.got, c) /\ n.remote = s.remote /\ n.wq = s.wq
      /\ n.unsent = s.unsent /\ n.ready = s.ready /\ n.out = s.out /\ n.made = s.made
  BY <1>0, <1>n DEF Noted, Mid
<1>4. t.got = Append(s.got, c) /\ Took(t) = Took(s) /\ Sends(t, s)
  BY <1>2, <1>3 DEF Flows, Sends, Took, Gives, Rest
<1>g. s.got \in Seq(Seq(Candidates)) /\ Took(s) \in Seq(Candidates)
  BY <1>0, MidFields
<1>k. PICK k \in Seq(Candidates) : k = Took(s)
  BY <1>g
<1>e. k \o <<>> = k
  OBVIOUS
<1>5. CASE \A i \in DOMAIN c : VerifyCandidate(c[i])
  <2>1. r = OnRemoteCandidates(t, c)
    BY <1>5, <1>n, <1>t, OnTransportInfoCases
  <2>q. PICK q \in Seq(WorkMsgs) : q = t.wq
    BY <1>1, MidFields
  <2>d. PICK d : d = [i \in DOMAIN c |-> CandidateMsg(c[i])]
    OBVIOUS
  <2>2. d \in Seq(WorkMsgs) /\ Queued(d) = c
    BY <2>d, QueuedEach
  <2>3. Queued(q \o d) = Queued(q) \o Queued(d)
    BY <2>2, QueuedJoin
  <2>4. /\ r.wq = q \o d /\ r.remote = t.remote /\ r.unsent = t.unsent /\ r.ready = t.ready
        /\ r.out = t.out /\ r.made = t.made /\ r.got = t.got
    BY <1>1, <2>1, <2>d, <2>q DEF OnRemoteCandidates, Mid
  <2>m. PICK m \in Seq(Candidates) : m = t.remote
    BY <1>1, MidFields
  <2>w. PICK w \in Seq(Candidates) : w = Queued(q)
    BY QueuedIs
  <2>5. (m \o w) \o c = m \o (w \o c)
    BY SMTT(40), Regroup
  <2>6. Took(r) = k \o c
    BY <1>4, <1>k, <2>2, <2>3, <2>4, <2>5, <2>m, <2>q, <2>w DEF Took
  <2>7. Sends(r, s)
    BY <1>4, <2>4 DEF Sends, Gives, Rest
  <2>g. r.got = Append(s.got, c)
    BY <1>4, <2>4
  <2>8. Concat(Verified(r.got)) = Concat(Verified(s.got)) \o c
    BY <1>5, <1>g, <2>g, VerifiedAppend
  <2>9. Came(r) = Came(s) \o c
    BY <1>g, <2>g, ConcatAppend DEF Came
  <2> QED BY <1>k, <2>6, <2>7, <2>8, <2>9 DEF Hands, Settled
<1>6. CASE ~\A i \in DOMAIN c : VerifyCandidate(c[i])
  <2>1. r = t
    BY <1>6, <1>n, <1>t, OnTransportInfoCases
  <2>2. Concat(Verified(r.got)) = Concat(Verified(s.got)) \o <<>>
    BY <1>4, <1>6, <1>g, <2>1, VerifiedAppend
  <2>3. Came(r) = Came(s) \o c
    BY <1>4, <1>g, <2>1, ConcatAppend DEF Came
  <2> QED BY <1>4, <1>e, <1>k, <2>1, <2>2, <2>3 DEF Hands, Settled
<1> QED BY <1>5, <1>6

LEMMA FlowsHand ==
    ASSUME NEW s, Came(s) \in Seq(Candidates), NEW r, Flows(r, s) PROVE Hands(r, s, <<>>)
<1>1. Came(r) = Came(s) /\ (Settled(s) => Settled(r))
  BY DEF Flows, Came, Settled
<1>c. PICK c \in Seq(Candidates) : c = Came(s)
  OBVIOUS
<1>2. c \o <<>> = c
  OBVIOUS
<1> QED BY <1>1, <1>2, <1>c DEF Hands

LEMMA OnIncomingFlows ==
    ASSUME NEW p, NEW s, Local(p, s, "none"), NEW m \in Tidy, NEW r, r = OnIncomingMessage(s, m)
    PROVE  Hands(r, s, m.cands) /\ Sends(r, s)
<1>0. m \in Msgs /\ (m.type # "transport" => m.cands = <<>>) /\ s \in Mid(p)
  BY DEF Tidy, Local
<1>1. m.type \in {"initiate", "accept", "transport"} /\ m.cands \in Seq(Candidates)
  BY <1>0 DEF Msgs
<1>2. Came(s) \in Seq(Candidates)
  BY <1>0, MidFields
<1>3. CASE m.type = "initiate"
  <2>1. r = OnInitiateMessage(s)
    BY <1>3 DEF OnIncomingMessage
  <2>2. Flows(r, s)
    BY <2>1, OnInitiateFlows
  <2> QED BY <1>0, <1>2, <1>3, <2>2, FlowsHand DEF Flows
<1>4. CASE m.type = "accept"
  <2>1. r = OnAcceptMessage(s)
    BY <1>4 DEF OnIncomingMessage
  <2>2. Flows(r, s)
    BY <2>1, OnAcceptFlows
  <2> QED BY <1>0, <1>2, <1>4, <2>2, FlowsHand DEF Flows
<1>5. CASE m.type = "transport"
  <2>1. r = OnTransportInfoMessage(s, m.cands)
    BY <1>5 DEF OnIncomingMessage
  <2> QED BY <1>1, <2>1, OnTransportInfoFlows
<1> QED BY <1>1, <1>3, <1>4, <1>5

Fields == {"main", "sock", "dead", "io", "remoteOnline", "targets", "state", "pending", "timer",
        "out", "proxy", "connectReq", "ready", "unsent", "twritable", "writable", "waiting", "session",
        "remote", "got", "made", "allocs", "flips", "sigq", "wq"}

LEMMA MidDomain == ASSUME NEW p, NEW s \in Mid(p) PROVE DOMAIN s = Fields
BY DEF Mid, Fields

LEMMA AppendJoin ==
    ASSUME NEW S, NEW a \in Seq(S), NEW b \in Seq(S), NEW x \in S
    PROVE  a \o Append(b, x) = Append(a \o b, x)
<1>o. PICK o : o = <<x>>
  OBVIOUS
<1>1. o \in Seq(S) /\ Append(b, x) = b \o o
  BY <1>o
<1>2. (a \o b) \o o = a \o (b \o o)
  BY <1>1, Regroup
<1>3. a \o b \in Seq(S)
  OBVIOUS
<1>c. PICK c \in Seq(S) : c = a \o b
  BY <1>3
<1>4. Append(c, x) = c \o o
  BY <1>o
<1> QED BY <1>1, <1>2, <1>4, <1>c

\* The worker thread's steps.
LEMMA SignalingReadyFlows ==
    ASSUME NEW p, NEW s \in Mid(p), s.wq # <<>>, Head(s.wq).id = "ONSIGNALINGREADY",
           NEW r, r = OnSignalingReady_w([s EXCEPT !.wq = Tail(@)])
    PROVE  Flows(r, s)
<1>q. PICK q \in Seq(WorkMsgs) : q = s.wq
  BY MidFields
<1>k. PICK k : k = Tail(q)
  OBVIOUS
<1>m. PICK m : m = Head(q)
  OBVIOUS
<1>1. k \in Seq(WorkMsgs) /\ m \in WorkMsgs /\ Queued(q) = CandOf(m) \o Queued(k)
  BY <1>k, <1>m, <1>q, QueuedTail
<1>2. CandOf(m) = <<>>
  BY <1>1, <1>m, <1>q DEF CandOf, WorkMsgs, ReadyMsg, CandidateMsg
<1>c. PICK c \in Seq(Candidates) : c = Queued(k)
  BY <1>1, QueuedIs
<1>3. <<>> \o c = c
  OBVIOUS
<1>4. Queued(q) = Queued(k)
  BY <1>1, <1>2, <1>3, <1>c
<1>5. /\ r.wq = k /\ r.remote = s.remote /\ r.unsent = s.unsent /\ r.ready = s.ready
      /\ r.out = s.out /\ r.made = s.made /\ r.got = s.got
  <2>t. PICK t : t = [s EXCEPT !.wq = k]
    OBVIOUS
  <2>1. r = t \/ r = [t EXCEPT !.waiting = FALSE, !.session = TRUE]
    BY <1>k, <1>q, <2>t DEF OnSignalingReady_w
  <2> QED BY <2>1, <2>t DEF Mid
<1> QED BY <1>4, <1>5, <1>q DEF Flows, Sends, Took, Gives, Rest

LEMMA RemoteCandidateFlows ==
    ASSUME NEW p, NEW s \in Mid(p), s.wq # <<>>, Head(s.wq).id = "ONREMOTECANDIDATE",
           NEW r, r = OnRemoteCandidate_w([s EXCEPT !.wq = Tail(@)], Head(s.wq).cand)
    PROVE  Flows(r, s)
<1>q. PICK q \in Seq(WorkMsgs) : q = s.wq
  BY MidFields
<1>k. PICK k : k = Tail(q)
  OBVIOUS
<1>m. PICK m : m = Head(q)
  OBVIOUS
<1>1. k \in Seq(WorkMsgs) /\ m \in WorkMsgs /\ Queued(q) = CandOf(m) \o Queued(k)
  BY <1>k, <1>m, <1>q, QueuedTail
<1>x. PICK x \in Candidates : m = CandidateMsg(x)
  <2>1. m # ReadyMsg
    BY <1>m, <1>q DEF ReadyMsg
  <2> QED BY <1>1, <2>1 DEF WorkMsgs
<1>o. PICK o : o = <<x>>
  OBVIOUS
<1>2. o \in Seq(Candidates)
  BY <1>o
<1>3. CandOf(m) = o
  <2>1. CandOf(m) \in Seq(Candidates) /\ m.cand = x
    BY <1>1, <1>x, CandOfType DEF CandidateMsg
  <2>3. x # <<>>
    <3>1. PICK n \in Procs : x \in {n} \X (1 .. MaxCand[n])
      BY DEF Candidates
    <3>2. x = <<x[1], x[2]>>
      BY <3>1
    <3>y. PICK y, z : x = <<y, z>>
      BY <3>2
    <3>3. <<y, z>> # <<>>
      <4>1. DOMAIN <<y, z>> = 1 .. 2 /\ DOMAIN <<>> = {}
        OBVIOUS
      <4> QED BY <4>1
    <3> QED BY <3>y, <3>3
  <2> QED BY <1>o, <2>1, <2>3 DEF CandOf
<1>c. PICK c \in Seq(Candidates) : c = Queued(k)
  BY <1>1, QueuedIs
<1>d. PICK d \in Seq(Candidates) : d = s.remote
  BY MidFields
<1>4. Append(d, x) = d \o o
  BY <1>o
<1>5. (d \o o) \o c = d \o (o \o c)
  BY SMTT(40), <1>2, Regroup
<1>6. /\ r.wq = k /\ r.remote = Append(d, x) /\ r.unsent = s.unsent /\ r.ready = s.ready
      /\ r.out = s.out /\ r.made = s.made /\ r.got = s.got
  <2>t. PICK t : t = [s EXCEPT !.wq = k]
    OBVIOUS
  <2>1. m.cand = x
    BY <1>x DEF CandidateMsg
  <2>2. r = [t EXCEPT !.remote = Append(@, x)]
    BY <1>k, <1>m, <1>q, <2>1, <2>t DEF OnRemoteCandidate_w
  <2> QED BY <1>d, <2>2, <2>t DEF Mid
<1>7. Took(r) = Took(s)
  BY <1>1, <1>3, <1>4, <1>5, <1>6, <1>c, <1>d, <1>q DEF Took
<1> QED BY <1>6, <1>7 DEF Flows, Sends, Gives, Rest

LEMMA AllocateUntouched ==
    ASSUME NEW p, NEW s \in Mid(p), NEW r, r = [Allocate(s) EXCEPT !.allocs = @ + 1]
    PROVE  Flows(r, s)
<1>t. PICK t : t = Allocate(s)
  OBVIOUS
<1>1. DOMAIN t = DOMAIN s /\ Untouched(t, s)
  BY <1>t DEF Allocate, Mid, Untouched
<1>2. r = [t EXCEPT !.allocs = @ + 1]
  BY <1>t
<1>3. Untouched(r, t)
  BY ZenonT(60), <1>1, <1>2 DEF Mid, Untouched
<1> QED BY <1>1, <1>3, UntouchedFlows, FlowsTrans

LEMMA FlipFlows ==
    ASSUME NEW p, NEW s \in Mid(p),
           NEW r, r = [(IF s.writable THEN BecomeUnwritable(s) ELSE BecomeWritable(s))
                          EXCEPT !.flips = @ + 1]
    PROVE  Flows(r, s)
<1>t. PICK t : t = IF s.writable THEN BecomeUnwritable(s) ELSE BecomeWritable(s)
  OBVIOUS
<1>1. DOMAIN t = DOMAIN s /\ Untouched(t, s)
  <2>1. CASE s.writable
    <3>a. PICK a : a = Allocate(s)
      OBVIOUS
    <3>1. DOMAIN a = DOMAIN s /\ Untouched(a, s)
      BY <3>a DEF Allocate, Mid, Untouched
    <3>2. t = [a EXCEPT !.writable = FALSE, !.sigq = Append(@, "WRITESTATE")]
      BY <1>t, <2>1, <3>a DEF BecomeUnwritable
    <3>3. DOMAIN t = DOMAIN a /\ Untouched(t, a)
      BY <3>1, <3>2 DEF Mid, Untouched
    <3> QED BY <3>1, <3>3 DEF Untouched
  <2>2. CASE ~s.writable
    <3>1. t = [s EXCEPT !.writable = TRUE, !.sigq = Append(@, "WRITESTATE")]
      BY <1>t, <2>2 DEF BecomeWritable
    <3> QED BY <3>1 DEF Mid, Untouched
  <2> QED BY <2>1, <2>2
<1>2. r = [t EXCEPT !.flips = @ + 1]
  BY <1>t
<1>4. DOMAIN t = Fields
  BY <1>1, MidDomain
<1>3. Untouched(r, t)
  BY <1>2, <1>4 DEF Fields, Untouched
<1> QED BY <1>1, <1>3, UntouchedFlows, FlowsTrans

\* From s to r the gathered candidate x is put behind all that wait.
Gains(r, s, x) ==
    /\ x \in Candidates
    /\ r.got = s.got
    /\ Took(r) = Took(s)
    /\ Gives(r) = Append(Gives(s), x)
    /\ r.made = s.made + 1
    /\ r.out = s.out

LEMMA GatherGives ==
    ASSUME NEW p \in Procs, NEW s \in Mid(p), s.made < MaxCand[p],
           NEW x, x = <<p, s.made + 1>>,
           NEW r, r = [OnChannelCandidateReady(s, x) EXCEPT !.made = @ + 1]
    PROVE  Gains(r, s, x)
<1>0. s.made \in Nat /\ MaxCand[p] \in Nat
  BY ProberAssumption, MidFields
<1>1. x \in Candidates
  BY <1>0 DEF Candidates
<1>y. PICK y \in Seq(Candidates) : y = s.ready
  BY MidFields
<1>u. PICK u \in Seq(Candidates) : u = s.unsent
  BY MidFields
<1>b. PICK b \in Seq(Candidates) : b = Bodies(s.out)
  BY MidFields
<1>t. PICK t : t = OnChannelCandidateReady(s, x)
  OBVIOUS
<1>2. /\ DOMAIN t = DOMAIN s
      /\ t.remote = s.remote /\ t.wq = s.wq /\ t.unsent = s.unsent /\ t.ready = Append(y, x)
      /\ t.out = s.out /\ t.made = s.made /\ t.got = s.got
  BY <1>t, <1>y DEF OnChannelCandidateReady, Mid
<1>3. r = [t EXCEPT !.made = @ + 1]
  BY <1>t
<1>4. /\ r.remote = s.remote /\ r.wq = s.wq /\ r.unsent = s.unsent /\ r.ready = Append(y, x)
      /\ r.out = s.out /\ r.made = s.made + 1 /\ r.got = s.got
  <2>1. DOMAIN t = Fields
    BY <1>2, MidDomain
  <2> QED BY ZenonT(60), <1>2, <1>3, <2>1 DEF Fields
<1>5. u \o Append(y, x) = Append(u \o y, x)
  BY <1>1, AppendJoin
<1>w. u \o y \in Seq(Candidates)
  OBVIOUS
<1>v. PICK v \in Seq(Candidates) : v = u \o y
  BY <1>w
<1>6. b \o Append(v, x) = Append(b \o v, x)
  BY SMTT(40), <1>1, AppendJoin
<1>7. Gives(r) = Append(Gives(s), x)
  BY <1>4, <1>5, <1>6, <1>b, <1>u, <1>v, <1>y DEF Gives, Rest
<1> QED BY <1>1, <1>4, <1>7 DEF Took, Gains

-----------------------------------------------------------------------------
(* What one step does with the candidates.                                 *)

\* The first n candidates of p.
Gathered(p, n) == [k \in 1 .. n |-> <<p, k>>]

LEMMA GatheredType ==
    ASSUME NEW p \in Procs, NEW n \in 0 .. MaxCand[p]
    PROVE  Gathered(p, n) \in Seq(Candidates)
<1>0. MaxCand[p] \in Nat
  BY ProberAssumption
<1>1. \A k \in 1 .. n : <<p, k>> \in Candidates
  BY <1>0 DEF Candidates
<1> QED BY <1>0, <1>1 DEF Gathered

LEMMA GatheredMore ==
    ASSUME NEW p \in Procs, NEW n \in 0 .. MaxCand[p], n < MaxCand[p], NEW x, x = <<p, n + 1>>
    PROVE  Gathered(p, n + 1) = Append(Gathered(p, n), x)
<1>0. MaxCand[p] \in Nat /\ n + 1 \in 0 .. MaxCand[p] /\ n \in Nat
  BY ProberAssumption
<1>g. PICK g \in Seq(Candidates) : g = Gathered(p, n)
  BY GatheredType
<1>h. PICK h \in Seq(Candidates) : h = Gathered(p, n + 1)
  BY <1>0, GatheredType
<1>1. Len(g) = n /\ \A k \in 1 .. n : g[k] = <<p, k>>
  BY <1>0, <1>g DEF Gathered
<1>2. Len(h) = n + 1 /\ \A k \in 1 .. (n + 1) : h[k] = <<p, k>>
  BY <1>0, <1>h DEF Gathered
<1>3. x \in Candidates
  BY <1>0 DEF Candidates
<1>a. PICK a : a = Append(g, x)
  OBVIOUS
<1>4. a \in Seq(Candidates) /\ Len(a) = n + 1 /\ \A k \in 1 .. n : a[k] = g[k]
  BY <1>0, <1>1, <1>3, <1>a
<1>5. a[n + 1] = x
  <2>1. Append(g, x)[Len(g) + 1] = x
    BY <1>3
  <2>2. a[Len(g) + 1] = x
    BY Zenon, <1>a, <2>1
  <2>3. Len(g) = n
    BY <1>1
  <2> QED BY Zenon, <2>2, <2>3
<1>6. ASSUME NEW k \in 1 .. (n + 1) PROVE a[k] = h[k]
  <2>0. h[k] = <<p, k>>
    BY <1>2
  <2>1. CASE k = n + 1
    <3>1. a[k] = x
      BY <1>5, <2>1
    <3> QED BY <2>0, <2>1, <3>1
  <2>2. CASE k # n + 1
    <3>1. k \in 1 .. n
      BY <1>0, <2>2
    <3>2. a[k] = g[k] /\ g[k] = <<p, k>>
      BY <1>1, <1>4, <3>1
    <3> QED BY <2>0, <3>2
  <2> QED BY <2>1, <2>2
<1>7. a = h
  BY <1>2, <1>4, <1>6
<1> QED BY <1>7, <1>a, <1>g, <1>h

\* From s to r the candidates c of the partner come, and p gathers n.
Passes(p, s, r, c) ==
    \E n \in Seq(Candidates) :
        /\ Hands(r, s, c)
        /\ Gives(r) = Gives(s) \o n
        /\ Gathered(p, r.made) = Gathered(p, s.made) \o n
        /\ s.out \in Seq(Tidy) => r.out \in Seq(Tidy)

LEMMA InitFields ==
    ASSUME NEW s, s = ProberInit
    PROVE  /\ s.out = <<>> /\ s.remote = <<>> /\ s.wq = <<>> /\ s.unsent = <<>> /\ s.ready = <<>>
           /\ s.made = 0 /\ s.dead = "no" /\ s.main = "off" /\ s.sock = "none"
           /\ s.got = <<>>
BY DEF ProberInit

LEMMA ProcessFields ==
    ASSUME NEW p \in Procs, NEW s, Process(p, s)
    PROVE  /\ s.out = <<>> /\ s.made \in 0 .. MaxCand[p]
           /\ Came(s) \in Seq(Candidates) /\ Rest(s) \in Seq(Candidates)
           /\ Bodies(s.out) = <<>> /\ Gives(s) = Rest(s) /\ Gives(s) \in Seq(Candidates)
           /\ Gathered(p, s.made) \in Seq(Candidates)
<1>0. MaxCand[p] \in Nat
  BY ProberAssumption
<1>1. /\ s.out = <<>> /\ s.made \in 0 .. MaxCand[p]
      /\ Came(s) \in Seq(Candidates) /\ Rest(s) \in Seq(Candidates)
  <2>1. CASE s = ProberInit
    <3>1. /\ s.out = <<>> /\ s.got = <<>> /\ s.unsent = <<>> /\ s.ready = <<>>
          /\ s.made = 0
      BY <2>1, InitFields
    <3>e. PICK e : e = <<>>
      OBVIOUS
    <3>2. e \in Seq(Candidates) /\ e \o e = e
      BY <3>e
    <3>3. Came(s) = e /\ Rest(s) = e
      BY <3>1, <3>2, <3>e, ConcatNone DEF Came, Rest
    <3> QED BY <1>0, <3>1, <3>2, <3>3
  <2>2. CASE Keeps(p, s, "none") /\ s.out = <<>>
    <3>1. s \in Mid(p)
      BY <2>2 DEF Keeps
    <3>2. s.made \in 0 .. MaxCand[p]
      BY <3>1 DEF Mid
    <3> QED BY <2>2, <3>1, <3>2, MidFields
  <2> QED BY <2>1, <2>2 DEF Process
<1>2. Bodies(s.out) = <<>>
  BY <1>1, BodiesNone
<1>c. PICK c \in Seq(Candidates) : c = Rest(s)
  BY <1>1
<1>3. <<>> \o c = c
  OBVIOUS
<1>4. Gives(s) = Rest(s)
  BY <1>2, <1>3, <1>c DEF Gives
<1> QED BY <1>1, <1>2, <1>4, GatheredType

LEMMA FlowsPass ==
    ASSUME NEW p \in Procs, NEW s, Process(p, s), NEW r, Flows(r, s)
    PROVE  Passes(p, s, r, <<>>)
<1>1. Came(s) \in Seq(Candidates) /\ Gives(s) \in Seq(Candidates)
      /\ Gathered(p, s.made) \in Seq(Candidates)
  BY ProcessFields
<1>n. PICK n : n = <<>>
  OBVIOUS
<1>2. n \in Seq(Candidates) /\ \A x \in Seq(Candidates) : x \o n = x
  BY <1>n
<1>3. Hands(r, s, <<>>) /\ Gives(r) = Gives(s) /\ r.made = s.made
      /\ (s.out \in Seq(Tidy) => r.out \in Seq(Tidy))
  BY <1>1, FlowsHand DEF Flows, Sends
<1>4. /\ Hands(r, s, n)
      /\ Gives(r) = Gives(s) \o n
      /\ Gathered(p, r.made) = Gathered(p, s.made) \o n
  BY <1>1, <1>2, <1>3, <1>n
<1> QED BY <1>2, <1>3, <1>4, <1>n DEF Passes

\* A step of p that reads no word.
PassesOn(p) ==
    \E r : Become(p, r) /\ (r.dead = "no" => r \in Mid(p) /\ Passes(p, pr[p], r, <<>>))

LEMMA GivesBy ==
    ASSUME ProberInv, NEW p \in Procs, NEW r, Become(p, r),
           r.dead = "no" => r \in Mid(p) /\ Flows(r, pr[p])
    PROVE  PassesOn(p)
<1>1. Process(p, pr[p])
  BY DEF ProberInv
<1> QED BY <1>1, FlowsPass DEF PassesOn

LEMMA TakesFlows ==
    ASSUME ProberInv, NEW p \in Procs, Alive(p), NEW s, s = Takes(p)
    PROVE  Flows(s, pr[p])
<1>1. pr[p] \in Mid(p)
  BY AliveLocal
<1>2. Untouched(s, pr[p])
  BY <1>1 DEF Takes, Mid, Untouched
<1> QED BY <1>2, UntouchedFlows

LEMMA ExitDead == ASSUME NEW p, NEW s \in Mid(p), NEW d, NEW r, r = Exits(s, d) PROVE r.dead = d
BY DEF Exits, Mid

LEMMA StartGives ==
    ASSUME ProberInv, NEW p \in Procs, onStart_w(p) PROVE PassesOn(p)
<1>s. PICK s : s = Takes(p)
  OBVIOUS
<1>0. Alive(p) /\ pr[p].sigq # <<>> /\ Head(pr[p].sigq) = "START"
  BY DEF onStart_w, Dispatch
<1>1. s \in Mid(p) /\ Flows(s, pr[p])
  BY <1>0, <1>s, TakesIs, TakesFlows
<1>2. Become(p, [s EXCEPT !.sock = "connecting"]) \/ Become(p, Exits(s, "noserver"))
  BY <1>s DEF onStart_w, Dispatch, Takes
<1>3. CASE Become(p, [s EXCEPT !.sock = "connecting"])
  <2>r. PICK r : r = [s EXCEPT !.sock = "connecting"]
    OBVIOUS
  <2>1. r \in Mid(p)
    BY <1>1, <2>r DEF Mid
  <2>2. Untouched(r, s)
    BY <1>1, <2>r DEF Mid, Untouched
  <2>3. Flows(r, pr[p])
    BY <1>1, <2>2, UntouchedFlows, FlowsTrans
  <2> QED BY <1>3, <2>r, <2>1, <2>3, GivesBy
<1>4. CASE Become(p, Exits(s, "noserver"))
  <2>r. PICK r : r = Exits(s, "noserver")
    OBVIOUS
  <2>1. r.dead # "no"
    BY <1>1, <2>r, ExitDead
  <2> QED BY <1>4, <2>r, <2>1, GivesBy
<1> QED BY <1>2, <1>3, <1>4

LEMMA CreateGives ==
    ASSUME ProberInv, NEW p \in Procs, createSession_s(p) PROVE PassesOn(p)
<1>s. PICK s : s = Takes(p)
  OBVIOUS
<1>0. Alive(p) /\ pr[p].sigq # <<>> /\ Head(pr[p].sigq) = "CREATE_SESSION"
  BY DEF createSession_s, Dispatch
<1>1. s \in Mid(p) /\ Flows(s, pr[p])
  BY <1>0, <1>s, TakesIs, TakesFlows
<1>r. PICK r : r = [s EXCEPT !.state = "INIT"]
  OBVIOUS
<1>2. Become(p, r)
  BY <1>s, <1>r DEF createSession_s, Dispatch, Takes
<1>3. "INIT" \in States
  BY DEF States
<1>4. r \in Mid(p)
  BY <1>1, <1>3, <1>r DEF Mid
<1>5. Untouched(r, s)
  BY <1>1, <1>r DEF Mid, Untouched
<1>6. Flows(r, pr[p])
  BY <1>1, <1>5, UntouchedFlows, FlowsTrans
<1> QED BY <1>2, <1>4, <1>6, GivesBy

LEMMA TargetFlows ==
    ASSUME NEW p, NEW s \in Mid(p), NEW r, r = setupTarget(s)
    PROVE  Flows(r, s)
<1>1. Untouched(r, s)
  BY DEF setupTarget, Mid, Untouched
<1> QED BY <1>1, UntouchedFlows

LEMMA DoInitiateGives ==
    ASSUME ProberInv, NEW p \in Procs, doInitiate_s(p) PROVE PassesOn(p)
<1>s. PICK s : s = Takes(p)
  OBVIOUS
<1>0. Alive(p) /\ pr[p].sigq # <<>> /\ Head(pr[p].sigq) = "DO_INITIATE"
  BY DEF doInitiate_s, Dispatch
<1>1. Local(p, s, "DO_INITIATE") /\ s \in Mid(p) /\ Flows(s, pr[p])
  BY <1>0, <1>s, TakesIs, TakesFlows
<1>2. Become(p, IF s.state = "NULL" THEN Exits(s, "nullsession") ELSE setupTarget(Initiate(s)))
  BY <1>s DEF doInitiate_s, Dispatch, Takes
<1>3. CASE s.state = "NULL"
  <2>r. PICK r : r = Exits(s, "nullsession")
    OBVIOUS
  <2>1. r.dead # "no"
    BY <1>1, <2>r, ExitDead
  <2> QED BY <1>2, <1>3, <2>r, <2>1, GivesBy
<1>4. CASE s.state # "NULL"
  <2>i. PICK i : i = Initiate(s)
    OBVIOUS
  <2>1. Keeps(p, i, "DO_INITIATE") /\ Flows(i, s)
    BY <1>1, <2>i, InitiateKeeps, InitiateFlows
  <2>r. PICK r : r = setupTarget(i)
    OBVIOUS
  <2>2. r \in Mid(p)
    BY <2>1, <2>r, TargetKeeps DEF Keeps
  <2>3. Flows(r, i)
    BY <2>1, <2>r, TargetFlows DEF Keeps
  <2>4. Flows(r, pr[p])
    BY <1>1, <2>1, <2>3, FlowsTrans
  <2>5. Become(p, r)
    BY <1>2, <1>4, <2>i, <2>r
  <2> QED BY <2>2, <2>4, <2>5, GivesBy
<1> QED BY <1>3, <1>4

LEMMA DoAcceptGives ==
    ASSUME ProberInv, NEW p \in Procs, doAccept_s(p) PROVE PassesOn(p)
<1>s. PICK s : s = Takes(p)
  OBVIOUS
<1>0. Alive(p) /\ pr[p].sigq # <<>> /\ Head(pr[p].sigq) = "DO_ACCEPT"
  BY DEF doAccept_s, Dispatch
<1>1. Local(p, s, "DO_ACCEPT") /\ s \in Mid(p) /\ Flows(s, pr[p])
  BY <1>0, <1>s, TakesIs, TakesFlows
<1>i. PICK i : i = Accept(s)
  OBVIOUS
<1>r. PICK r : r = setupTarget(i)
  OBVIOUS
<1>2. Become(p, r)
  BY <1>s, <1>i, <1>r DEF doAccept_s, Dispatch, Takes
<1>3. Keeps(p, i, "DO_ACCEPT") /\ Flows(i, s)
  BY <1>1, <1>i, AcceptKeeps, AcceptFlows
<1>4. r \in Mid(p)
  BY <1>3, <1>r, TargetKeeps DEF Keeps
<1>5. Flows(r, i)
  BY <1>3, <1>r, TargetFlows DEF Keeps
<1>6. Flows(r, pr[p])
  BY <1>1, <1>3, <1>5, FlowsTrans
<1> QED BY <1>2, <1>4, <1>6, GivesBy

LEMMA StateMsgGives ==
    ASSUME ProberInv, NEW p \in Procs, StateMsg(p) PROVE PassesOn(p)
<1>s. PICK s : s = Takes(p)
  OBVIOUS
<1>0. Alive(p) /\ pr[p].sigq # <<>> /\ Head(pr[p].sigq) = "STATE"
  BY DEF StateMsg, Dispatch
<1>1. Local(p, s, "STATE") /\ s \in Mid(p) /\ Flows(s, pr[p])
  BY <1>0, <1>s, TakesIs, TakesFlows
<1>r. PICK r : r = OnState(s)
  OBVIOUS
<1>2. Become(p, r)
  BY <1>s, <1>r DEF StateMsg, Dispatch, Takes
<1>3. Keeps(p, r, "STATE") /\ Flows(r, s)
  BY <1>1, <1>r, OnStateKeeps, OnStateFlows
<1>4. r \in Mid(p) /\ Flows(r, pr[p])
  BY <1>1, <1>3, FlowsTrans DEF Keeps
<1> QED BY <1>2, <1>4, GivesBy

LEMMA CandidateMsgGives ==
    ASSUME ProberInv, NEW p \in Procs, CandidateReadyMsg(p) PROVE PassesOn(p)
<1>s. PICK s : s = Takes(p)
  OBVIOUS
<1>0. Alive(p) /\ pr[p].sigq # <<>> /\ Head(pr[p].sigq) = "CANDIDATEREADY"
  BY DEF CandidateReadyMsg, Dispatch
<1>1. Local(p, s, "CANDIDATEREADY") /\ s \in Mid(p) /\ Flows(s, pr[p])
  BY <1>0, <1>s, TakesIs, TakesFlows
<1>r. PICK r : r = OnCandidatesReady(s)
  OBVIOUS
<1>2. Become(p, r)
  BY <1>s, <1>r DEF CandidateReadyMsg, Dispatch, Takes
<1>3. Keeps(p, r, "none") /\ Flows(r, s)
  BY <1>1, <1>r, OnCandidatesReadyKeeps, OnCandidatesReadyFlows
<1>4. r \in Mid(p) /\ Flows(r, pr[p])
  BY <1>1, <1>3, FlowsTrans DEF Keeps
<1> QED BY <1>2, <1>4, GivesBy

LEMMA ConnectingMsgGives ==
    ASSUME ProberInv, NEW p \in Procs, ConnectingMsg(p) PROVE PassesOn(p)
<1>s. PICK s : s = Takes(p)
  OBVIOUS
<1>0. Alive(p) /\ pr[p].sigq # <<>> /\ Head(pr[p].sigq) = "CONNECTING"
  BY DEF ConnectingMsg, Dispatch
<1>1. Local(p, s, "CONNECTING") /\ s \in Mid(p) /\ Flows(s, pr[p])
  BY <1>0, <1>s, TakesIs, TakesFlows
<1>r. PICK r : r = OnTransportWritable(s)
  OBVIOUS
<1>2. Become(p, r)
  BY <1>s, <1>r DEF ConnectingMsg, Dispatch, Takes
<1>3. Keeps(p, r, "none") /\ Flows(r, s)
  BY <1>1, <1>r, OnTransportWritableKeeps, ArmFlows
<1>4. r \in Mid(p) /\ Flows(r, pr[p])
  BY <1>1, <1>3, FlowsTrans DEF Keeps
<1> QED BY <1>2, <1>4, GivesBy

LEMMA WriteStateMsgGives ==
    ASSUME ProberInv, NEW p \in Procs, WriteStateMsg(p) PROVE PassesOn(p)
<1>s. PICK s : s = Takes(p)
  OBVIOUS
<1>0. Alive(p) /\ pr[p].sigq # <<>> /\ Head(pr[p].sigq) = "WRITESTATE"
  BY DEF WriteStateMsg, Dispatch
<1>1. Local(p, s, "WRITESTATE") /\ s \in Mid(p) /\ Flows(s, pr[p])
  BY <1>0, <1>s, TakesIs, TakesFlows
<1>r. PICK r : r = OnChannelWritableState_s(s)
  OBVIOUS
<1>2. Become(p, r)
  BY <1>s, <1>r DEF WriteStateMsg, Dispatch, Takes
<1>3. Keeps(p, r, "none") /\ Flows(r, s)
  BY <1>1, <1>r, OnWritableStateKeeps, OnWritableStateFlows
<1>4. r \in Mid(p) /\ Flows(r, pr[p])
  BY <1>1, <1>3, FlowsTrans DEF Keeps
<1> QED BY <1>2, <1>4, GivesBy

LEMMA RequestMsgGives ==
    ASSUME ProberInv, NEW p \in Procs, RequestSignalingMsg(p) PROVE PassesOn(p)
<1>s. PICK s : s = Takes(p)
  OBVIOUS
<1>0. Alive(p) /\ pr[p].sigq # <<>> /\ Head(pr[p].sigq) = "REQUESTSIGNALING"
  BY DEF RequestSignalingMsg, Dispatch
<1>1. Local(p, s, "REQUESTSIGNALING") /\ s \in Mid(p) /\ Flows(s, pr[p])
  BY <1>0, <1>s, TakesIs, TakesFlows
<1>r. PICK r : r = OnSignalingReady(s)
  OBVIOUS
<1>2. Become(p, r)
  BY <1>s, <1>r DEF RequestSignalingMsg, Dispatch, Takes
<1>3. Keeps(p, r, "none") /\ Flows(r, s)
  BY <1>1, <1>r, OnSignalingReadyKeeps, OnSignalingReadyFlows
<1>4. r \in Mid(p) /\ Flows(r, pr[p])
  BY <1>1, <1>3, FlowsTrans DEF Keeps
<1> QED BY <1>2, <1>4, GivesBy

LEMMA SessionTimeoutGives ==
    ASSUME ProberInv, NEW p \in Procs, onSessionTimeout(p) PROVE PassesOn(p)
<1>s. PICK s : s = Takes(p)
  OBVIOUS
<1>0. Alive(p) /\ pr[p].sigq # <<>> /\ Head(pr[p].sigq) = "TIMEOUT"
  BY DEF onSessionTimeout, Dispatch
<1>1. s \in Mid(p)
  BY <1>0, <1>s, TakesIs
<1>r. PICK r : r = Exits(s, "timeout")
  OBVIOUS
<1>2. Become(p, r)
  BY <1>s, <1>r DEF onSessionTimeout, Dispatch, Takes
<1>3. r.dead # "no"
  BY <1>1, <1>r, ExitDead
<1> QED BY <1>2, <1>3, GivesBy

LEMMA TimeoutDueGives ==
    ASSUME ProberInv, NEW p \in Procs, TimeoutDue(p) PROVE PassesOn(p)
<1>z. PICK z : z = pr[p]
  OBVIOUS
<1>1. Local(p, z, "none") /\ z \in Mid(p)
  BY <1>z, AliveLocal DEF TimeoutDue
<1>r. PICK r : r = [z EXCEPT !.timer = FALSE, !.sigq = Append(@, "TIMEOUT")]
  OBVIOUS
<1>2. Become(p, r) /\ z.timer
  BY <1>z, <1>r DEF TimeoutDue
<1>3. r \in Mid(p)
  BY <1>1, <1>2, <1>r, TimeoutKeeps DEF Keeps
<1>4. Untouched(r, z)
  BY <1>1, <1>r DEF Mid, Untouched
<1>5. Flows(r, pr[p])
  BY <1>4, <1>z, UntouchedFlows
<1> QED BY <1>2, <1>3, <1>5, GivesBy

LEMMA PostCreateGives ==
    ASSUME ProberInv, NEW p \in Procs, PostCreateSession(p) PROVE PassesOn(p)
<1>z. PICK z : z = pr[p]
  OBVIOUS
<1>1. z \in Mid(p) /\ z.sigq \in Seq(SignalIds)
  BY <1>z, AliveLocal DEF PostCreateSession, Mid
<1>i. "CREATE_SESSION" \in SignalIds
  BY DEF SignalIds
<1>k. PICK k \in Seq(SignalIds) : k = Append(z.sigq, "CREATE_SESSION")
  BY <1>1, <1>i, SignalQueue
<1>r. PICK r : r = [z EXCEPT !.main = "on", !.sigq = k]
  OBVIOUS
<1>2. Become(p, r)
  <2>1. [z EXCEPT !.main = "on", !.sigq = Append(@, "CREATE_SESSION")] = r
    BY <1>k, <1>r
  <2> QED BY <2>1, <1>z DEF PostCreateSession
<1>3. r \in Mid(p)
  BY ZenonT(60), <1>1, <1>r DEF Mid
<1>4. Untouched(r, z)
  BY <1>1, <1>r DEF Mid, Untouched
<1>5. Flows(r, pr[p])
  BY <1>4, <1>z, UntouchedFlows
<1> QED BY <1>2, <1>3, <1>5, GivesBy

LEMMA LoginGives ==
    ASSUME ProberInv, NEW p \in Procs, Login(p) PROVE PassesOn(p)
<1>0. pr[p].main = "off" /\ Process(p, pr[p])
  BY DEF Login, ProberInv
<1>1. pr[p] = ProberInit
  <2>1. pr[p] \in Mid(p) => pr[p].main # "off"
    BY DEF Mid
  <2> QED BY <1>0, <2>1 DEF Process, Keeps
<1>s. PICK s : s = [main |-> "login", sock |-> "none", dead |-> "no", io |-> FALSE,
     remoteOnline |-> FALSE, targets |-> 0,
     state |-> "NULL", pending |-> FALSE, timer |-> FALSE, out |-> <<>>,
     proxy |-> "INIT", connectReq |-> FALSE, ready |-> <<>>, unsent |-> <<>>,
     twritable |-> FALSE, writable |-> FALSE, waiting |-> FALSE,
     session |-> FALSE, remote |-> <<>>, got |-> <<>>,
     made |-> 0, allocs |-> 0, flips |-> 0,
     sigq |-> <<"START">>, wq |-> <<>>]
  OBVIOUS
<1>2. Become(p, s)
  <2>u. PICK u : u = [ProberInit EXCEPT !.main = "login", !.sigq = <<"START">>]
    OBVIOUS
  <2>2. u = [main |-> "login", sock |-> "none", dead |-> "no", io |-> FALSE,
     remoteOnline |-> FALSE, targets |-> 0,
     state |-> "NULL", pending |-> FALSE, timer |-> FALSE, out |-> <<>>,
     proxy |-> "INIT", connectReq |-> FALSE, ready |-> <<>>, unsent |-> <<>>,
     twritable |-> FALSE, writable |-> FALSE, waiting |-> FALSE,
     session |-> FALSE, remote |-> <<>>, got |-> <<>>,
     made |-> 0, allocs |-> 0, flips |-> 0,
     sigq |-> <<"START">>, wq |-> <<>>]
    BY <2>u DEF ProberInit
  <2>1. s = [ProberInit EXCEPT !.main = "login", !.sigq = <<"START">>]
    BY <1>s, <2>u, <2>2
  <2> QED BY <1>1, <2>1 DEF Login
<1>3. /\ 0 \in 0 .. MaxCand[p] /\ 0 \in 0 .. MaxAlloc[p] /\ 0 \in 0 .. MaxFlips[p]
      /\ <<>> \in Seq(Candidates) /\ <<>> \in Seq(Seq(Candidates)) /\ <<>> \in Seq(Msgs) /\ <<>> \in Seq(WorkMsgs)
  BY ProberAssumption
<1>4. <<"START">> \in Seq(SignalIds) /\ "NULL" \in States /\ "no" \in Reasons
  <2>1. "START" \in SignalIds
    BY DEF SignalIds
  <2> QED BY <2>1 DEF States, Reasons
<1>5. s \in Mid(p)
  BY <1>s, <1>3, <1>4 DEF Mid
<1>z. PICK z : z = pr[p]
  OBVIOUS
<1>6. /\ z.out = <<>> /\ z.remote = <<>> /\ z.wq = <<>> /\ z.unsent = <<>> /\ z.ready = <<>>
      /\ z.made = 0 /\ z.got = <<>>
  BY <1>1, <1>z, InitFields
<1>7. Untouched(s, z)
  BY <1>s, <1>6 DEF Untouched
<1>8. Flows(s, pr[p])
  BY <1>7, <1>z, UntouchedFlows
<1> QED BY <1>2, <1>5, <1>8, GivesBy

LEMMA WorkerGives ==
    ASSUME ProberInv, NEW p \in Procs, WorkerMsg(p) \/ Flip(p) \/ Reallocate(p)
    PROVE  PassesOn(p)
<1>s. PICK s : s = pr[p]
  OBVIOUS
<1>0. Alive(p)
  BY DEF WorkerMsg, SignalingReadyMsg, RemoteCandidateMsg, Works, Flip, Reallocate
<1>1. Local(p, s, "none") /\ s \in Mid(p)
  BY <1>0, <1>s, AliveLocal
<1>2. CASE SignalingReadyMsg(p)
  <2>r. PICK r : r = OnSignalingReady_w([s EXCEPT !.wq = Tail(@)])
    OBVIOUS
  <2>1. Become(p, r) /\ s.wq # <<>> /\ Head(s.wq).id = "ONSIGNALINGREADY"
    BY <1>2, <1>s, <2>r DEF SignalingReadyMsg, Works
  <2>2. Keeps(p, r, "none") /\ Flows(r, s)
    BY <1>1, <2>1, <2>r, SignalingReadyKeeps, SignalingReadyFlows
  <2> QED BY <1>s, <2>1, <2>2, GivesBy DEF Keeps
<1>3. CASE RemoteCandidateMsg(p)
  <2>r. PICK r : r = OnRemoteCandidate_w([s EXCEPT !.wq = Tail(@)], Head(s.wq).cand)
    OBVIOUS
  <2>1. Become(p, r) /\ s.wq # <<>> /\ Head(s.wq).id = "ONREMOTECANDIDATE"
    BY <1>3, <1>s, <2>r DEF RemoteCandidateMsg, Works
  <2>2. Keeps(p, r, "none") /\ Flows(r, s)
    BY <1>1, <2>1, <2>r, RemoteCandidateKeeps, RemoteCandidateFlows
  <2> QED BY <1>s, <2>1, <2>2, GivesBy DEF Keeps
<1>5. CASE Flip(p)
  <2>r. PICK r : r = [(IF s.writable THEN BecomeUnwritable(s) ELSE BecomeWritable(s))
                         EXCEPT !.flips = @ + 1]
    OBVIOUS
  <2>1. Become(p, r) /\ s.remote # <<>> /\ s.flips < MaxFlips[p]
    BY <1>5, <1>s, <2>r DEF Flip
  <2>2. Keeps(p, r, "none") /\ Flows(r, s)
    BY <1>1, <2>1, <2>r, FlipKeeps, FlipFlows
  <2> QED BY <1>s, <2>1, <2>2, GivesBy DEF Keeps
<1>6. CASE Reallocate(p)
  <2>r. PICK r : r = [Allocate(s) EXCEPT !.allocs = @ + 1]
    OBVIOUS
  <2>1. Become(p, r) /\ s.session /\ s.allocs < MaxAlloc[p]
    BY <1>6, <1>s, <2>r DEF Reallocate
  <2>2. Keeps(p, r, "none") /\ Flows(r, s)
    BY <1>1, <2>1, <2>r, ReallocateKeeps, AllocateUntouched
  <2> QED BY <1>s, <2>1, <2>2, GivesBy DEF Keeps
<1> QED BY <1>2, <1>3, <1>5, <1>6 DEF WorkerMsg

\* The next candidate joins those that wait.
LEMMA GatherStepGives ==
    ASSUME ProberInv, NEW p \in Procs, Gather(p) PROVE PassesOn(p)
<1>s. PICK s : s = pr[p]
  OBVIOUS
<1>0. Alive(p)
  BY DEF Gather
<1>1. Local(p, s, "none") /\ s \in Mid(p) /\ Process(p, s)
  BY <1>0, <1>s, AliveLocal DEF ProberInv
<1>r. PICK r : r = [OnChannelCandidateReady(s, <<p, s.made + 1>>) EXCEPT !.made = @ + 1]
  OBVIOUS
<1>2. Become(p, r) /\ s.session /\ s.made < MaxCand[p]
  BY <1>s, <1>r DEF Gather
<1>3. r \in Mid(p)
  BY <1>1, <1>2, <1>r, GatherKeeps DEF Keeps
<1>x. PICK x : x = <<p, s.made + 1>>
  OBVIOUS
<1>4. /\ x \in Candidates
      /\ r.got = s.got /\ Took(r) = Took(s)
      /\ Gives(r) = Append(Gives(s), x)
      /\ r.made = s.made + 1
      /\ r.out = s.out
  <2>1. r = [OnChannelCandidateReady(s, x) EXCEPT !.made = @ + 1]
    BY <1>r, <1>x
  <2>2. s.made < MaxCand[p] /\ s \in Mid(p)
    BY <1>1, <1>2
  <2>3. Gains(r, s, x)
    BY <2>1, <2>2, <1>x, GatherGives
  <2> QED BY <2>3 DEF Gains
<1>5. Came(s) \in Seq(Candidates) /\ Gives(s) \in Seq(Candidates) /\ s.made \in 0 .. MaxCand[p]
      /\ Gathered(p, s.made) \in Seq(Candidates)
  BY <1>1, ProcessFields
<1>6. Gathered(p, s.made + 1) = Append(Gathered(p, s.made), x)
  BY <1>2, <1>5, <1>x, GatheredMore
<1>n. PICK n : n = <<x>>
  OBVIOUS
<1>g. PICK g \in Seq(Candidates) : g = Gives(s)
  BY <1>5
<1>h. PICK h \in Seq(Candidates) : h = Gathered(p, s.made)
  BY <1>5
<1>k. PICK k \in Seq(Candidates) : k = Came(s)
  BY <1>5
<1>7. n \in Seq(Candidates) /\ Append(g, x) = g \o n /\ Append(h, x) = h \o n /\ k \o <<>> = k
  <2>1. n \in Seq(Candidates)
    BY <1>4, <1>n
  <2>2. \A y \in Seq(Candidates) : Append(y, x) = y \o <<x>>
    BY <1>4
  <2>3. k \o <<>> = k
    OBVIOUS
  <2> QED BY <1>n, <2>1, <2>2, <2>3
<1>8. Passes(p, s, r, <<>>)
  <2>1. Hands(r, s, <<>>) /\ Gives(r) = Gives(s) \o n
    <3>1. Came(r) = Came(s) /\ (Settled(s) => Settled(r))
      BY <1>4 DEF Came, Settled
    <3> QED BY <1>4, <1>7, <1>g, <1>k, <3>1 DEF Hands
  <2>2. Gathered(p, r.made) = Gathered(p, s.made) \o n
    BY <1>4, <1>6, <1>7, <1>h
  <2> QED BY <1>4, <1>7, <2>1, <2>2 DEF Passes
<1> QED BY <1>2, <1>3, <1>8, <1>s DEF PassesOn

-----------------------------------------------------------------------------
(* The candidates of one process between two steps.                        *)

TidyWords == {w \in Words : Carries(w) => w.body \in Tidy}

\* The candidates that p has gathered: some came to t, the partner, those
\* in the streams a and b are on their way, and s, the process, has the rest.
Kept(p, s, t, a, b) ==
    (Came(t) \o Carried(a)) \o (Carried(b) \o Rest(s)) = Gathered(p, s.made)

CandInv ==
    /\ \A p \in Procs : c2s[p] \in Seq(TidyWords) /\ s2c[p] \in Seq(TidyWords)
    /\ \A p, q \in Procs :
          Mates(p, q) => (up /\ pr[p].dead = "no" /\ pr[q].dead = "no"
                             => Kept(p, pr[p], pr[q], s2c[q], c2s[p]))
    /\ \A p \in Procs : pr[p].dead = "no" => Settled(pr[p])

LEMMA TidyStreams ==
    ASSUME NEW q \in Seq(TidyWords)
    PROVE  q \in Seq(Words) /\ Carried(q) \in Seq(Candidates)
<1>1. TidyWords \subseteq Words
  BY DEF TidyWords
<1>2. q \in Seq(Words)
  BY <1>1
<1> QED BY <1>2, CarriedIs

\* From s, with the streams b and a, to e with v and y.
Through(p, s, b, a, e, v, y) ==
    /\ Came(e) \o Carried(y) = Came(s) \o Carried(a)
    /\ Settled(s) => Settled(e)
    /\ \E n \in Seq(Candidates) :
          /\ Carried(v) \o Rest(e) = (Carried(b) \o Rest(s)) \o n
          /\ Gathered(p, e.made) = Gathered(p, s.made) \o n

\* A step of p alone.
LEMMA StepFlows ==
    ASSUME Agreed, CandInv, NEW p \in Procs, NEW e, NEW v \in Seq(TidyWords),
           NEW y \in Seq(TidyWords),
           pr' = [pr EXCEPT ![p] = e], c2s' = [c2s EXCEPT ![p] = v], s2c' = [s2c EXCEPT ![p] = y],
           up' = up,
           e.dead = "no" => pr[p].dead = "no" /\ Through(p, pr[p], c2s[p], s2c[p], e, v, y)
    PROVE  CandInv'
<1>0. ServerType /\ DOMAIN pr = Procs /\ OwnNames /\ \A q \in Procs : Process(q, pr[q])
  BY DEF Agreed, ProberInv
<1>1. /\ pr'[p] = e /\ c2s'[p] = v /\ s2c'[p] = y
      /\ \A q \in Procs : q # p => pr'[q] = pr[q] /\ c2s'[q] = c2s[q] /\ s2c'[q] = s2c[q]
  BY <1>0 DEF ServerType
<1>2. \A q \in Procs : c2s'[q] \in Seq(TidyWords) /\ s2c'[q] \in Seq(TidyWords)
  BY <1>1 DEF CandInv
<1>3. ASSUME NEW q \in Procs, NEW x \in Procs, Mates(q, x),
             up', pr'[q].dead = "no", pr'[x].dead = "no"
      PROVE  Kept(q, pr'[q], pr'[x], s2c'[x], c2s'[q])
  <2>0. q # x
    BY <1>0, <1>3, MatesDiffer
  <2>u. up
    BY <1>3
  <2>1. CASE q = p
    <3>1. e.dead = "no" /\ pr[x].dead = "no" /\ pr'[x] = pr[x] /\ s2c'[x] = s2c[x]
      BY <1>1, <1>3, <2>0, <2>1
    <3>s. PICK s : s = pr[p]
      OBVIOUS
    <3>2. s.dead = "no" /\ Through(p, s, c2s[p], s2c[p], e, v, y)
      BY <3>1, <3>s
    <3>3. Kept(p, s, pr[x], s2c[x], c2s[p])
      BY <1>3, <2>1, <2>u, <3>1, <3>2, <3>s DEF CandInv
    <3>n. PICK n \in Seq(Candidates) :
            /\ Carried(v) \o Rest(e) = (Carried(c2s[p]) \o Rest(s)) \o n
            /\ Gathered(p, e.made) = Gathered(p, s.made) \o n
      BY <3>2 DEF Through
    <3>4. Came(pr[x]) \in Seq(Candidates) /\ Rest(s) \in Seq(Candidates)
      BY <1>0, <3>s, ProcessFields
    <3>5. Carried(s2c[x]) \in Seq(Candidates) /\ Carried(c2s[p]) \in Seq(Candidates)
      BY TidyStreams DEF CandInv
    <3>a. Came(pr[x]) \o Carried(s2c[x]) \in Seq(Candidates)
      BY <3>4, <3>5
    <3>b. Carried(c2s[p]) \o Rest(s) \in Seq(Candidates)
      BY <3>4, <3>5
    <3>f. PICK f \in Seq(Candidates) : f = Came(pr[x]) \o Carried(s2c[x])
      BY <3>a
    <3>g. PICK g \in Seq(Candidates) : g = Carried(c2s[p]) \o Rest(s)
      BY <3>b
    <3>6. (f \o g) \o n = f \o (g \o n)
      BY SMTT(40), Regroup
    <3>7. f \o g = Gathered(p, s.made)
      BY <3>3, <3>f, <3>g DEF Kept
    <3>8. f \o (Carried(v) \o Rest(e)) = Gathered(p, e.made)
      BY <3>n, <3>g, <3>6, <3>7
    <3>9. Kept(p, e, pr[x], s2c[x], v)
      BY <3>8, <3>f DEF Kept
    <3> QED BY <1>1, <2>1, <3>1, <3>9
  <2>2. CASE x = p
    <3>1. e.dead = "no" /\ pr[q].dead = "no" /\ pr'[q] = pr[q] /\ c2s'[q] = c2s[q]
      BY <1>1, <1>3, <2>0, <2>2
    <3>2. pr[p].dead = "no" /\ Through(p, pr[p], c2s[p], s2c[p], e, v, y)
      BY <3>1
    <3>3. Kept(q, pr[q], pr[p], s2c[p], c2s[q])
      BY <1>3, <2>2, <2>u, <3>1, <3>2 DEF CandInv
    <3>4. Kept(q, pr[q], e, y, c2s[q])
      BY <3>2, <3>3 DEF Through, Kept
    <3> QED BY <1>1, <2>2, <3>1, <3>4
  <2>3. CASE q # p /\ x # p
    BY <1>1, <1>3, <2>3, <2>u DEF CandInv
  <2> QED BY <2>1, <2>2, <2>3
<1>4. ASSUME NEW q \in Procs, pr'[q].dead = "no" PROVE Settled(pr'[q])
  <2>1. CASE q = p
    <3>1. e.dead = "no"
      BY <1>1, <1>4, <2>1
    <3>2. Settled(pr[p]) /\ (Settled(pr[p]) => Settled(e))
      BY <3>1 DEF CandInv, Through
    <3> QED BY <1>1, <2>1, <3>2
  <2>2. CASE q # p
    BY <1>1, <1>4, <2>2 DEF CandInv
  <2> QED BY <2>1, <2>2
<1>5. \A q \in Procs : pr'[q].dead = "no" => Settled(pr[q])'
  BY <1>4 DEF Settled, Took
<1> QED BY <1>2, <1>3, <1>5 DEF CandInv

\* The streams of a process that ends are not read any more.
LEMMA DieFlows ==
    ASSUME Agreed, CandInv, NEW p \in Procs, NEW d, d # "no", Die(p, d)
    PROVE  CandInv'
<1>r. PICK r : r = [ProberInit EXCEPT !.main = "on", !.dead = d]
  OBVIOUS
<1>1. r.dead # "no"
  BY <1>r, DeadFields
<1>b. PICK b \in Seq(TidyWords) : b = c2s[p]
  BY DEF CandInv
<1>v. PICK v : v = IF pr[p].sock = "open" THEN Append(b, FinWord) ELSE b
  OBVIOUS
<1>y. PICK y : y = <<>>
  OBVIOUS
<1>2. FinWord \in TidyWords
  BY WordTypes DEF TidyWords, Carries, FinWord, Word
<1>3. v \in Seq(TidyWords) /\ y \in Seq(TidyWords)
  BY <1>2, <1>v, <1>y
<1>4. /\ pr' = [pr EXCEPT ![p] = r]
      /\ s2c' = [s2c EXCEPT ![p] = y]
      /\ up' = up
  BY <1>r, <1>y DEF Die
<1>5. c2s' = [c2s EXCEPT ![p] = v]
  <2>1. CASE pr[p].sock = "open"
    BY <1>b, <1>v, <2>1 DEF Die
  <2>2. CASE pr[p].sock # "open"
    BY <1>b, <1>v, <2>2 DEF Die, Agreed, ProberInv, ServerType
  <2> QED BY <2>1, <2>2
<1> QED BY <1>1, <1>3, <1>4, <1>5, StepFlows

\* e is r with its messages sent.
OnlySent(e, r) ==
    /\ e.remote = r.remote /\ e.wq = r.wq /\ e.unsent = r.unsent /\ e.ready = r.ready
    /\ e.made = r.made /\ e.dead = r.dead /\ e.got = r.got

LEMMA TidySent ==
    ASSUME NEW n \in Names, NEW o \in Seq(Tidy), NEW w, w = Sent(n, o)
    PROVE  w \in Seq(TidyWords) /\ Carried(w) = Bodies(o) /\ o \in Seq(Msgs)
<1>0. Tidy \subseteq Msgs
  BY DEF Tidy
<1>1. o \in Seq(Msgs)
  BY <1>0
<1>2. /\ w \in Seq(Words) /\ DOMAIN w = DOMAIN o
      /\ \A i \in DOMAIN w : w[i].body = o[i]
  BY <1>1, SentIs
<1>3. \A i \in 1 .. Len(w) : w[i] \in TidyWords
  <2>1. ASSUME NEW i \in 1 .. Len(w) PROVE w[i] \in TidyWords
    <3>1. w[i] \in Words /\ i \in DOMAIN o /\ w[i].body = o[i] /\ o[i] \in Tidy
      BY <1>2
    <3> QED BY <3>1 DEF TidyWords
  <2> QED BY <2>1
<1>4. w \in Seq(TidyWords)
  BY <1>2, <1>3
<1>5. Carried(Sent(n, o)) = Bodies(o)
  BY <1>1, SentCarried
<1> QED BY <1>1, <1>4, <1>5

LEMMA Associate ==
    \A f, g, h \in Seq(Candidates) : (f \o g) \o h = f \o (g \o h)
BY SMTT(40), Regroup

\* r, the outcome of a handler, brings the process to e: c, the candidates of
\* the word it read, leave the stream a, which becomes y, and what it sent is
\* put behind the stream b, which becomes v.
Brings(p, s, r, c, e, b, a, y, v) ==
    /\ Process(p, s) /\ r \in Mid(p) /\ Passes(p, s, r, c) /\ OnlySent(e, r)
    /\ c \in Seq(Candidates) /\ Carried(a) = c \o Carried(y)
    /\ b \in Seq(TidyWords) /\ a \in Seq(TidyWords) /\ y \in Seq(TidyWords)
    /\ v = b \o Sent(RemoteName[p], r.out)

LEMMA PassesThrough ==
    ASSUME NEW p \in Procs, NEW s, NEW r, NEW c, NEW e, NEW b, NEW a, NEW y, NEW v,
           Brings(p, s, r, c, e, b, a, y, v)
    PROVE  v \in Seq(TidyWords) /\ Through(p, s, b, a, e, v, y)
<1>h. /\ Process(p, s) /\ r \in Mid(p) /\ Passes(p, s, r, c) /\ OnlySent(e, r)
      /\ c \in Seq(Candidates) /\ Carried(a) = c \o Carried(y)
      /\ b \in Seq(TidyWords) /\ a \in Seq(TidyWords) /\ y \in Seq(TidyWords)
      /\ v = b \o Sent(RemoteName[p], r.out)
  BY DEF Brings
<1> USE <1>h
<1>0. /\ s.out = <<>> /\ Came(s) \in Seq(Candidates) /\ Rest(s) \in Seq(Candidates)
      /\ Gives(s) = Rest(s)
  BY ProcessFields
<1>n. PICK n \in Seq(Candidates) :
        /\ Hands(r, s, c)
        /\ Gives(r) = Gives(s) \o n
        /\ Gathered(p, r.made) = Gathered(p, s.made) \o n
        /\ s.out \in Seq(Tidy) => r.out \in Seq(Tidy)
  BY DEF Passes
<1>t. <<>> \in Seq(Tidy)
  OBVIOUS
<1>o. PICK o \in Seq(Tidy) : o = r.out
  BY <1>0, <1>n, <1>t
<1>k. PICK k \in Names : k = RemoteName[p]
  BY ProberAssumption
<1>w. PICK w : w = Sent(k, o)
  OBVIOUS
<1>1. w \in Seq(TidyWords) /\ Carried(w) = Bodies(o) /\ w \in Seq(Words)
  BY <1>w, TidySent, TidyStreams
<1>2. v = b \o w
  BY <1>o, <1>k, <1>w
<1>3. v \in Seq(TidyWords) /\ b \in Seq(Words)
  BY <1>1, <1>2, TidyStreams
<1>4. Carried(v) = Carried(b) \o Carried(w)
  BY <1>1, <1>2, <1>3, CarriedJoin
<1>5. Carried(b) \in Seq(Candidates) /\ Carried(y) \in Seq(Candidates)
  BY TidyStreams
<1>6. Bodies(o) \in Seq(Candidates) /\ Rest(r) \in Seq(Candidates)
  BY <1>o, MidFields
<1>7. /\ Came(e) = Came(r) /\ (Settled(r) => Settled(e))
      /\ Rest(e) = Rest(r) /\ e.made = r.made
  BY DEF OnlySent, Came, Settled, Took, Rest
<1>g. \A f, g, h \in Seq(Candidates) : (f \o g) \o h = f \o (g \o h)
  BY Associate
<1>8. Bodies(o) \o Rest(r) = Rest(s) \o n
  BY <1>0, <1>n, <1>o DEF Gives
<1>9. (Carried(b) \o Bodies(o)) \o Rest(r) = Carried(b) \o (Bodies(o) \o Rest(r))
  BY ZenonT(60), <1>g, <1>5, <1>6
<1>10. (Carried(b) \o Rest(s)) \o n = Carried(b) \o (Rest(s) \o n)
  BY ZenonT(60), <1>g, <1>5, <1>0
<1>11. (Came(s) \o c) \o Carried(y) = Came(s) \o (c \o Carried(y))
  BY ZenonT(60), <1>g, <1>5, <1>0
<1>12. Came(e) \o Carried(y) = Came(s) \o Carried(a) /\ (Settled(s) => Settled(e))
  BY <1>n, <1>7, <1>11 DEF Hands
<1>13. Carried(v) \o Rest(e) = (Carried(b) \o Rest(s)) \o n
  BY <1>1, <1>4, <1>7, <1>8, <1>9, <1>10
<1>14. Gathered(p, e.made) = Gathered(p, s.made) \o n
  BY <1>n, <1>7
<1> QED BY <1>3, <1>12, <1>13, <1>14 DEF Through

\* The handler of a posted message, or the worker.
LEMMA BecomeFlows ==
    ASSUME Agreed, CandInv, NEW p \in Procs, pr[p].dead = "no", PassesOn(p)
    PROVE  CandInv'
<1>r. PICK r : Become(p, r) /\ (r.dead = "no" => r \in Mid(p) /\ Passes(p, pr[p], r, <<>>))
  BY DEF PassesOn
<1>1. CASE r.dead # "no"
  <2>1. Die(p, r.dead)
    BY <1>r, <1>1 DEF Become
  <2> QED BY <1>1, <2>1, DieFlows
<1>2. CASE r.dead = "no"
  <2>0. r \in Mid(p) /\ Passes(p, pr[p], r, <<>>) /\ Process(p, pr[p]) /\ ServerType
    BY <1>r, <1>2 DEF Agreed, ProberInv
  <2>s. PICK s : s = pr[p]
    OBVIOUS
  <2>b. PICK b \in Seq(TidyWords) : b = c2s[p]
    BY DEF CandInv
  <2>a. PICK a \in Seq(TidyWords) : a = s2c[p]
    BY DEF CandInv
  <2>v. PICK v : v = b \o Sent(RemoteName[p], r.out)
    OBVIOUS
  <2>f. (r.io \/ r.sigq = <<>>) \in BOOLEAN
    OBVIOUS
  <2>g. PICK g \in BOOLEAN : g = (r.io \/ r.sigq = <<>>)
    BY <2>f
  <2>e. PICK e : e = [r EXCEPT !.out = <<>>, !.io = g]
    OBVIOUS
  <2>1. OnlySent(e, r)
    BY <2>0, <2>e DEF Mid, OnlySent
  <2>2. Passes(p, s, r, <<>>) /\ Process(p, s)
    BY <2>0, <2>s
  <2>t. <<>> \in Seq(Candidates)
    OBVIOUS
  <2>c. PICK c \in Seq(Candidates) : c = <<>>
    BY <2>t
  <2>3. Carried(a) \in Seq(Candidates)
    BY TidyStreams
  <2>4. <<>> \o Carried(a) = Carried(a)
    BY <2>3
  <2>5. Carried(a) = c \o Carried(a) /\ Passes(p, s, r, c)
    BY <2>2, <2>4, <2>c
  <2>b1. Brings(p, s, r, c, e, b, a, a, v)
    BY <2>0, <2>1, <2>2, <2>5, <2>v, <2>a, <2>b, <2>c DEF Brings
  <2>6. v \in Seq(TidyWords) /\ Through(p, s, b, a, e, v, a)
    BY <2>b1, PassesThrough
  <2>7. /\ pr' = [pr EXCEPT ![p] = [r EXCEPT !.out = <<>>, !.io = @ \/ r.sigq = <<>>]]
        /\ c2s' = [c2s EXCEPT ![p] = @ \o
                      [i \in DOMAIN r.out |-> SendWord(RemoteName[p], r.out[i])]]
        /\ UNCHANGED <<up, conn, pid, peerObjects, s2c>>
    BY <1>r, <1>2 DEF Become
  <2>8. pr' = [pr EXCEPT ![p] = e]
    BY <2>7, <2>g, <2>e
  <2>9. c2s' = [c2s EXCEPT ![p] = v]
    BY <2>7, <2>v, <2>b DEF Sent
  <2>10. s2c' = [s2c EXCEPT ![p] = a] /\ up' = up
    BY <2>0, <2>7, <2>a DEF ServerType
  <2>11. Through(p, pr[p], c2s[p], s2c[p], e, v, a)
    BY <2>6, <2>s, <2>b, <2>a
  <2> QED BY <2>6, <2>8, <2>9, <2>10, <2>11, StepFlows
<1> QED BY <1>1, <1>2

\* A word that is read.
LEMMA ReadFlows ==
    ASSUME Agreed, CandInv, NEW p \in Procs, NEW r \in Mid(p), Read(p, r), r.dead = "no",
           Passes(p, pr[p], r, CandsOf(Head(s2c[p])))
    PROVE  CandInv'
<1>0. Process(p, pr[p]) /\ ServerType
  BY DEF Agreed, ProberInv
<1>s. PICK s : s = pr[p]
  OBVIOUS
<1>b. PICK b \in Seq(TidyWords) : b = c2s[p]
  BY DEF CandInv
<1>a. PICK a \in Seq(TidyWords) : a = s2c[p]
  BY DEF CandInv
<1>y. PICK y : y = Tail(a)
  OBVIOUS
<1>1. a # <<>> /\ pr[p].dead = "no"
  BY <1>a DEF Read, Alive
<1>2. y \in Seq(TidyWords) /\ a \in Seq(Words)
  BY <1>1, <1>y, TidyStreams
<1>w. PICK w : w = Head(a)
  OBVIOUS
<1>3. w \in Words /\ Carried(a) = CandsOf(w) \o Carried(y)
  BY <1>1, <1>2, <1>y, <1>w, CarriedTail
<1>c. PICK c \in Seq(Candidates) : c = CandsOf(w)
  BY <1>3, CandsOfType
<1>4. Passes(p, s, r, c)
  BY <1>s, <1>a, <1>w, <1>c
<1>v. PICK v : v = b \o Sent(RemoteName[p], r.out)
  OBVIOUS
<1>e. PICK e : e = [r EXCEPT !.out = <<>>]
  OBVIOUS
<1>5. OnlySent(e, r)
  BY <1>e DEF Mid, OnlySent
<1>6. Carried(a) = c \o Carried(y) /\ Process(p, s)
  BY <1>0, <1>3, <1>c, <1>s
<1>b1. Brings(p, s, r, c, e, b, a, y, v)
  BY <1>2, <1>4, <1>5, <1>6, <1>v, <1>a, <1>b, <1>c DEF Brings
<1>7. v \in Seq(TidyWords) /\ Through(p, s, b, a, e, v, y)
  BY <1>b1, PassesThrough
<1>8. /\ pr' = [pr EXCEPT ![p] = [r EXCEPT !.out = <<>>]]
      /\ s2c' = [s2c EXCEPT ![p] = Tail(@)]
      /\ c2s' = [c2s EXCEPT ![p] = @ \o
                      [i \in DOMAIN r.out |-> SendWord(RemoteName[p], r.out[i])]]
      /\ UNCHANGED <<up, conn, pid, peerObjects>>
  BY DEF Read
<1>9. pr' = [pr EXCEPT ![p] = e] /\ s2c' = [s2c EXCEPT ![p] = y] /\ up' = up
  BY <1>8, <1>e, <1>y, <1>a
<1>10. c2s' = [c2s EXCEPT ![p] = v]
  BY <1>8, <1>v, <1>b DEF Sent
<1>11. Through(p, pr[p], c2s[p], s2c[p], e, v, y)
  BY <1>7, <1>s, <1>b, <1>a
<1> QED BY <1>1, <1>2, <1>7, <1>9, <1>10, <1>11, StepFlows

\* A word without a message, and a handler that touches no candidate.
LEMMA ReadPlainFlows ==
    ASSUME Agreed, CandInv, NEW p \in Procs, NEW r \in Mid(p), Read(p, r), r.dead = "no",
           ~Carries(Head(s2c[p])), Untouched(r, pr[p])
    PROVE  CandInv'
<1>1. CandsOf(Head(s2c[p])) = <<>>
  BY DEF CandsOf, Carries
<1>2. Process(p, pr[p])
  BY DEF Agreed, ProberInv
<1>3. Flows(r, pr[p])
  BY UntouchedFlows
<1>4. Passes(p, pr[p], r, <<>>)
  BY <1>2, <1>3, FlowsPass
<1> QED BY <1>1, <1>4, ReadFlows

LEMMA ReadExitFlows ==
    ASSUME Agreed, CandInv, NEW p \in Procs, NEW d, d # "no", NEW r, r = Exits(pr[p], d), Read(p, r)
    PROVE  CandInv'
<1>1. pr[p] \in Mid(p)
  BY AliveLocal DEF Read, Agreed
<1>2. r.dead = d
  BY <1>1 DEF Exits, Mid
<1>3. Die(p, d)
  BY <1>2 DEF Read
<1> QED BY <1>3, DieFlows

LEMMA RemoteLoginFlows ==
    ASSUME Agreed, CandInv, NEW p \in Procs, onRemoteLogin(p) PROVE CandInv'
<1>s. PICK s : s = pr[p]
  OBVIOUS
<1>0. Alive(p) /\ s2c[p] # <<>>
  BY DEF onRemoteLogin, Reads
<1>1. s \in Mid(p) /\ s.dead = "no" /\ s.out = <<>> /\ Orderly(s)
  <2>1. s \in Mid(p) /\ s.dead = "no" /\ s.out = <<>>
    BY <1>0, <1>s, AliveOrderly DEF Agreed
  <2> QED BY <1>s, <2>1 DEF Agreed, HandshakeInv
<1>u. PICK u : u = [s EXCEPT !.remoteOnline = TRUE, !.sigq = Append(@, "DO_INITIATE")]
  OBVIOUS
<1>n. PICK n \in Names :
        Reads(p, LoginWord(n),
              LAMBDA x : IF RemoteArrived(p, n, x)
                         THEN [x EXCEPT !.remoteOnline = TRUE,
                                        !.sigq = Append(@, "DO_INITIATE")]
                         ELSE x)
  BY DEF onRemoteLogin
<1>h. Head(s2c[p]) = LoginWord(n)
  BY <1>n DEF Reads
<1>2. ~Carries(Head(s2c[p]))
  BY <1>h DEF Carries, LoginWord, Word
<1>3. CASE RemoteArrived(p, n, s)
  <2>1. Read(p, u)
    BY <1>n, <1>s, <1>u, <1>3 DEF Reads, Read
  <2>2. u \in Mid(p) /\ u.dead = s.dead
    BY ZenonT(60), <1>1, <1>u, RemoteLoginOrderly
  <2>3. Untouched(u, s)
    BY <1>1, <1>u DEF Mid, Untouched
  <2> QED BY <1>1, <1>2, <1>s, <2>1, <2>2, <2>3, ReadPlainFlows
<1>4. CASE ~RemoteArrived(p, n, s)
  <2>1. Read(p, s)
    BY <1>n, <1>s, <1>4 DEF Reads, Read
  <2>2. Untouched(s, s)
    BY DEF Untouched
  <2> QED BY <1>1, <1>2, <1>s, <2>1, <2>2, ReadPlainFlows
<1> QED BY <1>3, <1>4

LEMMA RemoteOnlineFlows ==
    ASSUME Agreed, CandInv, NEW p \in Procs, onRemoteOnline(p) PROVE CandInv'
<1>s. PICK s : s = pr[p]
  OBVIOUS
<1>0. Alive(p) /\ Read(p, s)
  BY <1>s DEF onRemoteOnline, Reads, Read
<1>1. s \in Mid(p) /\ s.dead = "no"
  BY <1>0, <1>s, AliveLocal DEF Agreed
<1>2. ~Carries(Head(s2c[p]))
  BY DEF onRemoteOnline, Reads, Carries, OnlineWord, Word
<1>3. Untouched(s, s)
  BY DEF Untouched
<1> QED BY <1>0, <1>1, <1>2, <1>3, <1>s, ReadPlainFlows

LEMMA RemoteOfflineFlows ==
    ASSUME Agreed, CandInv, NEW p \in Procs, onRemoteOffline(p) PROVE CandInv'
<1>r. PICK r : r = Exits(pr[p], "remoteoffline")
  OBVIOUS
<1>1. Read(p, r)
  BY SMTT(40), <1>r DEF onRemoteOffline, Reads, Read
<1> QED BY <1>1, <1>r, ReadExitFlows

\* OnIncomingMessage hands the candidates of a transport message to the worker.
LEMMA RemoteMessageFlows ==
    ASSUME Agreed, CandInv, NEW p \in Procs, onRemoteMessage(p) PROVE CandInv'
<1>s. PICK s : s = pr[p]
  OBVIOUS
<1>0. Alive(p) /\ s2c[p] # <<>>
  BY DEF onRemoteMessage, Reads
<1>1. s \in Mid(p) /\ s.dead = "no" /\ Local(p, s, "none") /\ Process(p, s)
  <2>1. s \in Mid(p) /\ s.dead = "no" /\ Local(p, s, "none")
    BY SMTT(40), <1>0, <1>s, AliveOrderly DEF Agreed
  <2> QED BY <1>s, <2>1 DEF Agreed, ProberInv
<1>w. PICK w : w = Head(s2c[p])
  OBVIOUS
<1>2. w \in TidyWords
  <2>a. PICK a \in Seq(TidyWords) : a = s2c[p]
    BY SMTT(40) DEF CandInv
  <2> QED BY <1>0, <1>w, <2>a
<1>3. Carries(w)
  BY <1>w DEF onRemoteMessage, Reads, Carries, MessageWord, Word
<1>m. PICK m \in Tidy : m = w.body
  BY <1>2, <1>3 DEF TidyWords
<1>4. m \in Msgs /\ CandsOf(w) = m.cands /\ m.cands \in Seq(Candidates)
  BY <1>3, <1>m DEF CandsOf, Carries, Tidy, Msgs
<1>5. Read(p, IF s.state = "NULL" THEN Exits(s, "nullsession") ELSE OnIncomingMessage(s, m))
  BY <1>s, <1>m, <1>w, ReadsMessage
<1>6. CASE s.state = "NULL"
  <2>r. PICK r : r = Exits(pr[p], "nullsession")
    OBVIOUS
  <2>1. Read(p, r)
    BY <1>5, <1>6, <1>s, <2>r
  <2> QED BY <2>1, <2>r, ReadExitFlows
<1>7. CASE s.state # "NULL"
  <2>r. PICK r : r = OnIncomingMessage(s, m)
    OBVIOUS
  <2>1. Read(p, r)
    BY <1>5, <1>7, <2>r
  <2>2. CASE r.dead # "no"
    <3>1. Die(p, r.dead)
      BY <2>1, <2>2 DEF Read
    <3> QED BY <2>2, <3>1, DieFlows
  <2>3. CASE r.dead = "no"
    <3>1. Keeps(p, r, "none")
      BY <1>1, <1>4, <2>r, OnIncomingKeeps
    <3>2. r \in Mid(p)
      BY <3>1 DEF Keeps
    <3>3. Hands(r, s, m.cands) /\ Sends(r, s)
      BY <1>1, <2>r, OnIncomingFlows
    <3>n. PICK n : n = <<>>
      OBVIOUS
    <3>4. n \in Seq(Candidates) /\ \A x \in Seq(Candidates) : x \o n = x
      BY <3>n
    <3>5. Gives(s) \in Seq(Candidates) /\ Gathered(p, s.made) \in Seq(Candidates)
      BY <1>1, ProcessFields
    <3>6. Passes(p, s, r, m.cands)
      BY <3>3, <3>4, <3>5 DEF Passes, Sends
    <3>7. Passes(p, pr[p], r, CandsOf(Head(s2c[p])))
      BY <1>4, <1>s, <1>w, <3>6
    <3> QED BY <2>1, <2>3, <3>2, <3>7, ReadFlows
  <2> QED BY <2>2, <2>3
<1> QED BY <1>6, <1>7

LEMMA ConnectEventFlows ==
    ASSUME Agreed, CandInv, NEW p \in Procs, onConnectEvent(p) PROVE CandInv'
<1>s. PICK s : s = pr[p]
  OBVIOUS
<1>b. PICK b \in Seq(TidyWords) : b = c2s[p]
  BY DEF CandInv
<1>a. PICK a \in Seq(TidyWords) : a = s2c[p]
  BY DEF CandInv
<1>1. s \in Mid(p) /\ s.dead = "no" /\ Process(p, s) /\ ServerType
  <2>1. s \in Mid(p) /\ s.dead = "no"
    BY <1>s, AliveLocal DEF Agreed, onConnectEvent
  <2> QED BY <1>s, <2>1 DEF Agreed, ProberInv
<1>n. PICK n \in Names : n = MyName[p]
  BY ProberAssumption
<1>w. PICK w \in Words : w = LoginWord(n)
  BY WordTypes
<1>2. ~Carries(w) /\ w \in TidyWords
  BY <1>w DEF Carries, LoginWord, Word, TidyWords
<1>v. PICK v : v = Append(b, w)
  OBVIOUS
<1>e. PICK e : e = [s EXCEPT !.sock = "open"]
  OBVIOUS
<1>3. v \in Seq(TidyWords) /\ b \in Seq(Words)
  BY <1>2, <1>v, TidyStreams
<1>4. Carried(v) = Carried(b) \o CandsOf(w) /\ Carried(b) \in Seq(Candidates)
  BY <1>3, <1>v, CarriedAppend, TidyStreams
<1>c. PICK c : c = <<>>
  OBVIOUS
<1>5. c \in Seq(Candidates) /\ \A x \in Seq(Candidates) : x \o c = x
  BY <1>c
<1>6. Carried(v) = Carried(b)
  BY <1>2, <1>4, <1>5, <1>c DEF CandsOf, Carries
<1>7. Untouched(e, s) /\ e.dead = "no"
  BY <1>1, <1>e DEF Mid, Untouched
<1>8. /\ Came(e) = Came(s) /\ (Settled(s) => Settled(e))
      /\ Rest(e) = Rest(s) /\ e.made = s.made
  BY <1>7 DEF Untouched, Came, Settled, Took, Rest
<1>9. Rest(s) \in Seq(Candidates) /\ Gathered(p, s.made) \in Seq(Candidates)
  BY <1>1, ProcessFields
<1>10. Carried(b) \o Rest(s) \in Seq(Candidates)
  BY <1>4, <1>9
<1>11. Through(p, s, b, a, e, v, a)
  BY <1>5, <1>6, <1>8, <1>9, <1>10 DEF Through
<1>12. /\ pr' = [pr EXCEPT ![p] = e]
       /\ c2s' = [c2s EXCEPT ![p] = v]
       /\ up' = up /\ s2c' = s2c
  BY <1>s, <1>b, <1>n, <1>w, <1>v, <1>e DEF onConnectEvent
<1>13. s2c' = [s2c EXCEPT ![p] = a]
  BY <1>1, <1>12, <1>a DEF ServerType
<1>14. Through(p, pr[p], c2s[p], s2c[p], e, v, a) /\ pr[p].dead = "no"
  BY <1>1, <1>11, <1>s, <1>b, <1>a
<1> QED BY <1>3, <1>12, <1>13, <1>14, StepFlows

LEMMA StepGives ==
    ASSUME ProberInv, NEW p \in Procs,
           \/ Login(p) \/ SignalStep(p) \/ PostCreateSession(p) \/ TimeoutDue(p) \/ WorkerMsg(p)
           \/ Gather(p) \/ Flip(p) \/ Reallocate(p)
    PROVE  PassesOn(p)
<1>1. CASE SignalStep(p)
  BY <1>1, StartGives, CreateGives, DoInitiateGives, DoAcceptGives, StateMsgGives,
     CandidateMsgGives, RequestMsgGives, ConnectingMsgGives, WriteStateMsgGives,
     SessionTimeoutGives DEF SignalStep
<1>2. CASE Login(p) \/ PostCreateSession(p) \/ TimeoutDue(p) \/ WorkerMsg(p)
           \/ Gather(p) \/ Flip(p) \/ Reallocate(p)
  BY <1>2, LoginGives, PostCreateGives, TimeoutDueGives, WorkerGives, GatherStepGives
<1> QED BY <1>1, <1>2

LEMMA ProberStepFlows ==
    ASSUME Agreed, CandInv, NEW p \in Procs, ProberStep(p) PROVE CandInv'
<1>1. CASE \/ Login(p) \/ SignalStep(p) \/ PostCreateSession(p) \/ TimeoutDue(p) \/ WorkerMsg(p)
           \/ Gather(p) \/ Flip(p) \/ Reallocate(p)
  <2>1. pr[p].dead = "no"
    BY <1>1, StepActs
  <2>2. PassesOn(p)
    BY <1>1, StepGives DEF Agreed
  <2> QED BY <2>1, <2>2, BecomeFlows
<1>2. CASE onCloseEvent(p) \/ Kill(p)
  <2>1. Die(p, "disconnected") \/ Die(p, "killed")
    BY <1>2 DEF onCloseEvent, Kill
  <2>2. "disconnected" # "no" /\ "killed" # "no"
    OBVIOUS
  <2> QED BY <2>1, <2>2, DieFlows
<1>3. CASE PeerStep(p) /\ ~onCloseEvent(p)
  BY <1>3, ConnectEventFlows, RemoteLoginFlows, RemoteOnlineFlows, RemoteOfflineFlows,
     RemoteMessageFlows DEF PeerStep
<1> QED BY <1>1, <1>2, <1>3 DEF ProberStep

-----------------------------------------------------------------------------
(* The candidates and the server.                                          *)

\* A step of the server.
LEMMA ServerFlows ==
    ASSUME Agreed, CandInv, pr' = pr, up' => up,
           \A q \in Procs : c2s'[q] \in Seq(TidyWords) /\ s2c'[q] \in Seq(TidyWords),
           \A q, x \in Procs :
              Mates(q, x) /\ pr[q].dead = "no" /\ pr[x].dead = "no" =>
                 Carried(s2c'[x]) \o Carried(c2s'[q]) = Carried(s2c[x]) \o Carried(c2s[q])
    PROVE  CandInv'
<1>1. ASSUME NEW q \in Procs, NEW x \in Procs, Mates(q, x),
             up', pr'[q].dead = "no", pr'[x].dead = "no"
      PROVE  Kept(q, pr'[q], pr'[x], s2c'[x], c2s'[q])
  <2>0. Process(q, pr[q]) /\ Process(x, pr[x])
    BY DEF Agreed, ProberInv
  <2>1. Kept(q, pr[q], pr[x], s2c[x], c2s[q])
    BY <1>1 DEF CandInv
  <2>2. Came(pr[x]) \in Seq(Candidates) /\ Rest(pr[q]) \in Seq(Candidates)
    BY <2>0, ProcessFields
  <2>3. Carried(s2c[x]) \in Seq(Candidates) /\ Carried(c2s[q]) \in Seq(Candidates)
    BY TidyStreams DEF CandInv
  <2>4. Carried(s2c'[x]) \in Seq(Candidates) /\ Carried(c2s'[q]) \in Seq(Candidates)
    BY TidyStreams
  <2>5. (Came(pr[x]) \o Carried(s2c[x])) \o (Carried(c2s[q]) \o Rest(pr[q]))
          = (Came(pr[x]) \o (Carried(s2c[x]) \o Carried(c2s[q]))) \o Rest(pr[q])
    <3>1. Came(pr[x]) \o Carried(s2c[x]) \in Seq(Candidates)
      BY <2>2, <2>3
    <3>2. ((Came(pr[x]) \o Carried(s2c[x])) \o Carried(c2s[q])) \o Rest(pr[q])
            = (Came(pr[x]) \o Carried(s2c[x])) \o (Carried(c2s[q]) \o Rest(pr[q]))
      BY <2>2, <2>3, <3>1, Associate
    <3>3. (Came(pr[x]) \o Carried(s2c[x])) \o Carried(c2s[q])
            = Came(pr[x]) \o (Carried(s2c[x]) \o Carried(c2s[q]))
      BY <2>2, <2>3, Associate
    <3> QED BY <3>2, <3>3
  <2>6. (Came(pr[x]) \o Carried(s2c'[x])) \o (Carried(c2s'[q]) \o Rest(pr[q]))
          = (Came(pr[x]) \o (Carried(s2c'[x]) \o Carried(c2s'[q]))) \o Rest(pr[q])
    <3>1. Came(pr[x]) \o Carried(s2c'[x]) \in Seq(Candidates)
      BY <2>2, <2>4
    <3>2. ((Came(pr[x]) \o Carried(s2c'[x])) \o Carried(c2s'[q])) \o Rest(pr[q])
            = (Came(pr[x]) \o Carried(s2c'[x])) \o (Carried(c2s'[q]) \o Rest(pr[q]))
      BY <2>2, <2>4, <3>1, Associate
    <3>3. (Came(pr[x]) \o Carried(s2c'[x])) \o Carried(c2s'[q])
            = Came(pr[x]) \o (Carried(s2c'[x]) \o Carried(c2s'[q]))
      BY <2>2, <2>4, Associate
    <3> QED BY <3>2, <3>3
  <2>7. Carried(s2c'[x]) \o Carried(c2s'[q]) = Carried(s2c[x]) \o Carried(c2s[q])
    BY <1>1
  <2> QED BY <2>1, <2>5, <2>6, <2>7 DEF Kept
<1>2. ASSUME NEW q \in Procs, pr'[q].dead = "no" PROVE Settled(pr[q])'
  BY <1>2 DEF CandInv, Settled, Took
<1> QED BY SMTT(40), <1>1, <1>2 DEF CandInv

\* The streams b and v carry the same.
SameCands(v, b) == v \in Seq(TidyWords) /\ Carried(v) = Carried(b)

LEMMA SameAppend ==
    ASSUME NEW b \in Seq(TidyWords), NEW w \in Words, ~Carries(w), NEW v, v = Append(b, w)
    PROVE  SameCands(v, b)
<1>1. w \in TidyWords /\ b \in Seq(Words) /\ Carried(b) \in Seq(Candidates)
  BY TidyStreams DEF TidyWords
<1>2. v \in Seq(TidyWords)
  BY <1>1
<1>3. Carried(v) = Carried(b) \o CandsOf(w)
  BY <1>1, CarriedAppend
<1>4. CandsOf(w) = <<>>
  BY DEF CandsOf, Carries
<1>5. Carried(b) \o <<>> = Carried(b)
  BY <1>1
<1> QED BY <1>2, <1>3, <1>4, <1>5 DEF SameCands

LEMMA SameTail ==
    ASSUME NEW b \in Seq(TidyWords), b # <<>>, ~Carries(Head(b)), NEW v, v = Tail(b)
    PROVE  SameCands(v, b)
<1>1. v \in Seq(TidyWords) /\ b \in Seq(Words)
  BY TidyStreams
<1>w. PICK w : w = Head(b)
  OBVIOUS
<1>2. Carried(b) = CandsOf(w) \o Carried(v)
  BY <1>1, <1>w, CarriedTail
<1>3. CandsOf(w) = <<>>
  BY <1>w DEF CandsOf, Carries
<1>4. Carried(v) \in Seq(Candidates)
  BY <1>1, TidyStreams
<1>5. <<>> \o Carried(v) = Carried(v)
  BY <1>4
<1> QED BY <1>1, <1>2, <1>3, <1>5 DEF SameCands

LEMMA SameWrite ==
    ASSUME CandInv, NEW S, NEW w \in Words, ~Carries(w), NEW q \in Procs
    PROVE  SameCands(WriteAll(S, w)[q], s2c[q])
<1>a. PICK a \in Seq(TidyWords) : a = s2c[q]
  BY DEF CandInv
<1>1. CASE q \in S
  <2>1. WriteAll(S, w)[q] = Append(a, w)
    BY <1>1, <1>a DEF WriteAll
  <2> QED BY <1>a, <2>1, SameAppend
<1>2. CASE q \notin S
  <2>1. WriteAll(S, w)[q] = s2c[q]
    BY <1>2 DEF WriteAll
  <2> QED BY <1>a, <2>1 DEF SameCands
<1> QED BY <1>1, <1>2

\* A step of the server that moves no message.
LEMMA PlainFlows ==
    ASSUME Agreed, CandInv, pr' = pr, up' => up,
           \A q \in Procs : SameCands(c2s'[q], c2s[q]) /\ SameCands(s2c'[q], s2c[q])
    PROVE  CandInv'
<1>1. \A q \in Procs : /\ c2s'[q] \in Seq(TidyWords) /\ s2c'[q] \in Seq(TidyWords)
                       /\ Carried(c2s'[q]) = Carried(c2s[q]) /\ Carried(s2c'[q]) = Carried(s2c[q])
  BY DEF SameCands
<1> QED BY <1>1, ServerFlows

LEMMA StaysSame ==
    ASSUME CandInv, NEW q \in Procs PROVE SameCands(c2s[q], c2s[q]) /\ SameCands(s2c[q], s2c[q])
BY DEF CandInv, SameCands

\* p's word is read, and it carries no message.
LEMMA ReceiveSame ==
    ASSUME Agreed, CandInv, NEW p \in Procs, NEW w, Receives(p, w), ~Carries(w)
    PROVE  /\ up /\ \A q \in Procs : SameCands(c2s'[q], c2s[q])
<1>b. PICK b \in Seq(TidyWords) : b = c2s[p]
  BY DEF CandInv
<1>1. /\ b # <<>> /\ w = Head(b) /\ c2s'[p] = Tail(b) /\ up
      /\ \A q \in Procs : q # p => c2s'[q] = c2s[q]
  <2>1. Received(p, c2s[p], w)
    BY ReceivesIs DEF Agreed, ProberInv
  <2> QED BY <1>b, <2>1 DEF Received
<1>2. SameCands(c2s'[p], c2s[p])
  BY <1>1, <1>b, SameTail
<1>3. \A q \in Procs : q # p => SameCands(c2s'[q], c2s[q])
  BY <1>1, StaysSame
<1> QED BY <1>1, <1>2, <1>3

LEMMA CloseFlows ==
    ASSUME Agreed, CandInv, NEW p \in Procs, OnClose(p), pr' = pr PROVE CandInv'
<1>1. FinWord \in Words /\ ~Carries(FinWord)
  BY WordTypes DEF Carries, FinWord, Word
<1>2. up /\ \A q \in Procs : SameCands(c2s'[q], c2s[q])
  <2>1. Receives(p, FinWord)
    BY DEF OnClose
  <2> QED BY <1>1, <2>1, ReceiveSame
<1>3. ASSUME NEW q \in Procs PROVE SameCands(s2c'[q], s2c[q])
  <2>1. CASE OwnsEntry(p)
    <3>0. pid[p] \in Names
      BY <2>1 DEF OwnsEntry, Registered
    <3>n. PICK n \in Names : n = pid[p]
      BY <3>0
    <3>1. s2c' = WriteAll({peerObjects[m] : m \in Registered \ {n}}, OfflineWord(n))
      BY <2>1, <3>n DEF OnClose
    <3>2. OfflineWord(n) \in Words /\ ~Carries(OfflineWord(n))
      BY WordTypes DEF Carries, OfflineWord, Word
    <3> QED BY <3>1, <3>2, SameWrite
  <2>2. CASE ~OwnsEntry(p)
    BY <2>2, StaysSame DEF OnClose
  <2> QED BY <2>1, <2>2
<1> QED BY <1>2, <1>3, PlainFlows

LEMMA ServerDiesFlows ==
    ASSUME Agreed, CandInv, ServerDies, pr' = pr PROVE CandInv'
<1>1. FinWord \in Words /\ ~Carries(FinWord)
  BY WordTypes DEF Carries, FinWord, Word
<1>2. up /\ c2s' = c2s /\ s2c' = WriteAll({q \in Procs : conn[q] = "open"}, FinWord)
  BY DEF ServerDies
<1>3. \A q \in Procs : SameCands(c2s'[q], c2s[q]) /\ SameCands(s2c'[q], s2c[q])
  BY <1>1, <1>2, StaysSame, SameWrite
<1> QED BY <1>2, <1>3, PlainFlows

LEMMA AcceptedFlows ==
    ASSUME Agreed, CandInv, NEW p \in Procs, LoginAccepted(p), pr' = pr PROVE CandInv'
<1>n. PICK n \in Names :
        /\ Receives(p, LoginWord(n))
        /\ s2c' = [WriteAll(Users, LoginWord(n)) EXCEPT ![p] = @ \o OnlineList]
  BY DEF LoginAccepted
<1>1. LoginWord(n) \in Words /\ ~Carries(LoginWord(n))
  BY WordTypes DEF Carries, LoginWord, Word
<1>2. up /\ \A q \in Procs : SameCands(c2s'[q], c2s[q])
  BY <1>1, <1>n, ReceiveSame
<1>u. p \notin Users
  BY <1>n, LoginIs DEF Users
<1>3. ASSUME NEW q \in Procs, q # p PROVE SameCands(s2c'[q], s2c[q])
  <2>1. s2c'[q] = WriteAll(Users, LoginWord(n))[q]
    BY <1>3, <1>n DEF WriteAll
  <2> QED BY <1>1, <2>1, SameWrite
<1>4. SameCands(s2c'[p], s2c[p])
  <2>a. PICK a \in Seq(TidyWords) : a = s2c[p]
    BY DEF CandInv
  <2>0. s2c'[p] = a \o OnlineList
    BY <1>n, <1>u, <2>a DEF WriteAll
  <2>1. CASE Registered = {}
    <3>1. a \o <<>> = a
      OBVIOUS
    <3>2. s2c'[p] = a
      BY <2>0, <2>1, <3>1 DEF OnlineList
    <3> QED BY <2>a, <3>2 DEF SameCands
  <2>2. CASE Registered # {}
    <3>w. PICK w \in Words : w = OnlineWord(Registered)
      BY WordTypes DEF Registered
    <3>o. OnlineList = <<w>>
      BY <2>2, <3>w DEF OnlineList
    <3>c. a \o <<w>> = Append(a, w)
      BY <3>w DEF TidyWords, Carries, OnlineWord, Word
    <3>1. s2c'[p] = Append(a, w) /\ ~Carries(w)
      BY <2>0, <3>o, <3>c, <3>w DEF Carries, OnlineWord, Word
    <3> QED BY <2>a, <3>1, SameAppend
  <2> QED BY <2>1, <2>2
<1> QED BY <1>2, <1>3, <1>4, PlainFlows

\* A message changes from one stream to the other, or its addressee is dead.
LEMMA RelayFlows ==
    ASSUME Agreed, CandInv, NEW p \in Procs, Send(p), pr' = pr PROVE CandInv'
<1>0. ServerType /\ OwnNames
  BY DEF Agreed, ProberInv
<1>b. PICK b \in Seq(TidyWords) : b = c2s[p]
  BY DEF CandInv
<1>q. PICK q \in Procs : \E y : Relays(p, q, b, y)
  BY <1>b, SendRelays
<1>y. PICK y : Relays(p, q, b, y)
  BY <1>q
<1>a. PICK a \in Seq(TidyWords) : a = s2c[q]
  BY DEF CandInv
<1>1. /\ Mates(p, q) /\ pid[p] \in Names
      /\ b # <<>> /\ Carries(Head(b)) /\ Head(b).body \in Msgs
      /\ c2s'[p] = Tail(b)
      /\ \A x \in Procs : x # p => c2s'[x] = c2s[x]
      /\ \A x \in Procs : x # q => s2c'[x] = s2c[x]
      /\ \/ y = MessageWord(pid[p], Head(b).body) /\ s2c'[q] = Append(a, y)
         \/ pr[q].dead # "no" /\ s2c'[q] = a
  BY <1>y, <1>a DEF Relays
<1>2. up' = up
  BY SendRelays
<1>3. /\ p # q
      /\ \A x \in Procs : Mates(p, x) => x = q
      /\ \A x \in Procs : Mates(x, q) => x = p
  <2>1. /\ p # q /\ Mates(q, p)
        /\ \A x \in Procs : Mates(p, x) => x = q
        /\ \A x \in Procs : Mates(q, x) => x = p
    BY <1>0, <1>1, MatesDiffer
  <2> QED BY <2>1 DEF Mates
<1>w. PICK w : w = Head(b)
  OBVIOUS
<1>v. PICK v : v = Tail(b)
  OBVIOUS
<1>4. w \in TidyWords /\ v \in Seq(TidyWords) /\ w.body \in Tidy
  <2>1. w \in TidyWords /\ v \in Seq(TidyWords)
    BY <1>1, <1>w, <1>v
  <2> QED BY <1>1, <1>w, <2>1 DEF TidyWords
<1>5. Carried(b) = CandsOf(w) \o Carried(v)
  <2>1. b \in Seq(Words)
    BY TidyStreams
  <2> QED BY <1>1, <1>w, <1>v, <2>1, CarriedTail
<1>6. CASE y = MessageWord(pid[p], w.body) /\ s2c'[q] = Append(a, y)
  <2>1. y \in Words
    BY <1>1, <1>w, <1>6, WordTypes
  <2>2. Carries(y) /\ y.body = w.body
    BY <1>6 DEF Carries, MessageWord, Word
  <2>3. y \in TidyWords /\ CandsOf(y) = CandsOf(w)
    BY <1>1, <1>4, <1>w, <2>1, <2>2 DEF TidyWords, CandsOf, Carries
  <2>k. PICK k : k = Append(a, y)
    OBVIOUS
  <2>4. k \in Seq(TidyWords) /\ a \in Seq(Words)
    BY <2>3, <2>k, TidyStreams
  <2>5. Carried(k) = Carried(a) \o CandsOf(w)
    BY <2>1, <2>3, <2>4, <2>k, CarriedAppend
  <2>6. Carried(a) \in Seq(Candidates) /\ Carried(v) \in Seq(Candidates)
    BY <1>4, TidyStreams
  <2>7. CandsOf(w) \in Seq(Candidates)
    BY <1>4, CandsOfType DEF TidyWords
  <2>8. (Carried(a) \o CandsOf(w)) \o Carried(v) = Carried(a) \o (CandsOf(w) \o Carried(v))
    BY <2>6, <2>7, Associate
  <2>9. Carried(s2c'[q]) \o Carried(c2s'[p]) = Carried(s2c[q]) \o Carried(c2s[p])
    BY <1>1, <1>5, <1>6, <1>a, <1>b, <1>v, <2>5, <2>8, <2>k
  <2>10. \A x \in Procs : c2s'[x] \in Seq(TidyWords) /\ s2c'[x] \in Seq(TidyWords)
    BY <1>1, <1>4, <1>6, <1>v, <2>4, <2>k DEF CandInv
  <2>11. ASSUME NEW x \in Procs, NEW z \in Procs, Mates(x, z)
         PROVE  Carried(s2c'[z]) \o Carried(c2s'[x]) = Carried(s2c[z]) \o Carried(c2s[x])
    <3>1. CASE x = p
      BY <1>3, <2>9, <2>11, <3>1
    <3>2. CASE x # p
      BY <1>1, <1>3, <2>11, <3>2
    <3> QED BY <3>1, <3>2
  <2> QED BY <1>2, <2>10, <2>11, ServerFlows
<1>7. CASE pr[q].dead # "no" /\ s2c'[q] = a
  <2>1. \A x \in Procs : c2s'[x] \in Seq(TidyWords) /\ s2c'[x] \in Seq(TidyWords)
    BY <1>1, <1>4, <1>7, <1>v DEF CandInv
  <2>2. ASSUME NEW x \in Procs, NEW z \in Procs, Mates(x, z), pr[z].dead = "no"
        PROVE  Carried(s2c'[z]) \o Carried(c2s'[x]) = Carried(s2c[z]) \o Carried(c2s[x])
    <3>1. x # p /\ z # q
      BY <1>3, <1>7, <2>2
    <3> QED BY <1>1, <3>1
  <2> QED BY <1>2, <2>1, <2>2, ServerFlows
<1>8. \/ y = MessageWord(pid[p], w.body) /\ s2c'[q] = Append(a, y)
      \/ pr[q].dead # "no" /\ s2c'[q] = a
  BY <1>1, <1>w
<1> QED BY Zenon, <1>6, <1>7, <1>8

LEMMA InitFlows == ASSUME Init PROVE CandInv
<1>1. ASSUME NEW p \in Procs, NEW q \in Procs PROVE Kept(p, pr[p], pr[q], s2c[q], c2s[p])
  <2>s. PICK s : s = ProberInit
    OBVIOUS
  <2>1. s.got = <<>> /\ s.unsent = <<>> /\ s.ready = <<>> /\ s.made = 0
    BY <2>s, InitFields
  <2>2. pr[p] = s /\ pr[q] = s /\ s2c[q] = <<>> /\ c2s[p] = <<>>
    BY <2>s DEF Init, ServerInit
  <2>e. PICK e : e = <<>>
    OBVIOUS
  <2>3. e \in Seq(Candidates) /\ e \o e = e
    BY <2>e
  <2>4. Came(s) = e /\ Rest(s) = e
    BY <2>1, <2>3, <2>e, ConcatNone DEF Came, Rest
  <2>5. Carried(e) = e
    BY <2>e, CarriedNone
  <2>6. Gathered(p, 0) = e
    BY <2>e DEF Gathered
  <2> QED BY <2>1, <2>2, <2>3, <2>4, <2>5, <2>6, <2>e DEF Kept
<1>2. \A p \in Procs : c2s[p] \in Seq(TidyWords) /\ s2c[p] \in Seq(TidyWords)
  BY DEF Init, ServerInit
<1>3. ASSUME NEW p \in Procs PROVE Settled(pr[p])
  <2>s. PICK s : s = ProberInit
    OBVIOUS
  <2>1. pr[p] = s /\ s.remote = <<>> /\ s.wq = <<>> /\ s.got = <<>>
    BY <2>s, InitFields DEF Init
  <2>e. PICK e : e = <<>>
    OBVIOUS
  <2>2. e \in Seq(Candidates) /\ e \o e = e /\ Verified(e) = e
    BY <2>e DEF Verified
  <2>3. Took(s) = e /\ Concat(Verified(s.got)) = e
    BY <2>1, <2>2, <2>e, QueuedNone, ConcatNone DEF Took
  <2> QED BY <2>1, <2>3 DEF Settled
<1> QED BY <1>1, <1>2, <1>3 DEF CandInv

LEMMA NextFlows == ASSUME Agreed, CandInv, [Next]_vars PROVE CandInv'
<1>1. CASE \E p \in Procs : ServerStep(p) /\ UNCHANGED pr
  <2>1. PICK p \in Procs : ServerStep(p) /\ UNCHANGED pr
    BY <1>1
  <2>2. ~LoginKicked(p)
    BY KickedAgrees
  <2> QED BY <2>1, <2>2, AcceptedFlows, RelayFlows, CloseFlows DEF ServerStep
<1>2. CASE \E p \in Procs : ProberStep(p)
  BY <1>2, ProberStepFlows
<1>3. CASE ServerDies /\ UNCHANGED pr
  BY <1>3, ServerDiesFlows
<1>4. CASE UNCHANGED vars
  <2>1. pr' = pr /\ up' = up /\ c2s' = c2s /\ s2c' = s2c
    BY <1>4 DEF vars, serverVars
  <2> QED BY <2>1 DEF CandInv, Kept, Came, Rest, Settled, Took
<1> QED BY <1>1, <1>2, <1>3, <1>4 DEF Next

\* Between two partners no candidate is lost, doubled or overtaken, from
\* OnChannelCandidateReady of the one through ready_candidates_, the message
\* and the server to OnTransportInfoMessage of the other; and the channel of
\* every process gets, in order, the candidates of the messages without one
\* that VerifyCandidate refuses (PPSession::OnRemoteCandidates), and no others.
THEOREM CandidatesKept == ASSUME OwnNames PROVE Spec => []CandidatesConserved
<1>1. Init => CandInv
  BY InitFlows
<1>2. ProberInv /\ HandshakeInv /\ CandInv /\ [Next]_vars => CandInv'
  BY SMTT(40), NextFlows DEF Agreed
<1>3. ASSUME ProberInv, CandInv, NEW pq \in Pairs, up, Alive(pq[1]), Alive(pq[2])
      PROVE  Concat(pr[pq[2]].got) \o Carried(s2c[pq[2]])
               \o Carried(c2s[pq[1]]) \o pr[pq[1]].unsent \o pr[pq[1]].ready
             = [k \in 1 .. pr[pq[1]].made |-> <<pq[1], k>>]
  <2>p. PICK p \in Procs : p = pq[1]
    BY DEF Pairs
  <2>q. PICK q \in Procs : q = pq[2]
    BY DEF Pairs
  <2>2. Mates(p, q)
    BY <2>p, <2>q DEF Pairs, Mates
  <2>3. Alive(p) /\ Alive(q)
    BY <1>3, <2>p, <2>q
  <2>4. pr[p] \in Mid(p) /\ pr[q] \in Mid(q) /\ pr[p].dead = "no" /\ pr[q].dead = "no"
    BY <1>3, <2>3, AliveLocal
  <2>5. Kept(p, pr[p], pr[q], s2c[q], c2s[p])
    BY <1>3, <2>2, <2>4 DEF CandInv
  <2>6. (Came(pr[q]) \o Carried(s2c[q])) \o (Carried(c2s[p]) \o (pr[p].unsent \o pr[p].ready))
          = Gathered(p, pr[p].made)
    BY <2>5 DEF Kept, Rest
  <2>7. Came(pr[q]) \in Seq(Candidates) /\ Carried(s2c[q]) \in Seq(Candidates)
    BY <1>3, <2>4, MidFields, TidyStreams DEF CandInv
  <2>f. Came(pr[q]) \o Carried(s2c[q]) \in Seq(Candidates)
    BY <2>7
  <2>b. Carried(c2s[p]) \in Seq(Candidates)
    BY <1>3, TidyStreams DEF CandInv
  <2>u. pr[p].unsent \in Seq(Candidates) /\ pr[p].ready \in Seq(Candidates)
    BY SMTT(40), <2>4, MidFields
  <2>8. (Came(pr[q]) \o Carried(s2c[q])) \o (Carried(c2s[p]) \o (pr[p].unsent \o pr[p].ready))
          = (((Came(pr[q]) \o Carried(s2c[q])) \o Carried(c2s[p])) \o pr[p].unsent) \o pr[p].ready
    <3>1. (Came(pr[q]) \o Carried(s2c[q])) \o Carried(c2s[p]) \in Seq(Candidates)
      BY <2>f, <2>b
    <3>2. pr[p].unsent \o pr[p].ready \in Seq(Candidates)
      BY <2>u
    <3>3. ((Came(pr[q]) \o Carried(s2c[q])) \o Carried(c2s[p])) \o (pr[p].unsent \o pr[p].ready)
            = (Came(pr[q]) \o Carried(s2c[q])) \o (Carried(c2s[p]) \o (pr[p].unsent \o pr[p].ready))
      BY <2>f, <2>b, <3>2, Associate
    <3>4. (((Came(pr[q]) \o Carried(s2c[q])) \o Carried(c2s[p])) \o pr[p].unsent) \o pr[p].ready
            = ((Came(pr[q]) \o Carried(s2c[q])) \o Carried(c2s[p])) \o (pr[p].unsent \o pr[p].ready)
      BY <2>u, <3>1, Associate
    <3> QED BY <3>3, <3>4
  <2>9. (((Came(pr[q]) \o Carried(s2c[q])) \o Carried(c2s[p])) \o pr[p].unsent) \o pr[p].ready
          = Gathered(p, pr[p].made)
    BY <2>6, <2>8
  <2>10. (((Concat(pr[q].got) \o Carried(s2c[q])) \o Carried(c2s[p]))
             \o pr[p].unsent) \o pr[p].ready = [k \in 1 .. pr[p].made |-> <<p, k>>]
    BY <2>9 DEF Came, Gathered
  <2> QED BY ZenonT(60), <2>10, <2>p, <2>q
<1>4. ASSUME ProberInv, CandInv, NEW p \in Procs, Alive(p)
      PROVE  pr[p].remote \o Queued(pr[p].wq) = Concat(Verified(pr[p].got))
  BY <1>4, AliveLocal DEF CandInv, Settled, Took
<1>5. ProberInv /\ CandInv => CandidatesConserved
  BY <1>3, <1>4 DEF CandidatesConserved
<1> QED BY <1>1, <1>2, <1>5, ProberInvariant, HandshakeInvariant, PTL DEF Spec
=============================================================================
