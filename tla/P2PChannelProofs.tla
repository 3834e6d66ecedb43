-------------------------- MODULE P2PChannelProofs --------------------------
(***************************************************************************)
(* Proofs about P2PChannel, for any ports, remote addresses, networks,     *)
(* preferences, generations and round-trip times.                          *)
(***************************************************************************)
EXTENDS P2PChannel, QueueLemmas

\* The messages there are: only MSG_DELETE names connections, only
\* MSG_ONREMOTECANDIDATE a candidate.
Sent == {m \in Messages :
            /\ m.id # "DELETE" => m.conns = {}
            /\ IF m.id = "ONREMOTECANDIDATE" THEN m.cand \in Cands ELSE m.cand = None}

States ==
    [conns : SUBSET Conns, read : [Conns -> {"READABLE", "TIMEOUT"}],
     write : [Conns -> {"WRITABLE", "CONNECT", "TIMEOUT"}],
     pruned : [Conns -> BOOLEAN], pings : [Conns -> BOOLEAN],
     reqs : [Conns -> 0 .. MaxRequests], rtt : [Conns -> Nat],
     best : Conns \cup {None}, dirty : BOOLEAN, writable : BOOLEAN,
     readable : BOOLEAN, wasWritable : BOOLEAN, wasTimedOut : BOOLEAN,
     waiting : BOOLEAN, asked : 0 .. MaxAnswers, left : 0 .. MaxAnswers,
     delayed : Nat, port : [Ports -> {"none", "current", "old", "gone"}],
     remote : SUBSET Cands, offered : SUBSET Cands,
     ping : {"off", "delayed", "queued"}, session : BOOLEAN,
     ok : BOOLEAN, io : BOOLEAN, q : Seq(Messages)]

Sorts      == {m \in Messages : m.id = "SORT"}
Readies    == {m \in Messages : m.id = "ONSIGNALINGREADY"}
Allocs     == {m \in Messages : m.id = "ALLOCATE"}
Deletes(c) == {m \in Messages : m.id = "DELETE" /\ c \in m.conns}

\* A connection that is not in connections_ is as its constructor leaves it;
\* best_connection_ is one of connections_; no ASSERT has failed.
Shape(s) ==
    /\ s \in States
    /\ s.q \in Seq(Sent)
    /\ \A c \in Conns \ s.conns : s.read[c] = "TIMEOUT" /\ s.write[c] = "CONNECT"
    /\ s.best = None \/ s.best \in s.conns
    /\ s.ok
    /\ s.asked <= s.left

\* Allocation: asked for, or scheduled once, unless the channel is writable.
AllocBut(s) ==
    LET a == s.delayed + CountOf(s.q, Allocs) IN
    /\ s.wasWritable <=> s.writable
    /\ s.wasTimedOut => ~s.writable
    /\ a <= 1
    /\ s.waiting => a = 0
    /\ s.ping # "off" /\ ~s.writable => s.waiting \/ a = 1

\* What was asked for is answered.
AllocInv(s) ==
    /\ AllocBut(s)
    /\ s.waiting => s.asked > 0 \/ s.left = 0 \/ CountOf(s.q, Readies) # 0

DoomedInv(s) == \A c \in Doomed(s) : CountOf(s.q, Deletes(c)) # 0

\* The same but for the connections in S.
DoomedBut(s, S) == \A c \in Doomed(s) : c \in S \/ CountOf(s.q, Deletes(c)) # 0

\* The best connection is one of the best.
BestIsBest(s) ==
    /\ s.writable <=> WritableConns(s) # {}
    /\ s.conns # {} => s.best # None /\ \A c \in s.conns : ~Prefers(s, c, s.best)

DirtyInv(s) == s.dirty => CountOf(s.q, Sorts) # 0
SortInv(s)  == DirtyInv(s) /\ (CountOf(s.q, Sorts) # 0 \/ BestIsBest(s))

\* What holds of a connected channel whether or not its connections are
\* sorted, and what holds of it between its messages.
Sound(s) == Shape(s) /\ AllocInv(s) /\ DoomedInv(s) /\ s.ping # "off"
Good(s)  == Sound(s) /\ SortInv(s)

\* Nothing happens to a channel before it is connected.
ChannelInv == ch = ChannelInit \/ Good(ch)

-----------------------------------------------------------------------------
(* The order of connections.                                               *)

\* The write states, from the best to the worst.
LEMMA WriteOrders ==
    /\ WriteOrder["WRITABLE"] = 0
    /\ WriteOrder["CONNECT"] = 1
    /\ WriteOrder["TIMEOUT"] = 2
BY DEF WriteOrder

\* What connections are compared by.
LEMMA Keys ==
    ASSUME NEW s \in States, NEW c \in Conns
    PROVE  /\ Preference(c) \in Nat /\ Generation(c) \in Nat /\ s.rtt[c] \in Nat
           /\ WriteOrder[s.write[c]] \in Nat
<1>1. Pref[c[1]] \in Nat /\ Pref[c[2]] \in Nat /\ Gen[c[1]] \in Nat /\ Gen[c[2]] \in Nat
  BY ChannelAssumption DEF Conns
<1>2. Preference(c) \in Nat /\ Generation(c) \in Nat
  BY <1>1 DEF Preference, Generation
<1>3. s.write[c] \in {"WRITABLE", "CONNECT", "TIMEOUT"} /\ s.rtt[c] \in Nat
  BY DEF States
<1> QED BY <1>2, <1>3, WriteOrders

\* CompareConnections orders connections up to equality.
LEMMA PreferOrder ==
    ASSUME NEW s \in States, NEW a \in Conns, NEW b \in Conns, NEW c \in Conns
    PROVE  /\ ~Prefers(s, a, a)
           /\ Prefers(s, a, b) /\ Prefers(s, b, c) => Prefers(s, a, c)
           /\ ~Prefers(s, a, b) /\ ~Prefers(s, b, c) => ~Prefers(s, a, c)
BY Keys DEF Prefers, PrefersCandidates

\* So does ConnectionCompare.
LEMMA SortOrder ==
    ASSUME NEW s \in States, NEW a \in Conns, NEW b \in Conns, NEW c \in Conns
    PROVE  /\ ~SortsBefore(s, a, a)
           /\ SortsBefore(s, a, b) /\ SortsBefore(s, b, c) => SortsBefore(s, a, c)
<1>1. s.rtt[a] \in Nat /\ s.rtt[b] \in Nat /\ s.rtt[c] \in Nat
  BY Keys
<1>2. ~SortsBefore(s, a, a)
  BY <1>1, PreferOrder DEF SortsBefore
<1>3. ASSUME SortsBefore(s, a, b), SortsBefore(s, b, c) PROVE SortsBefore(s, a, c)
  <2>1. /\ Prefers(s, a, b) \/ (~Prefers(s, b, a) /\ s.rtt[a] < s.rtt[b])
        /\ Prefers(s, b, c) \/ (~Prefers(s, c, b) /\ s.rtt[b] < s.rtt[c])
    BY <1>3 DEF SortsBefore
  <2>2. CASE Prefers(s, a, c)
    BY <2>2 DEF SortsBefore
  <2>3. CASE ~Prefers(s, a, c)
    <3>1. ~Prefers(s, c, a)
      <4>1. ~Prefers(s, b, a)
        BY <2>1, PreferOrder
      <4>2. ~Prefers(s, c, b)
        BY <2>1, PreferOrder
      <4> QED BY <4>1, <4>2, PreferOrder
    <3>2. ~Prefers(s, a, b) \/ ~Prefers(s, b, c)
      BY <2>3, PreferOrder
    <3>3. ~Prefers(s, a, b) /\ ~Prefers(s, b, c)
      <4>1. ASSUME Prefers(s, a, b) PROVE FALSE
        <5>1. ~Prefers(s, c, b)
          BY <2>1, PreferOrder
        <5>2. ~Prefers(s, a, c) /\ ~Prefers(s, c, b)
          BY <2>3, <5>1
        <5> QED BY <4>1, <5>2, PreferOrder
      <4>2. ASSUME Prefers(s, b, c) PROVE FALSE
        <5>1. ~Prefers(s, b, a)
          BY <2>1, PreferOrder
        <5> QED BY <2>3, <4>2, <5>1, PreferOrder
      <4> QED BY <4>1, <4>2
    <3>4. s.rtt[a] < s.rtt[c]
      BY <1>1, <2>1, <3>3
    <3> QED BY <3>1, <3>4 DEF SortsBefore
  <2> QED BY <2>2, <2>3
<1> QED BY <1>2, <1>3

\* There are finitely many connections, so there is a first one in sorted
\* order: by induction on their number.
LEMMA FirstInOrder ==
    ASSUME NEW s \in States, NEW S \in SUBSET Conns, S # {}
    PROVE  \E m \in S : \A d \in S : ~SortsBefore(s, d, m)
<1> DEFINE First(T) == \E m \in T : \A d \in T : ~SortsBefore(s, d, m)
           Bad(n) == \E T \in SUBSET Conns : Cardinality(T) = n /\ T # {} /\ ~First(T)
           N == {n \in Nat : Bad(n)}
<1>0. \A T \in SUBSET Conns : IsFiniteSet(T) /\ Cardinality(T) \in Nat
  <2>1. IsFiniteSet(Conns)
    BY ChannelAssumption, FS_Product DEF Conns
  <2> QED BY <2>1, FS_Subset, FS_CardinalityType
<1>1. SUFFICES ASSUME N # {} PROVE FALSE
  <2>1. Cardinality(S) \in Nat
    BY <1>0
  <2> QED BY <2>1
<1>2. PICK n \in N : \A k \in N : n <= k
  <2> HIDE DEF N
  <2>1. N \in SUBSET Nat
    BY DEF N
  <2> QED BY <1>1, <2>1, LeastNat
<1>3. PICK T \in SUBSET Conns : Cardinality(T) = n /\ T # {} /\ ~First(T)
  OBVIOUS
<1>4. PICK x \in T : TRUE
  BY <1>3
<1>u. PICK U : U = T \ {x}
  OBVIOUS
<1>5. U \in SUBSET Conns /\ Cardinality(U) = n - 1 /\ n \in Nat
  BY <1>0, <1>3, <1>4, <1>u, FS_RemoveElement
<1>6. CASE U = {}
  <2>1. \A d \in T : d = x
    BY <1>u, <1>6
  <2>2. ~SortsBefore(s, x, x)
    BY <1>4, SortOrder
  <2> QED BY <1>3, <1>4, <2>1, <2>2
<1>7. CASE U # {}
  <2>1. First(U)
    <3>1. Cardinality(U) \in Nat /\ ~(n <= Cardinality(U))
      BY <1>0, <1>5
    <3> HIDE DEF First
    <3> QED BY <1>2, <1>5, <1>7, <3>1
  <2>2. PICK m \in U : \A d \in U : ~SortsBefore(s, d, m)
    BY <2>1
  <2>3. CASE SortsBefore(s, x, m)
    <3>1. \A d \in T : ~SortsBefore(s, d, x)
      <4> TAKE d \in T
      <4>1. CASE d = x
        BY <1>4, <4>1, SortOrder
      <4>2. CASE d # x
        <5>1. ~SortsBefore(s, d, m) /\ d \in Conns /\ x \in Conns /\ m \in Conns
          BY <1>u, <2>2, <4>2
        <5> QED BY <2>3, <5>1, SortOrder
      <4> QED BY <4>1, <4>2
    <3> QED BY <1>3, <1>4, <3>1
  <2>4. CASE ~SortsBefore(s, x, m)
    <3>1. m \in T /\ \A d \in T : ~SortsBefore(s, d, m)
      BY <1>u, <2>2, <2>4
    <3> QED BY <1>3, <3>1
  <2> QED BY <2>3, <2>4
<1> QED BY <1>6, <1>7

\* After the choice nothing is preferred to the best connection, although
\* ShouldSwitch may have kept the old one.
LEMMA Chosen ==
    ASSUME NEW s \in States, s.best = None \/ s.best \in s.conns, NEW top \in Tops(s),
           NEW b, b = IF ShouldSwitch(s, s.best, top) THEN top ELSE s.best
    PROVE  /\ b = None \/ b \in s.conns
           /\ s.conns # {} => b # None /\ \A c \in s.conns : ~Prefers(s, c, b)
<1>m. PICK M : M = {c \in s.conns : \A d \in s.conns : ~SortsBefore(s, d, c)}
  OBVIOUS
<1>0. s.conns \in SUBSET Conns /\ None \notin Conns
  BY ChannelAssumption DEF States, Conns
<1>1. CASE s.conns = {}
  <2>1. M = {} /\ s.best = None
    BY <1>m, <1>1
  <2>2. top = None
    BY <1>m, <2>1 DEF Tops
  <2> QED BY <1>1, <2>1, <2>2
<1>2. CASE s.conns # {}
  <2>1. M # {}
    BY <1>m, <1>0, <1>2, FirstInOrder
  <2>2. top \in M
    BY <1>m, <2>1 DEF Tops
  <2>3. top \in s.conns /\ top # None /\ \A c \in s.conns : ~SortsBefore(s, c, top)
    BY <1>m, <1>0, <2>2
  <2>4. \A c \in s.conns : ~Prefers(s, c, top)
    BY <2>3 DEF SortsBefore
  <2>5. CASE ShouldSwitch(s, s.best, top)
    BY <2>3, <2>4, <2>5
  <2>6. CASE ~ShouldSwitch(s, s.best, top)
    <3>1. b = s.best
      BY <2>6
    <3>2. s.best = top \/ (s.best # None /\ ~Prefers(s, top, s.best))
      BY <2>3, <2>6 DEF ShouldSwitch
    <3>3. CASE s.best = top
      BY <2>3, <2>4, <3>1, <3>3
    <3>4. CASE s.best # None /\ ~Prefers(s, top, s.best)
      <4>1. s.best \in s.conns
        BY <3>4
      <4>2. ASSUME NEW c \in s.conns PROVE ~Prefers(s, c, s.best)
        <5>1. c \in Conns /\ top \in Conns /\ s.best \in Conns
          BY <1>0, <2>3, <4>1
        <5>2. ~Prefers(s, c, top) /\ ~Prefers(s, top, s.best)
          BY <2>4, <3>4
        <5> QED BY <5>1, <5>2, PreferOrder
      <4> QED BY <3>1, <3>4, <4>1, <4>2
    <3> QED BY <3>2, <3>3, <3>4
  <2> QED BY <2>5, <2>6
<1> QED BY <1>1, <1>2

-----------------------------------------------------------------------------
(* The queue.                                                              *)

\* What is coming in q is still coming in p.
Kept(q, p) ==
    /\ p \in Seq(Sent)
    /\ CountOf(q, Sorts) # 0 => CountOf(p, Sorts) # 0
    /\ CountOf(q, Readies) # 0 => CountOf(p, Readies) # 0
    /\ \A c : CountOf(q, Deletes(c)) # 0 => CountOf(p, Deletes(c)) # 0

SameAllocs(q, p) == CountOf(p, Allocs) = CountOf(q, Allocs)

\* All numbers are natural numbers.
LEMMA CountsTyped ==
    ASSUME NEW q \in Seq(Sent), NEW c
    PROVE  /\ CountOf(q, Sorts) \in Nat /\ CountOf(q, Readies) \in Nat
           /\ CountOf(q, Allocs) \in Nat /\ CountOf(q, Deletes(c)) \in Nat
BY PlacesFinite

\* Posting a message.
LEMMA Posted ==
    ASSUME NEW q \in Seq(Sent), NEW m \in Sent
    PROVE  /\ Kept(q, Append(q, m))
           /\ CountOf(Append(q, m), Allocs)
                 = CountOf(q, Allocs) + (IF m.id = "ALLOCATE" THEN 1 ELSE 0)
           /\ m.id = "SORT" => CountOf(Append(q, m), Sorts) # 0
           /\ m.id = "ONSIGNALINGREADY" => CountOf(Append(q, m), Readies) # 0
           /\ m.id = "DELETE" => \A c \in m.conns : CountOf(Append(q, m), Deletes(c)) # 0
<1>0. m \in Messages
  BY DEF Sent
<1>1. /\ CountOf(Append(q, m), Sorts) = CountOf(q, Sorts) + (IF m \in Sorts THEN 1 ELSE 0)
      /\ CountOf(Append(q, m), Readies)
           = CountOf(q, Readies) + (IF m \in Readies THEN 1 ELSE 0)
      /\ CountOf(Append(q, m), Allocs)
           = CountOf(q, Allocs) + (IF m \in Allocs THEN 1 ELSE 0)
  BY CountAppend
<1>2. \A c : CountOf(Append(q, m), Deletes(c))
                = CountOf(q, Deletes(c)) + (IF m \in Deletes(c) THEN 1 ELSE 0)
  BY CountAppend
<1>3. /\ m \in Sorts <=> m.id = "SORT"
      /\ m \in Readies <=> m.id = "ONSIGNALINGREADY"
      /\ m \in Allocs <=> m.id = "ALLOCATE"
      /\ \A c : m \in Deletes(c) <=> m.id = "DELETE" /\ c \in m.conns
  BY <1>0 DEF Sorts, Readies, Allocs, Deletes
<1>4. CountOf(q, Sorts) \in Nat /\ CountOf(q, Readies) \in Nat
  BY CountsTyped
<1>5. \A c : CountOf(q, Deletes(c)) \in Nat
  BY CountsTyped
<1>6. Append(q, m) \in Seq(Sent)
  OBVIOUS
<1>7. \A c : /\ CountOf(q, Deletes(c)) # 0 => CountOf(Append(q, m), Deletes(c)) # 0
             /\ m \in Deletes(c) => CountOf(Append(q, m), Deletes(c)) # 0
  BY <1>2, <1>5
<1>8. Kept(q, Append(q, m))
  BY <1>1, <1>4, <1>6, <1>7 DEF Kept
<1> QED BY <1>1, <1>3, <1>4, <1>7, <1>8

\* Taking the first message off.
LEMMA Taken ==
    ASSUME NEW q \in Seq(Sent), q # <<>>, NEW h, h = Head(q)
    PROVE  /\ Tail(q) \in Seq(Sent) /\ h \in Sent
           /\ CountOf(Tail(q), Allocs)
                 = CountOf(q, Allocs) - (IF h.id = "ALLOCATE" THEN 1 ELSE 0)
           /\ h.id # "SORT" => CountOf(Tail(q), Sorts) = CountOf(q, Sorts)
           /\ h.id # "ONSIGNALINGREADY" => CountOf(Tail(q), Readies) = CountOf(q, Readies)
           /\ \A c : ~(h.id = "DELETE" /\ c \in h.conns) =>
                 CountOf(Tail(q), Deletes(c)) = CountOf(q, Deletes(c))
<1>0. h \in Messages /\ h \in Sent /\ Tail(q) \in Seq(Sent)
  BY DEF Sent
<1>1. /\ CountOf(Tail(q), Sorts) = CountOf(q, Sorts) - (IF h \in Sorts THEN 1 ELSE 0)
      /\ CountOf(Tail(q), Readies)
           = CountOf(q, Readies) - (IF h \in Readies THEN 1 ELSE 0)
      /\ CountOf(Tail(q), Allocs)
           = CountOf(q, Allocs) - (IF h \in Allocs THEN 1 ELSE 0)
  BY CountTail
<1>2. \A c : CountOf(Tail(q), Deletes(c))
                = CountOf(q, Deletes(c)) - (IF h \in Deletes(c) THEN 1 ELSE 0)
  BY CountTail
<1>3. /\ h \in Sorts <=> h.id = "SORT"
      /\ h \in Readies <=> h.id = "ONSIGNALINGREADY"
      /\ h \in Allocs <=> h.id = "ALLOCATE"
      /\ \A c : h \in Deletes(c) <=> h.id = "DELETE" /\ c \in h.conns
  BY <1>0 DEF Sorts, Readies, Allocs, Deletes
<1>4. CountOf(q, Sorts) \in Nat /\ CountOf(q, Readies) \in Nat
  BY CountsTyped
<1>5. \A c : CountOf(q, Deletes(c)) \in Nat
  BY CountsTyped
<1>6. \A c : h \notin Deletes(c) => CountOf(Tail(q), Deletes(c)) = CountOf(q, Deletes(c))
  BY <1>2, <1>5
<1> QED BY <1>0, <1>1, <1>3, <1>4, <1>6

\* The messages of the code are well formed.
LEMMA MessagesSent ==
    /\ SortMsg \in Sent /\ SortMsg.id = "SORT"
    /\ PingMsg \in Sent /\ PingMsg.id = "PING"
    /\ AllocateMsg \in Sent /\ AllocateMsg.id = "ALLOCATE"
    /\ ReadyMsg \in Sent /\ ReadyMsg.id = "ONSIGNALINGREADY"
    /\ NullMsg \in Sent /\ NullMsg.id = "NULL"
    /\ \A k \in Cands : CandidateMsg(k) \in Sent /\ CandidateMsg(k).id = "ONREMOTECANDIDATE"
    /\ \A S \in SUBSET Conns : /\ DeleteMsg(S) \in Sent /\ DeleteMsg(S).id = "DELETE"
                               /\ DeleteMsg(S).conns = S
BY DEF SortMsg, PingMsg, AllocateMsg, ReadyMsg, NullMsg, CandidateMsg, DeleteMsg, Msg,
       Sent, Messages

-----------------------------------------------------------------------------
(* Changes of state.                                                       *)

\* The members of the channel that no connection's state change touches.
Frame(s, t) ==
    /\ t.conns = s.conns /\ t.pruned = s.pruned /\ t.pings = s.pings /\ t.reqs = s.reqs
    /\ t.rtt = s.rtt /\ t.best = s.best /\ t.writable = s.writable
    /\ t.readable = s.readable /\ t.wasWritable = s.wasWritable
    /\ t.wasTimedOut = s.wasTimedOut /\ t.waiting = s.waiting /\ t.asked = s.asked
    /\ t.left = s.left /\ t.delayed = s.delayed /\ t.port = s.port
    /\ t.remote = s.remote /\ t.offered = s.offered /\ t.ping = s.ping
    /\ t.session = s.session /\ t.ok = s.ok /\ t.io = s.io

\* Only the queue changes.
LEMMA NewQueue ==
    ASSUME NEW s \in States, NEW q \in Seq(Messages), NEW t, t = [s EXCEPT !.q = q]
    PROVE  /\ t \in States /\ Frame(s, t) /\ t.read = s.read /\ t.write = s.write
           /\ t.dirty = s.dirty /\ t.q = q
<1>1. t \in States
  BY DEF States
<1>2. Frame(s, t)
  BY DEF States, Frame
<1>3. t.read = s.read /\ t.write = s.write /\ t.dirty = s.dirty /\ t.q = q
  BY DEF States
<1> QED BY <1>1, <1>2, <1>3

\* Only sort_dirty_ changes.
LEMMA NewDirty ==
    ASSUME NEW s \in States, NEW b \in BOOLEAN, NEW t, t = [s EXCEPT !.dirty = b]
    PROVE  /\ t \in States /\ Frame(s, t) /\ t.read = s.read /\ t.write = s.write
           /\ t.dirty = b /\ t.q = s.q
<1>1. t \in States
  BY DEF States
<1>2. Frame(s, t)
  BY DEF States, Frame
<1>3. t.read = s.read /\ t.write = s.write /\ t.dirty = b /\ t.q = s.q
  BY DEF States
<1> QED BY <1>1, <1>2, <1>3

\* RequestSort.
LEMMA RequestSortIs ==
    ASSUME NEW s \in States, s.q \in Seq(Sent), NEW t, t = RequestSort(s)
    PROVE  /\ t \in States /\ Frame(s, t) /\ t.read = s.read /\ t.write = s.write
           /\ t.dirty /\ Kept(s.q, t.q) /\ SameAllocs(s.q, t.q)
           /\ s.dirty \/ CountOf(t.q, Sorts) # 0
<1>1. CASE s.dirty
  BY <1>1 DEF RequestSort, Frame, Kept, SameAllocs
<1>2. CASE ~s.dirty
  <2>q. PICK q : q = Append(s.q, SortMsg)
    OBVIOUS
  <2>1. t = [s EXCEPT !.q = q, !.dirty = TRUE]
    BY <1>2, <2>q DEF RequestSort, Post
  <2>2. /\ Kept(s.q, q) /\ CountOf(q, Sorts) # 0
        /\ CountOf(q, Allocs) = CountOf(s.q, Allocs) + 0
    <3>m. PICK m : m = SortMsg
      OBVIOUS
    <3>1. m \in Sent /\ m.id = "SORT" /\ m.id # "ALLOCATE"
      BY <3>m, MessagesSent
    <3> QED BY <2>q, <3>m, <3>1, Posted
  <2>3. q \in Seq(Messages)
    BY <2>2 DEF Kept, Sent
  <2>4. /\ t \in States /\ Frame(s, t) /\ t.read = s.read /\ t.write = s.write
        /\ t.dirty = TRUE /\ t.q = q
    <3>u. PICK u : u = [s EXCEPT !.q = q]
      OBVIOUS
    <3>b. PICK b \in BOOLEAN : b = TRUE
      OBVIOUS
    <3>1. /\ u \in States /\ Frame(s, u) /\ u.read = s.read /\ u.write = s.write
          /\ u.q = q
      BY <2>3, <3>u, NewQueue
    <3>2. t = [u EXCEPT !.dirty = b]
      BY <2>1, <3>u, <3>b
    <3>3. /\ t \in States /\ Frame(u, t) /\ t.read = u.read /\ t.write = u.write
          /\ t.dirty = b /\ t.q = u.q
      BY <3>1, <3>2, NewDirty
    <3>4. Frame(s, t)
      BY <3>1, <3>3 DEF Frame
    <3> QED BY <3>b, <3>1, <3>3, <3>4
  <2>5. CountOf(s.q, Allocs) \in Nat
    BY CountsTyped
  <2> QED BY <2>2, <2>4, <2>5 DEF SameAllocs
<1> QED BY <1>1, <1>2

ReadStates  == [Conns -> {"READABLE", "TIMEOUT"}]
WriteStates == [Conns -> {"WRITABLE", "CONNECT", "TIMEOUT"}]

\* What set_read_state and set_write_state do.
StatesSet(s, t, read, write) ==
    /\ t \in States /\ Frame(s, t) /\ t.read = read /\ t.write = write
    /\ Kept(s.q, t.q) /\ SameAllocs(s.q, t.q)
    /\ read # s.read \/ write # s.write => t.dirty /\ (s.dirty \/ CountOf(t.q, Sorts) # 0)
    /\ read = s.read /\ write = s.write => t.dirty = s.dirty
    /\ \A c \in Doomed(t) : c \in Doomed(s) \/ CountOf(t.q, Deletes(c)) # 0

\* SetStates does just that.
LEMMA SetStatesIs ==
    ASSUME NEW s \in States, s.q \in Seq(Sent), NEW read \in ReadStates,
           NEW write \in WriteStates, NEW t, t = SetStates(s, read, write)
    PROVE  StatesSet(s, t, read, write)
<1>v. PICK v : v = [s EXCEPT !.read = read, !.write = write]
  OBVIOUS
<1>1. /\ v \in States /\ Frame(s, v) /\ v.read = read /\ v.write = write
      /\ v.dirty = s.dirty /\ v.q = s.q
  <2>1. v \in States
    BY <1>v DEF States, ReadStates, WriteStates
  <2>2. Frame(s, v)
    BY <1>v DEF States, Frame
  <2>3. v.read = read /\ v.write = write /\ v.dirty = s.dirty /\ v.q = s.q
    BY <1>v DEF States
  <2> QED BY <2>1, <2>2, <2>3
<1>u. PICK u : u = IF read # s.read \/ write # s.write THEN RequestSort(v) ELSE v
  OBVIOUS
<1>2. /\ u \in States /\ Frame(v, u) /\ u.read = read /\ u.write = write
      /\ Kept(s.q, u.q) /\ SameAllocs(s.q, u.q)
      /\ read # s.read \/ write # s.write => u.dirty /\ (s.dirty \/ CountOf(u.q, Sorts) # 0)
      /\ read = s.read /\ write = s.write => u.dirty = s.dirty
  <2>1. CASE read # s.read \/ write # s.write
    <3>1. u = RequestSort(v)
      BY <1>u, <2>1
    <3>2. /\ u \in States /\ Frame(v, u) /\ u.read = v.read /\ u.write = v.write
          /\ u.dirty /\ Kept(v.q, u.q) /\ SameAllocs(v.q, u.q)
          /\ v.dirty \/ CountOf(u.q, Sorts) # 0
      BY <1>1, <3>1, RequestSortIs
    <3> QED BY <1>1, <2>1, <3>2
  <2>2. CASE ~(read # s.read \/ write # s.write)
    <3>1. u = v
      BY <1>u, <2>2
    <3>2. Frame(v, u) /\ Kept(s.q, u.q) /\ SameAllocs(s.q, u.q)
      BY <1>1, <3>1 DEF Frame, Kept, SameAllocs
    <3> QED BY <1>1, <2>2, <3>1, <3>2
  <2> QED BY <2>1, <2>2
<1>d. PICK D : D = CheckTimeout(s, v)
  OBVIOUS
<1>3. t = IF D = {} THEN u ELSE Post(u, DeleteMsg(D))
  BY <1>v, <1>u, <1>d DEF SetStates
<1>4. D \in SUBSET Conns /\ \A c \in Doomed(v) : c \in Doomed(s) \/ c \in D
  BY <1>d, <1>1 DEF CheckTimeout, Doomed, States
<1>5. CASE D = {}
  <2>1. t = u
    BY <1>3, <1>5
  <2>2. Doomed(u) = Doomed(v)
    BY <1>1, <1>2 DEF Doomed, Frame
  <2>3. Frame(s, t)
    BY <1>1, <1>2, <2>1 DEF Frame
  <2> QED BY <1>2, <1>4, <1>5, <2>1, <2>2, <2>3 DEF StatesSet
<1>6. CASE D # {}
  <2>m. PICK m : m = DeleteMsg(D)
    OBVIOUS
  <2>1. m \in Sent /\ m.id = "DELETE" /\ m.conns = D /\ m.id # "ALLOCATE"
    BY <1>4, <2>m, MessagesSent
  <2>q. PICK q, p : p = u.q /\ q = Append(p, m)
    OBVIOUS
  <2>2. p \in Seq(Sent)
    BY <1>2, <2>q DEF Kept
  <2>3. /\ Kept(p, q) /\ CountOf(q, Allocs) = CountOf(p, Allocs) + 0
        /\ \A c \in D : CountOf(q, Deletes(c)) # 0
    BY <2>1, <2>2, <2>q, Posted
  <2>4. t = [u EXCEPT !.q = q]
    BY <1>3, <1>6, <2>m, <2>q DEF Post
  <2>5. /\ t \in States /\ Frame(u, t) /\ t.read = read /\ t.write = write
        /\ t.dirty = u.dirty /\ t.q = q
    <3>1. q \in Seq(Messages)
      BY <2>3 DEF Kept, Sent
    <3> QED BY <1>2, <2>4, <3>1, NewQueue
  <2>6. Frame(s, t)
    BY <1>1, <1>2, <2>5 DEF Frame
  <2>7. Kept(s.q, t.q)
    BY <1>2, <2>q, <2>3, <2>5 DEF Kept
  <2>8. SameAllocs(s.q, t.q)
    <3>1. CountOf(p, Allocs) \in Nat
      BY <2>2, CountsTyped
    <3> QED BY <1>2, <2>q, <2>3, <2>5, <3>1 DEF SameAllocs
  <2>9. \A c \in Doomed(t) : c \in Doomed(s) \/ CountOf(t.q, Deletes(c)) # 0
    <3>1. Doomed(t) = Doomed(v)
      BY <1>1, <2>5, <2>6 DEF Doomed, Frame
    <3> QED BY <1>4, <2>3, <2>5, <3>1
  <2>10. CountOf(u.q, Sorts) # 0 => CountOf(t.q, Sorts) # 0
    BY <2>q, <2>3, <2>5 DEF Kept
  <2> QED BY <1>2, <2>5, <2>6, <2>7, <2>8, <2>9, <2>10 DEF StatesSet
<1> QED BY <1>5, <1>6

\* They keep the invariants.
LEMMA StatesSetInv ==
    ASSUME NEW s, NEW t, NEW read, NEW write, StatesSet(s, t, read, write),
           Shape(s), \A c \in Conns \ s.conns : read[c] = "TIMEOUT" /\ write[c] = "CONNECT"
    PROVE  /\ Shape(t)
           /\ AllocInv(s) => AllocInv(t)
           /\ DoomedInv(s) => DoomedInv(t)
           /\ SortInv(s) => SortInv(t)
           /\ ~s.dirty => DirtyInv(t)
<1>0. /\ Kept(s.q, t.q) /\ SameAllocs(s.q, t.q) /\ t \in States /\ s \in States
      /\ t.read = read /\ t.write = write
  BY DEF StatesSet, Shape
<1>f. /\ t.conns = s.conns /\ t.best = s.best /\ t.writable = s.writable
      /\ t.wasWritable = s.wasWritable /\ t.wasTimedOut = s.wasTimedOut
      /\ t.waiting = s.waiting /\ t.asked = s.asked /\ t.left = s.left
      /\ t.delayed = s.delayed /\ t.ping = s.ping /\ t.ok = s.ok
  BY DEF StatesSet, Frame
<1>1. Shape(t)
  BY <1>0, <1>f DEF Shape, Kept
<1>2. AllocInv(s) => AllocInv(t)
  BY <1>0, <1>f DEF AllocInv, AllocBut, Kept, SameAllocs
<1>3. DoomedInv(s) => DoomedInv(t)
  BY <1>0 DEF DoomedInv, StatesSet, Kept
<1>4. CASE read = s.read /\ write = s.write
  <2>1. t.dirty = s.dirty /\ t.read = s.read /\ t.write = s.write
    BY <1>0, <1>4 DEF StatesSet
  <2>2. BestIsBest(s) => BestIsBest(t)
    BY <1>f, <2>1 DEF BestIsBest, WritableConns, Prefers
  <2> QED BY <1>0, <1>1, <1>2, <1>3, <2>1, <2>2 DEF SortInv, DirtyInv, Kept
<1>5. CASE read # s.read \/ write # s.write
  <2>1. t.dirty /\ (s.dirty \/ CountOf(t.q, Sorts) # 0)
    BY <1>5 DEF StatesSet
  <2> QED BY <1>0, <1>1, <1>2, <1>3, <2>1 DEF SortInv, DirtyInv, Kept
<1> QED BY <1>4, <1>5

-----------------------------------------------------------------------------
(* Allocation.                                                             *)

\* The queue without its MSG_ALLOCATEs.
LEMMA CancelledQueue ==
    ASSUME NEW q \in Seq(Sent),
           NEW p, p = [i \in DOMAIN q |-> IF q[i] = AllocateMsg THEN NullMsg ELSE q[i]]
    PROVE  Kept(q, p) /\ CountOf(p, Allocs) = 0
<1>a. PICK a, n : a = AllocateMsg /\ n = NullMsg
  OBVIOUS
<1>0. a \in Sent /\ n \in Sent /\ a.id = "ALLOCATE" /\ n.id = "NULL"
  BY <1>a, MessagesSent
<1>1. Len(q) \in Nat /\ DOMAIN q = 1 .. Len(q) /\ \A i \in DOMAIN q : q[i] \in Sent
  OBVIOUS
<1>2. /\ DOMAIN p = DOMAIN q
      /\ \A i \in DOMAIN q : p[i] = IF q[i] = a THEN n ELSE q[i]
  BY <1>a
<1>3. p \in Seq(Sent)
  <2>1. p \in [1 .. Len(q) -> Sent]
    BY <1>a, <1>0, <1>1
  <2> QED BY <1>1, <2>1
<1>4. ASSUME NEW P, a \notin P, n \notin P PROVE CountOf(p, P) = CountOf(q, P)
  <2>1. \A i \in DOMAIN q : p[i] \in P <=> q[i] \in P
    BY <1>2, <1>4
  <2>2. Places(p, P) = Places(q, P)
    BY <1>2, <2>1 DEF Places
  <2> QED BY <2>2 DEF CountOf
<1>5. /\ a \notin Sorts /\ n \notin Sorts /\ a \notin Readies /\ n \notin Readies
      /\ \A c : a \notin Deletes(c) /\ n \notin Deletes(c)
  BY <1>0 DEF Sorts, Readies, Deletes
<1>6. Kept(q, p)
  BY <1>3, <1>4, <1>5 DEF Kept
<1>7. \A i \in DOMAIN p : p[i] \notin Allocs
  <2> TAKE i \in DOMAIN p
  <2>1. q[i] \in Sent
    BY <1>1, <1>2
  <2>2. CASE q[i] = a
    BY <1>0, <1>2, <2>2 DEF Allocs
  <2>3. CASE q[i] # a
    <3>1. q[i].id # "ALLOCATE"
      BY <1>a, <2>1, <2>3 DEF AllocateMsg, Msg, Sent, Messages
    <3> QED BY <1>2, <2>3, <3>1 DEF Allocs
  <2> QED BY <2>2, <2>3
<1> QED BY <1>3, <1>6, <1>7, CountZero

\* The members that are about connections, and those about allocation.
ConnFields(s, t) ==
    /\ t.conns = s.conns /\ t.read = s.read /\ t.write = s.write
    /\ t.best = s.best /\ t.dirty = s.dirty /\ t.ok = s.ok

AllocFields(s, t) ==
    /\ t.writable = s.writable /\ t.wasWritable = s.wasWritable
    /\ t.wasTimedOut = s.wasTimedOut /\ t.waiting = s.waiting /\ t.asked = s.asked
    /\ t.left = s.left /\ t.delayed = s.delayed /\ t.ping = s.ping

\* Only the number of delayed MSG_ALLOCATEs changes.
LEMMA NewDelayed ==
    ASSUME NEW s \in States, NEW n \in Nat, NEW t, t = [s EXCEPT !.delayed = n]
    PROVE  /\ t \in States /\ ConnFields(s, t) /\ t.q = s.q /\ t.delayed = n
           /\ t.writable = s.writable /\ t.wasWritable = s.wasWritable
           /\ t.wasTimedOut = s.wasTimedOut /\ t.waiting = s.waiting /\ t.asked = s.asked
           /\ t.left = s.left /\ t.ping = s.ping
<1>1. t \in States
  BY DEF States
<1>2. ConnFields(s, t)
  BY DEF States, ConnFields
<1> QED BY <1>1, <1>2 DEF States

Asked(s, t, w, n) ==
    /\ t.delayed = s.delayed /\ t.writable = s.writable /\ t.wasWritable = s.wasWritable
    /\ t.wasTimedOut = s.wasTimedOut /\ t.waiting = w /\ t.asked = n
    /\ t.left = s.left /\ t.ping = s.ping

\* Only the request for signaling changes.
LEMMA NewWaiting ==
    ASSUME NEW s \in States, NEW w \in BOOLEAN, NEW n \in 0 .. MaxAnswers,
           NEW t, t = [s EXCEPT !.waiting = w, !.asked = n]
    PROVE  t \in States /\ ConnFields(s, t) /\ t.q = s.q /\ Asked(s, t, w, n)
<1>1. t \in States
  BY ZenonT(60) DEF States
<1>2. ConnFields(s, t)
  BY DEF States, ConnFields
<1> QED BY <1>1, <1>2, ZenonT(60) DEF States, Asked

Flagged(s, t, a, b, c) ==
    /\ t \in States /\ ConnFields(s, t) /\ t.q = s.q
    /\ t.wasWritable = a /\ t.wasTimedOut = b /\ t.writable = c
    /\ t.delayed = s.delayed /\ t.waiting = s.waiting /\ t.asked = s.asked
    /\ t.left = s.left /\ t.ping = s.ping

\* Only the channel's own state changes.
LEMMA NewFlags ==
    ASSUME NEW s \in States, NEW a \in BOOLEAN, NEW b \in BOOLEAN, NEW c \in BOOLEAN,
           NEW t, t = [s EXCEPT !.wasWritable = a, !.wasTimedOut = b, !.writable = c]
    PROVE  Flagged(s, t, a, b, c)
<1>1. t \in States
  <2>u. PICK u : u = [s EXCEPT !.wasWritable = a]
    OBVIOUS
  <2>1. u \in States
    BY <2>u DEF States
  <2>v. PICK v : v = [u EXCEPT !.wasTimedOut = b]
    OBVIOUS
  <2>2. v \in States
    BY <2>1, <2>v DEF States
  <2>3. t = [v EXCEPT !.writable = c]
    BY <2>u, <2>v
  <2> QED BY <2>2, <2>3, ZenonT(60) DEF States
<1>2. ConnFields(s, t)
  BY DEF States, ConnFields
<1> QED BY <1>1, <1>2, ZenonT(60) DEF States, Flagged

\* CancelPendingAllocate.
LEMMA CancelIs ==
    ASSUME NEW s \in States, s.q \in Seq(Sent), NEW t, t = CancelPendingAllocate(s)
    PROVE  /\ t \in States /\ ConnFields(s, t) /\ Kept(s.q, t.q)
           /\ CountOf(t.q, Allocs) = 0 /\ t.delayed = 0
           /\ t.writable = s.writable /\ t.wasWritable = s.wasWritable
           /\ t.wasTimedOut = s.wasTimedOut /\ t.waiting = s.waiting
           /\ t.asked = s.asked /\ t.left = s.left /\ t.ping = s.ping
<1>q. PICK q, o : o = s.q /\ q = [i \in DOMAIN o |-> IF o[i] = AllocateMsg THEN NullMsg
                                                                         ELSE o[i]]
  OBVIOUS
<1>1. Kept(s.q, q) /\ CountOf(q, Allocs) = 0
  BY <1>q, CancelledQueue
<1>2. t = [s EXCEPT !.delayed = 0, !.q = q]
  BY <1>q DEF CancelPendingAllocate
<1>3. q \in Seq(Messages)
  BY <1>1 DEF Kept, Sent
<1>n. PICK n \in Nat : n = 0
  OBVIOUS
<1>u. PICK u : u = [s EXCEPT !.delayed = n]
  OBVIOUS
<1>4. /\ u \in States /\ ConnFields(s, u) /\ u.q = s.q /\ u.delayed = n
      /\ u.writable = s.writable /\ u.wasWritable = s.wasWritable
      /\ u.wasTimedOut = s.wasTimedOut /\ u.waiting = s.waiting /\ u.asked = s.asked
      /\ u.left = s.left /\ u.ping = s.ping
  BY <1>u, NewDelayed
<1>5. t = [u EXCEPT !.q = q]
  BY <1>2, <1>n, <1>u
<1>6. /\ t \in States /\ Frame(u, t) /\ t.read = u.read /\ t.write = u.write
      /\ t.dirty = u.dirty /\ t.q = q
  BY <1>3, <1>4, <1>5, NewQueue
<1>7. ConnFields(s, t)
  BY <1>4, <1>6 DEF Frame, ConnFields
<1> QED BY <1>n, <1>1, <1>4, <1>6, <1>7 DEF Frame

\* What Allocate leaves: nothing scheduled, and an answer to come.
Requested(s, t) ==
    /\ t \in States /\ ConnFields(s, t) /\ Kept(s.q, t.q)
    /\ CountOf(t.q, Allocs) = 0 /\ t.delayed = 0 /\ t.waiting
    /\ t.writable = s.writable /\ t.wasWritable = s.wasWritable
    /\ t.wasTimedOut = s.wasTimedOut /\ t.ping = s.ping
    /\ t.asked <= t.left /\ (t.asked > 0 \/ t.left = 0)

\* That is what Allocate does.
LEMMA AllocateIs ==
    ASSUME NEW s \in States, s.q \in Seq(Sent), s.asked <= s.left, NEW t, t = Allocate(s)
    PROVE  Requested(s, t)
<1>u. PICK u : u = CancelPendingAllocate(s)
  OBVIOUS
<1>1. /\ u \in States /\ ConnFields(s, u) /\ Kept(s.q, u.q)
      /\ CountOf(u.q, Allocs) = 0 /\ u.delayed = 0
      /\ u.writable = s.writable /\ u.wasWritable = s.wasWritable
      /\ u.wasTimedOut = s.wasTimedOut /\ u.waiting = s.waiting
      /\ u.asked = s.asked /\ u.left = s.left /\ u.ping = s.ping
  BY <1>u, CancelIs
<1>0. s.asked \in 0 .. MaxAnswers /\ s.left \in 0 .. MaxAnswers
  BY DEF States
<1>n. PICK n : n = IF s.asked < s.left THEN s.asked + 1 ELSE s.asked
  OBVIOUS
<1>2. n \in 0 .. MaxAnswers /\ n <= s.left /\ (n > 0 \/ s.left = 0)
  BY <1>0, <1>n, ChannelAssumption
<1>w. PICK w \in BOOLEAN : w = TRUE
  OBVIOUS
<1>3. t = [u EXCEPT !.waiting = w, !.asked = n]
  <2>1. t = [u EXCEPT !.waiting = TRUE, !.asked = IF @ < s.left THEN @ + 1 ELSE @]
    BY <1>u DEF Allocate
  <2>2. t = [u EXCEPT !.waiting = TRUE,
                      !.asked = IF u.asked < s.left THEN u.asked + 1 ELSE u.asked]
    BY <1>1, <2>1 DEF States
  <2> QED BY <1>n, <1>w, <1>1, <2>2
<1>4. t \in States /\ ConnFields(u, t) /\ t.q = u.q /\ Asked(u, t, w, n)
  <2>1. u \in States /\ w \in BOOLEAN /\ n \in 0 .. MaxAnswers
    BY <1>1, <1>2
  <2> QED BY <1>3, <2>1, NewWaiting
<1>5. ConnFields(s, t)
  BY <1>1, <1>4 DEF ConnFields
<1> QED BY <1>w, <1>1, <1>2, <1>4, <1>5 DEF Requested, Asked

\* What does not touch the connections keeps what is said of them.
LEMMA ConnKept ==
    ASSUME NEW s, NEW t \in States, Shape(s), ConnFields(s, t), Kept(s.q, t.q),
           t.asked <= t.left
    PROVE  /\ Shape(t)
           /\ DoomedInv(s) => DoomedInv(t)
           /\ DirtyInv(s) => DirtyInv(t)
           /\ (\A c \in s.conns : ~Prefers(s, c, s.best)) =>
                 \A c \in t.conns : ~Prefers(t, c, t.best)
           /\ WritableConns(t) = WritableConns(s)
           /\ SortInv(s) /\ t.writable = s.writable => SortInv(t)
<1>1. Shape(t)
  BY DEF Shape, ConnFields, Kept
<1>2. DoomedInv(s) => DoomedInv(t)
  BY DEF DoomedInv, Doomed, ConnFields, Kept
<1>3. DirtyInv(s) => DirtyInv(t)
  BY DEF DirtyInv, ConnFields, Kept
<1>4. (\A c \in s.conns : ~Prefers(s, c, s.best)) =>
         \A c \in t.conns : ~Prefers(t, c, t.best)
  BY DEF ConnFields, Prefers
<1>5. WritableConns(t) = WritableConns(s)
  BY DEF ConnFields, WritableConns
<1>6. SortInv(s) /\ t.writable = s.writable => SortInv(t)
  BY <1>3, <1>4, <1>5 DEF SortInv, BestIsBest, ConnFields, Kept
<1> QED BY <1>1, <1>2, <1>3, <1>4, <1>5, <1>6

\* What does not touch allocation keeps what is said of it.
LEMMA AllocKept ==
    ASSUME NEW s, NEW t, AllocInv(s), AllocFields(s, t), Kept(s.q, t.q),
           SameAllocs(s.q, t.q)
    PROVE  AllocInv(t)
BY DEF AllocInv, AllocBut, AllocFields, Kept, SameAllocs

-----------------------------------------------------------------------------
(* The state of the channel.                                               *)

\* What HandleWritable, HandleNotWritable and HandleAllTimedOut leave, where
\* w says whether the channel is writable.
Handled(s, t, w) ==
    /\ t \in States /\ ConnFields(s, t) /\ Kept(s.q, t.q) /\ t.asked <= t.left
    /\ t.writable = w /\ t.ping = s.ping /\ AllocInv(t)

\* Allocation is as it must be when the channel is writable, or not.
Settled(u, a, b) ==
    /\ b => ~a
    /\ u.asked <= u.left
    /\ u.delayed + CountOf(u.q, Allocs) <= 1
    /\ u.waiting => u.delayed + CountOf(u.q, Allocs) = 0
    /\ ~a /\ u.ping # "off" => u.waiting \/ u.delayed + CountOf(u.q, Allocs) = 1
    /\ u.waiting => u.asked > 0 \/ u.left = 0 \/ CountOf(u.q, Readies) # 0

\* Setting the flags after u, which is s or s after Allocate or its opposite.
LEMMA FlagsSet ==
    ASSUME NEW s, NEW u \in States, ConnFields(s, u), Kept(s.q, u.q), u.ping = s.ping,
           NEW a \in BOOLEAN, NEW b \in BOOLEAN, NEW t,
           t = [u EXCEPT !.wasWritable = a, !.wasTimedOut = b, !.writable = a], Settled(u, a, b)
    PROVE  Handled(s, t, a)
<1>1. Flagged(u, t, a, b, a)
  BY NewFlags
<1>2. ConnFields(s, t)
  BY <1>1 DEF ConnFields, Flagged
<1>3. AllocInv(t)
  BY <1>1 DEF AllocInv, AllocBut, Flagged, Settled
<1> QED BY <1>1, <1>2, <1>3 DEF Handled, Flagged, Settled

\* HandleWritable, HandleNotWritable and HandleAllTimedOut.
LEMMA Handlers ==
    ASSUME NEW s \in States, s.q \in Seq(Sent), s.asked <= s.left, AllocInv(s)
    PROVE  /\ Handled(s, HandleWritable(s), TRUE)
           /\ Handled(s, HandleNotWritable(s), FALSE)
           /\ Handled(s, HandleAllTimedOut(s), FALSE)
<1>b. PICK y \in BOOLEAN, n \in BOOLEAN : y = TRUE /\ n = FALSE
  OBVIOUS
<1>0. /\ s.wasWritable \in BOOLEAN /\ s.writable \in BOOLEAN /\ s.wasTimedOut \in BOOLEAN
      /\ ConnFields(s, s) /\ Kept(s.q, s.q)
  BY DEF States, ConnFields, Kept
<1>1. /\ s.wasWritable <=> s.writable
      /\ s.wasTimedOut => ~s.writable
      /\ s.delayed + CountOf(s.q, Allocs) <= 1
      /\ s.waiting => s.delayed + CountOf(s.q, Allocs) = 0
      /\ s.ping # "off" /\ ~s.writable => s.waiting \/ s.delayed + CountOf(s.q, Allocs) = 1
      /\ s.waiting => s.asked > 0 \/ s.left = 0 \/ CountOf(s.q, Readies) # 0
  BY DEF AllocInv, AllocBut
<1>2. Handled(s, HandleWritable(s), TRUE)
  <2>u. PICK u : u = IF s.writable THEN s ELSE CancelPendingAllocate(s)
    OBVIOUS
  <2>t. PICK t : t = [u EXCEPT !.wasWritable = y, !.wasTimedOut = n, !.writable = y]
    OBVIOUS
  <2>1. t = HandleWritable(s)
    BY <1>b, <2>u, <2>t DEF HandleWritable
  <2>2. Handled(s, t, y)
    <3>1. CASE s.writable
      <4>1. u = s
        BY <2>u, <3>1
      <4> QED BY <1>b, <1>0, <1>1, <2>t, <4>1, FlagsSet DEF Settled
    <3>2. CASE ~s.writable
      <4>1. u = CancelPendingAllocate(s)
        BY <2>u, <3>2
      <4>2. /\ u \in States /\ ConnFields(s, u) /\ Kept(s.q, u.q)
            /\ CountOf(u.q, Allocs) = 0 /\ u.delayed = 0
            /\ u.writable = s.writable /\ u.wasWritable = s.wasWritable
            /\ u.wasTimedOut = s.wasTimedOut /\ u.waiting = s.waiting
            /\ u.asked = s.asked /\ u.left = s.left /\ u.ping = s.ping
        BY <4>1, CancelIs
      <4>3. /\ u.delayed + CountOf(u.q, Allocs) <= 1
            /\ u.waiting => u.delayed + CountOf(u.q, Allocs) = 0
            /\ u.waiting => u.asked > 0 \/ u.left = 0 \/ CountOf(u.q, Readies) # 0
            /\ u.asked <= u.left
        BY <1>1, <4>2 DEF Kept
      <4>4. u \in States /\ ConnFields(s, u) /\ Kept(s.q, u.q) /\ u.ping = s.ping
        BY <4>2
      <4> QED BY <1>b, <2>t, <4>3, <4>4, FlagsSet DEF Settled
    <3> QED BY <3>1, <3>2
  <2> QED BY <1>b, <2>1, <2>2
<1>3. Handled(s, HandleNotWritable(s), FALSE)
  <2>u. PICK u : u = IF s.wasWritable THEN Allocate(s) ELSE s
    OBVIOUS
  <2>t. PICK t : t = [u EXCEPT !.wasWritable = n, !.wasTimedOut = n, !.writable = n]
    OBVIOUS
  <2>1. t = HandleNotWritable(s)
    BY <1>b, <2>u, <2>t DEF HandleNotWritable
  <2>2. Handled(s, t, n)
    <3>1. CASE ~s.wasWritable
      <4>1. u = s
        BY <2>u, <3>1
      <4> QED BY <1>b, <1>0, <1>1, <2>t, <3>1, <4>1, FlagsSet DEF Settled
    <3>2. CASE s.wasWritable
      <4>1. u = Allocate(s)
        BY <2>u, <3>2
      <4>2. Requested(s, u)
        BY <4>1, AllocateIs
      <4>3. /\ u.delayed + CountOf(u.q, Allocs) <= 1
            /\ u.waiting /\ u.delayed + CountOf(u.q, Allocs) = 0
            /\ u.asked > 0 \/ u.left = 0
            /\ u.asked <= u.left
        BY <4>2 DEF Requested
      <4>4. u \in States /\ ConnFields(s, u) /\ Kept(s.q, u.q) /\ u.ping = s.ping
        BY <4>2 DEF Requested
      <4> QED BY <1>b, <2>t, <4>3, <4>4, FlagsSet DEF Settled
    <3> QED BY <3>1, <3>2
  <2> QED BY <1>b, <2>1, <2>2
<1>4. Handled(s, HandleAllTimedOut(s), FALSE)
  <2>u. PICK u : u = IF s.wasTimedOut THEN s ELSE Allocate(s)
    OBVIOUS
  <2>t. PICK t : t = [u EXCEPT !.wasWritable = n, !.wasTimedOut = y, !.writable = n]
    OBVIOUS
  <2>1. t = HandleAllTimedOut(s)
    BY <1>b, <2>u, <2>t DEF HandleAllTimedOut
  <2>2. Handled(s, t, n)
    <3>1. CASE s.wasTimedOut
      <4>1. u = s
        BY <2>u, <3>1
      <4> QED BY <1>b, <1>0, <1>1, <2>t, <3>1, <4>1, FlagsSet DEF Settled
    <3>2. CASE ~s.wasTimedOut
      <4>1. u = Allocate(s)
        BY <2>u, <3>2
      <4>2. Requested(s, u)
        BY <4>1, AllocateIs
      <4>3. /\ u.delayed + CountOf(u.q, Allocs) <= 1
            /\ u.waiting /\ u.delayed + CountOf(u.q, Allocs) = 0
            /\ u.asked > 0 \/ u.left = 0
            /\ u.asked <= u.left
        BY <4>2 DEF Requested
      <4>4. u \in States /\ ConnFields(s, u) /\ Kept(s.q, u.q) /\ u.ping = s.ping
        BY <4>2 DEF Requested
      <4> QED BY <1>b, <2>t, <4>3, <4>4, FlagsSet DEF Settled
    <3> QED BY <3>1, <3>2
  <2> QED BY <1>b, <2>1, <2>2
<1> QED BY <1>2, <1>3, <1>4

\* The channel is writable exactly when some connection is.
LEMMA HandleStatesIs ==
    ASSUME NEW s \in States, s.q \in Seq(Sent), s.asked <= s.left, AllocInv(s),
           NEW t, t = HandleStates(s)
    PROVE  Handled(s, t, t.writable) /\ (t.writable <=> WritableConns(s) # {})
<1>1. CASE WritableConns(s) # {}
  <2>1. t = HandleWritable(s)
    BY <1>1 DEF HandleStates
  <2> QED BY <1>1, <2>1, Handlers DEF Handled
<1>2. CASE WritableConns(s) = {}
  <2>1. t = HandleNotWritable(s) \/ t = HandleAllTimedOut(s)
    BY <1>2 DEF HandleStates
  <2> QED BY <1>2, <2>1, Handlers DEF Handled
<1> QED BY <1>1, <1>2

\* A change of none of the members that the invariants are about.
Plain(s, t) == t \in States /\ ConnFields(s, t) /\ AllocFields(s, t) /\ t.q = s.q

\* It keeps them.
LEMMA PlainKeeps ==
    ASSUME NEW s, NEW t, Plain(s, t)
    PROVE  (Sound(s) => Sound(t)) /\ (Good(s) => Good(t))
<1>1. SUFFICES ASSUME Sound(s) PROVE Sound(t) /\ (SortInv(s) => SortInv(t))
  BY DEF Good
<1>2. Shape(s) /\ AllocInv(s) /\ DoomedInv(s)
  BY <1>1 DEF Sound
<1>3. t \in States /\ ConnFields(s, t) /\ AllocFields(s, t) /\ t.q = s.q
  BY DEF Plain
<1>4. Kept(s.q, t.q) /\ SameAllocs(s.q, t.q)
  BY <1>2, <1>3 DEF Shape, Kept, SameAllocs
<1>5. t.asked <= t.left /\ t.writable = s.writable /\ t.ping # "off"
  BY <1>1, <1>2, <1>3 DEF Shape, AllocFields, Sound
<1>6. /\ Shape(t)
      /\ DoomedInv(s) => DoomedInv(t)
      /\ SortInv(s) /\ t.writable = s.writable => SortInv(t)
  BY <1>2, <1>3, <1>4, <1>5, ConnKept
<1>7. AllocInv(t)
  BY <1>2, <1>3, <1>4, AllocKept
<1> QED BY <1>2, <1>5, <1>6, <1>7 DEF Sound

\* f with the value v on S.
LEMMA PutIs ==
    ASSUME NEW A, NEW T, NEW f \in [A -> T], NEW S, NEW v \in T, NEW g, g = Put(f, S, v)
    PROVE  g \in [A -> T] /\ \A x \in A : g[x] = IF x \in S THEN v ELSE f[x]
BY DEF Put

\* What Connection::UpdateState finds keeps everything.
LEMMA Updated ==
    ASSUME NEW s, NEW t \in UpdateConnectionStates(s), Sound(s)
    PROVE  Sound(t) /\ (SortInv(s) => SortInv(t))
<1>1. PICK o \in Timeouts(s) :
        t = SetStates(s, Put(s.read, o.read, "TIMEOUT"),
                         Put(Put(s.write, o.weak, "CONNECT"), o.lost, "TIMEOUT"))
  BY DEF UpdateConnectionStates
<1>o. PICK A, B, C : A = o.read /\ B = o.weak /\ C = o.lost
  OBVIOUS
<1>2. A \in SUBSET s.conns /\ B \in SUBSET s.conns /\ C \in SUBSET s.conns
  BY <1>o DEF Timeouts, ReadableConns, WritableConns
<1>3. Shape(s) /\ AllocInv(s) /\ DoomedInv(s) /\ s \in States /\ s.q \in Seq(Sent)
  BY DEF Sound, Shape
<1>4. /\ s.read \in ReadStates /\ s.write \in WriteStates /\ s.conns \in SUBSET Conns
      /\ \A c \in Conns \ s.conns : s.read[c] = "TIMEOUT" /\ s.write[c] = "CONNECT"
  BY <1>3 DEF Shape, States, ReadStates, WriteStates
<1>r. PICK read : read = Put(s.read, A, "TIMEOUT")
  OBVIOUS
<1>w. PICK weak : weak = Put(s.write, B, "CONNECT")
  OBVIOUS
<1>v. PICK write : write = Put(weak, C, "TIMEOUT")
  OBVIOUS
<1>5. read \in ReadStates /\ \A c \in Conns : read[c] = IF c \in A THEN "TIMEOUT" ELSE s.read[c]
  BY <1>r, <1>4 DEF Put, ReadStates
<1>6. weak \in WriteStates /\ \A c \in Conns : weak[c] = IF c \in B THEN "CONNECT" ELSE s.write[c]
  BY <1>w, <1>4 DEF Put, WriteStates
<1>7. write \in WriteStates /\ \A c \in Conns : write[c] = IF c \in C THEN "TIMEOUT" ELSE weak[c]
  BY <1>v, <1>6 DEF Put, WriteStates
<1>8. \A c \in Conns \ s.conns : read[c] = "TIMEOUT" /\ write[c] = "CONNECT"
  BY <1>2, <1>4, <1>5, <1>6, <1>7
<1>9. t = SetStates(s, read, write)
  BY <1>1, <1>o, <1>r, <1>w, <1>v
<1>10. StatesSet(s, t, read, write)
  BY <1>3, <1>5, <1>7, <1>9, SetStatesIs
<1>11. /\ Shape(t)
       /\ AllocInv(s) => AllocInv(t)
       /\ DoomedInv(s) => DoomedInv(t)
       /\ SortInv(s) => SortInv(t)
  BY <1>3, <1>8, <1>10, StatesSetInv
<1> QED BY <1>3, <1>10, <1>11 DEF Sound, StatesSet, Frame

-----------------------------------------------------------------------------
(* SortConnections.                                                        *)

\* The best connection is none only if there is no connection, and nothing
\* is preferred to it.
BestChosen(s) ==
    s.conns # {} => s.best # None /\ \A c \in s.conns : ~Prefers(s, c, s.best)

Bested(s, t, d, b) ==
    /\ t \in States /\ AllocFields(s, t) /\ t.q = s.q
    /\ t.conns = s.conns /\ t.read = s.read /\ t.write = s.write /\ t.ok = s.ok
    /\ t.rtt = s.rtt /\ t.pruned = s.pruned
    /\ t.best = b /\ t.dirty = d

\* Only the choice changes.
LEMMA NewBest ==
    ASSUME NEW s \in States, NEW d \in BOOLEAN, NEW b \in Conns \cup {None},
           NEW t, t = [s EXCEPT !.dirty = d, !.best = b]
    PROVE  Bested(s, t, d, b)
<1>1. t \in States
  BY ZenonT(60) DEF States
<1>2. AllocFields(s, t)
  BY DEF States, AllocFields
<1> QED BY <1>1, <1>2, ZenonT(60) DEF States, Bested

\* Only what Prune leaves in the connection changes.
LEMMA NewPruned ==
    ASSUME NEW s \in States, NEW p \in [Conns -> BOOLEAN],
           NEW r \in [Conns -> 0 .. MaxRequests],
           NEW t, t = [s EXCEPT !.pruned = p, !.reqs = r]
    PROVE  Plain(s, t)
<1>1. t \in States
  BY DEF States
<1>2. AllocFields(s, t)
  BY DEF States, AllocFields
<1>3. ConnFields(s, t)
  BY DEF States, ConnFields
<1> QED BY <1>1, <1>2, <1>3 DEF States, Plain

\* Connections that lose by a timeout do not become preferred.
LEMMA StillBest ==
    ASSUME NEW s \in States, NEW t \in States, NEW P \in SUBSET Conns,
           t.conns = s.conns, t.best = s.best, s.best \in s.conns, s.best \notin P,
           \A c \in Conns : t.write[c] = IF c \in P THEN "TIMEOUT" ELSE s.write[c],
           NEW c \in s.conns, ~Prefers(s, c, s.best)
    PROVE  ~Prefers(t, c, t.best)
<1>b. PICK b : b = s.best
  OBVIOUS
<1>1. b \in Conns /\ c \in Conns /\ b \notin P
  BY <1>b DEF States
<1>2. t.write[b] = s.write[b] /\ (c \notin P => t.write[c] = s.write[c])
      /\ (c \in P => t.write[c] = "TIMEOUT")
  BY <1>1
<1>3. /\ s.write[b] \in {"WRITABLE", "CONNECT", "TIMEOUT"}
      /\ s.write[c] \in {"WRITABLE", "CONNECT", "TIMEOUT"}
  BY <1>1 DEF States
<1>4. ~Prefers(s, c, b)
  BY <1>b
<1>5. ~Prefers(t, c, b)
  <2>1. CASE c \notin P
    BY <1>2, <1>4, <2>1 DEF Prefers
  <2>2. CASE c \in P
    <3>w. PICK x, y : x = WriteOrder[s.write[c]] /\ y = WriteOrder[s.write[b]]
      OBVIOUS
    <3>1. ~(x < y) /\ ~(x = y /\ PrefersCandidates(c, b)) /\ x \in 0 .. 2 /\ y \in 0 .. 2
      BY <1>3, <1>4, <3>w, WriteOrders DEF Prefers
    <3>2. ~(2 < y) /\ ~(2 = y /\ PrefersCandidates(c, b))
      BY <3>1
    <3>3. WriteOrder[t.write[c]] = 2 /\ WriteOrder[t.write[b]] = y
      BY <1>2, <2>2, <3>w, WriteOrders
    <3> QED BY <3>2, <3>3 DEF Prefers
  <2> QED BY <2>1, <2>2
<1> QED BY <1>b, <1>5

\* Prune never touches the best connection.
LEMMA PruneIs ==
    ASSUME NEW s, Sound(s), ~s.dirty, BestChosen(s), NEW f, NEW S, S = Prunable(s, f),
           NEW t, t = Prune(s, S)
    PROVE  Sound(t) /\ DirtyInv(t) /\ BestChosen(t)
<1>1. Shape(s) /\ AllocInv(s) /\ DoomedInv(s) /\ s \in States /\ s.q \in Seq(Sent)
  BY DEF Sound, Shape
<1>p. PICK P : P = {c \in S : ~s.pruned[c]}
  OBVIOUS
<1>2. P \in SUBSET s.conns /\ s.conns \in SUBSET Conns
  BY <1>p, <1>1 DEF Prunable, States
<1>3. s.best \notin P
  <2>1. SUFFICES ASSUME s.best \in P PROVE FALSE
    OBVIOUS
  <2>2. s.best # None
    BY <1>2, <2>1, ChannelAssumption DEF Conns
  <2>3. s.best \in S
    BY <1>p, <2>1
  <2>4. GetBestConnectionOnNetwork(s, f, Network(s.best)) # s.best
    BY <2>3 DEF Prunable
  <2> QED BY <2>2, <2>4 DEF GetBestConnectionOnNetwork
<1>4. /\ s.read \in ReadStates /\ s.write \in WriteStates
      /\ s.pruned \in [Conns -> BOOLEAN] /\ s.reqs \in [Conns -> 0 .. MaxRequests]
      /\ \A c \in Conns \ s.conns : s.read[c] = "TIMEOUT" /\ s.write[c] = "CONNECT"
  BY <1>1 DEF Shape, States, ReadStates, WriteStates
<1>q. PICK p, r, w : /\ p = Put(s.pruned, P, TRUE)
                     /\ r = Put(s.reqs, P, 0)
                     /\ w = Put(s.write, P, "TIMEOUT")
  OBVIOUS
<1>5. p \in [Conns -> BOOLEAN]
  BY <1>q, <1>4 DEF Put
<1>6. r \in [Conns -> 0 .. MaxRequests]
  BY <1>q, <1>4, ChannelAssumption DEF Put
<1>7. w \in WriteStates /\ \A c \in Conns : w[c] = IF c \in P THEN "TIMEOUT" ELSE s.write[c]
  BY <1>q, <1>4 DEF Put, WriteStates
<1>u. PICK u : u = [s EXCEPT !.pruned = p, !.reqs = r]
  OBVIOUS
<1>8. Plain(s, u)
  BY <1>u, <1>1, <1>5, <1>6, NewPruned
<1>9. t = SetStates(u, s.read, w)
  BY <1>p, <1>q, <1>u DEF Prune
<1>10. /\ Sound(u) /\ u.conns = s.conns /\ u.best = s.best /\ u.dirty = s.dirty
       /\ u \in States
  <2>1. Sound(u)
    BY <1>8, PlainKeeps
  <2> QED BY <1>8, <2>1 DEF Plain, ConnFields
<1>11. Shape(u) /\ AllocInv(u) /\ DoomedInv(u) /\ u.q \in Seq(Sent)
  BY <1>10 DEF Sound, Shape
<1>12. StatesSet(u, t, s.read, w)
  BY <1>4, <1>7, <1>9, <1>10, <1>11, SetStatesIs
<1>13. \A c \in Conns \ u.conns : s.read[c] = "TIMEOUT" /\ w[c] = "CONNECT"
  BY <1>2, <1>4, <1>7, <1>10
<1>14. /\ Shape(t)
       /\ AllocInv(u) => AllocInv(t)
       /\ DoomedInv(u) => DoomedInv(t)
       /\ ~u.dirty => DirtyInv(t)
  BY <1>11, <1>12, <1>13, StatesSetInv
<1>15. t.conns = s.conns /\ t.best = s.best /\ t.write = w /\ t \in States
  BY <1>10, <1>12 DEF StatesSet, Frame
<1>16. BestChosen(t)
  <2>1. SUFFICES ASSUME s.conns # {} PROVE t.best # None /\ \A c \in t.conns : ~Prefers(t, c, t.best)
    BY <1>15 DEF BestChosen
  <2>2. s.best # None /\ s.best \in s.conns /\ \A c \in s.conns : ~Prefers(s, c, s.best)
    BY <1>1, <2>1 DEF BestChosen, Shape
  <2>3. \A c \in Conns : t.write[c] = IF c \in P THEN "TIMEOUT" ELSE s.write[c]
    BY <1>7, <1>15
  <2>4. ASSUME NEW c \in s.conns PROVE ~Prefers(t, c, t.best)
    BY <1>1, <1>2, <1>3, <1>15, <2>2, <2>3, StillBest
  <2> QED BY <1>15, <2>2, <2>4
<1>17. t.ping # "off"
  BY <1>10, <1>12 DEF Sound, StatesSet, Frame
<1> QED BY <1>10, <1>11, <1>14, <1>16, <1>17 DEF Sound

Reported(s, t, o) ==
    /\ t \in States /\ AllocFields(s, t) /\ t.q = s.q
    /\ t.conns = s.conns /\ t.read = s.read /\ t.write = s.write /\ t.best = s.best
    /\ t.dirty = s.dirty /\ t.ok = o

\* Only what UpdateChannelState sets changes.
LEMMA NewReport ==
    ASSUME NEW s \in States, NEW o \in BOOLEAN, NEW b \in BOOLEAN,
           NEW t, t = [s EXCEPT !.ok = o, !.readable = b]
    PROVE  Reported(s, t, o)
<1>1. t \in States
  BY ZenonT(60) DEF States
<1>2. AllocFields(s, t)
  BY DEF States, AllocFields
<1> QED BY <1>1, <1>2, ZenonT(60) DEF States, Reported

\* SortConnections leaves the best connection chosen and the channel's state
\* in step with it, or another sort coming.
LEMMA ChooseIs ==
    ASSUME NEW s, Sound(s), NEW f, NEW top \in Tops(s), NEW x, x = Choose(s, f, top)
    PROVE  Good(x)
<1>1. /\ Shape(s) /\ AllocInv(s) /\ DoomedInv(s) /\ s \in States /\ s.q \in Seq(Sent)
      /\ s.best = None \/ s.best \in s.conns
      /\ s.conns \in SUBSET Conns
  BY DEF Sound, Shape, States
<1>b. PICK b : b = IF ShouldSwitch(s, s.best, top) THEN top ELSE s.best
  OBVIOUS
<1>d. PICK d \in BOOLEAN : d = FALSE
  OBVIOUS
<1>2. /\ b = None \/ b \in s.conns
      /\ s.conns # {} => b # None /\ \A c \in s.conns : ~Prefers(s, c, b)
  BY <1>b, <1>1, Chosen
<1>3. b \in Conns \cup {None}
  BY <1>1, <1>2
<1>t. PICK t : t = [s EXCEPT !.dirty = d, !.best = b]
  OBVIOUS
<1>4. Bested(s, t, d, b)
  BY <1>t, <1>1, <1>3, NewBest
<1>5. Sound(t)
  <2>1. Kept(s.q, t.q) /\ SameAllocs(s.q, t.q)
    BY <1>1, <1>4 DEF Bested, Kept, SameAllocs
  <2>2. AllocInv(t)
    BY <1>1, <1>4, <2>1, AllocKept DEF Bested
  <2>3. Shape(t)
    BY <1>1, <1>2, <1>4 DEF Shape, Bested, AllocFields
  <2>4. DoomedInv(t)
    BY <1>1, <1>4 DEF DoomedInv, Doomed, Bested
  <2>5. t.ping # "off"
    BY <1>4 DEF Bested, AllocFields, Sound
  <2> QED BY <2>2, <2>3, <2>4, <2>5 DEF Sound
<1>6. ~t.dirty /\ BestChosen(t)
  BY <1>d, <1>2, <1>4 DEF Bested, BestChosen, Prefers
<1>u. PICK u : u = Prune(t, Prunable(t, f))
  OBVIOUS
<1>7. Sound(u) /\ DirtyInv(u) /\ BestChosen(u)
  BY <1>u, <1>5, <1>6, PruneIs
<1>v. PICK v : v = HandleStates(u)
  OBVIOUS
<1>8. /\ u \in States /\ u.q \in Seq(Sent) /\ u.asked <= u.left /\ AllocInv(u)
      /\ Shape(u) /\ DoomedInv(u) /\ (u.best = None \/ u.best \in u.conns) /\ u.ok
      /\ u.conns \in SUBSET Conns
  BY <1>7 DEF Sound, Shape, States
<1>9. Handled(u, v, v.writable) /\ (v.writable <=> WritableConns(u) # {})
  BY <1>v, <1>8, HandleStatesIs
<1>10. /\ v \in States /\ ConnFields(u, v) /\ Kept(u.q, v.q) /\ v.asked <= v.left
       /\ AllocInv(v) /\ v.ping # "off"
  BY <1>7, <1>9 DEF Handled, Sound
<1>11. /\ Shape(v) /\ DoomedInv(v) /\ DirtyInv(v)
       /\ WritableConns(v) = WritableConns(u)
  BY <1>7, <1>8, <1>10, ConnKept
<1>12. BestChosen(v) /\ v.conns = u.conns /\ v.best = u.best /\ v.write = u.write /\ v.ok
  BY <1>7, <1>8, <1>10 DEF BestChosen, ConnFields, Prefers
<1>13. BestIsBest(v)
  BY <1>9, <1>11, <1>12 DEF BestChosen, BestIsBest
<1>14. v.writable = (v.best # None /\ v.write[v.best] = "WRITABLE")
  <2>1. (v.best = None \/ v.best \in v.conns) /\ v.conns \in SUBSET Conns
        /\ v.writable \in BOOLEAN
    BY <1>8, <1>10, <1>12 DEF States
  <2>2. ASSUME v.best # None, v.write[v.best] = "WRITABLE" PROVE v.best \in WritableConns(v)
    BY <2>1, <2>2 DEF WritableConns
  <2>3. ASSUME NEW c \in WritableConns(v) PROVE v.best # None /\ v.write[v.best] = "WRITABLE"
    <3>1. c \in v.conns /\ v.write[c] = "WRITABLE"
      BY <2>3 DEF WritableConns
    <3>2. v.best # None /\ v.best \in Conns /\ ~Prefers(v, c, v.best)
      BY <1>12, <2>1, <3>1 DEF BestChosen
    <3>3. v.write[v.best] \in {"WRITABLE", "CONNECT", "TIMEOUT"}
      BY <1>10, <3>2 DEF States
    <3> QED BY <3>1, <3>2, <3>3, WriteOrders DEF Prefers
  <2> QED BY <1>9, <1>11, <2>1, <2>2, <2>3
<1>o. PICK o \in BOOLEAN : o = TRUE
  OBVIOUS
<1>r. PICK r \in BOOLEAN : r = (ReadableConns(v) # {})
  OBVIOUS
<1>15. x = [v EXCEPT !.ok = o, !.readable = r]
  <2>1. x = UpdateChannelState(v)
    BY <1>b, <1>d, <1>t, <1>u, <1>v DEF Choose
  <2>2. o = (v.ok /\ v.writable = (v.best # None /\ v.write[v.best] = "WRITABLE"))
    BY <1>o, <1>12, <1>14
  <2> QED BY <1>r, <2>1, <2>2 DEF UpdateChannelState
<1>16. Reported(v, x, o)
  BY <1>10, <1>15, NewReport
<1>17. Plain(v, x)
  <2>1. v.ok = o
    <3>1. v.ok \in BOOLEAN
      BY <1>10 DEF States
    <3> QED BY <1>o, <1>12, <3>1
  <2> QED BY <1>16, <2>1 DEF Reported, Plain, ConnFields
<1>18. Good(v)
  BY <1>10, <1>11, <1>13 DEF Good, Sound, SortInv
<1> QED BY <1>17, <1>18, PlainKeeps

\* Whatever SortConnections may do.
LEMMA SortConnectionsIs ==
    ASSUME NEW s, Sound(s), NEW x \in SortConnections(s)
    PROVE  Good(x)
<1>1. PICK t \in UpdateConnectionStates(s) :
         x \in UNION {{Choose(t, f, top) : top \in Tops(t)} : f \in Leads(t)}
  BY DEF SortConnections
<1>3. PICK f \in Leads(t) : x \in {Choose(t, f, top) : top \in Tops(t)}
  BY <1>1
<1>4. PICK top \in Tops(t) : x = Choose(t, f, top)
  BY <1>3
<1>2. Sound(t)
  BY <1>1, Updated
<1> QED BY <1>2, <1>4, ChooseIs

-----------------------------------------------------------------------------
(* Changes of single members.                                              *)

\* The thread waits, or no more.
LEMMA NewIo ==
    ASSUME NEW s \in States, NEW b \in BOOLEAN,
           NEW t, t = [s EXCEPT !.io = b]
    PROVE  Plain(s, t)
<1>1. t \in States
  BY DEF States
<1>2. AllocFields(s, t)
  BY DEF States, AllocFields
<1>3. ConnFields(s, t)
  BY DEF States, ConnFields
<1> QED BY <1>1, <1>2, <1>3 DEF States, Plain

\* A port changes.
LEMMA NewPort ==
    ASSUME NEW s \in States, NEW x \in [Ports -> {"none", "current", "old", "gone"}],
           NEW t, t = [s EXCEPT !.port = x]
    PROVE  Plain(s, t)
<1>1. t \in States
  BY DEF States
<1>2. AllocFields(s, t)
  BY DEF States, AllocFields
<1>3. ConnFields(s, t)
  BY DEF States, ConnFields
<1> QED BY <1>1, <1>2, <1>3 DEF States, Plain

\* The remote candidates change.
LEMMA NewRemote ==
    ASSUME NEW s \in States, NEW R \in SUBSET Cands,
           NEW t, t = [s EXCEPT !.remote = R]
    PROVE  Plain(s, t)
<1>1. t \in States
  BY DEF States
<1>2. AllocFields(s, t)
  BY DEF States, AllocFields
<1>3. ConnFields(s, t)
  BY DEF States, ConnFields
<1> QED BY <1>1, <1>2, <1>3 DEF States, Plain

\* A candidate is offered.
LEMMA NewOffered ==
    ASSUME NEW s \in States, NEW R \in SUBSET Cands,
           NEW t, t = [s EXCEPT !.offered = R]
    PROVE  Plain(s, t)
<1>1. t \in States
  BY DEF States
<1>2. AllocFields(s, t)
  BY DEF States, AllocFields
<1>3. ConnFields(s, t)
  BY DEF States, ConnFields
<1> QED BY <1>1, <1>2, <1>3 DEF States, Plain

\* The requests under way change.
LEMMA NewReqs ==
    ASSUME NEW s \in States, NEW r \in [Conns -> 0 .. MaxRequests],
           NEW t, t = [s EXCEPT !.reqs = r]
    PROVE  Plain(s, t)
<1>1. t \in States
  BY DEF States
<1>2. AllocFields(s, t)
  BY DEF States, AllocFields
<1>3. ConnFields(s, t)
  BY DEF States, ConnFields
<1> QED BY <1>1, <1>2, <1>3 DEF States, Plain

\* A ping is sent.
LEMMA NewPings ==
    ASSUME NEW s \in States, NEW p \in [Conns -> BOOLEAN], NEW r \in [Conns -> 0 .. MaxRequests],
           NEW t, t = [s EXCEPT !.pings = p, !.reqs = r]
    PROVE  Plain(s, t)
<1>1. t \in States
  BY DEF States
<1>2. AllocFields(s, t)
  BY DEF States, AllocFields
<1>3. ConnFields(s, t)
  BY DEF States, ConnFields
<1> QED BY <1>1, <1>2, <1>3 DEF States, Plain

\* A ping is answered.
LEMMA NewAnswers ==
    ASSUME NEW s \in States, NEW p \in [Conns -> BOOLEAN],
           NEW r \in [Conns -> 0 .. MaxRequests], NEW x \in [Conns -> Nat],
           NEW t, t = [s EXCEPT !.pings = p, !.reqs = r, !.rtt = x]
    PROVE  Plain(s, t)
<1>1. t \in States
  BY DEF States
<1>2. AllocFields(s, t)
  BY DEF States, AllocFields
<1>3. ConnFields(s, t)
  BY DEF States, ConnFields
<1> QED BY <1>1, <1>2, <1>3 DEF States, Plain

\* The end of a message's handler.
LEMMA IoIs ==
    ASSUME NEW s, Good(s), NEW t, t = [s EXCEPT !.io = s.q = <<>>]
    PROVE  Good(t)
<1>b. PICK b \in BOOLEAN : b = (s.q = <<>>)
  OBVIOUS
<1>1. s \in States
  BY DEF Good, Sound, Shape
<1>2. t = [s EXCEPT !.io = b]
  BY <1>b
<1>3. Plain(s, t)
  BY <1>1, <1>2, NewIo
<1> QED BY <1>3, PlainKeeps

\* What only posts keeps everything.
LEMMA PostKeeps ==
    ASSUME NEW s, Good(s), NEW m \in Sent, m.id # "ALLOCATE", NEW t, t = Post(s, m)
    PROVE  Good(t) /\ AllocFields(s, t) /\ t.q = Append(s.q, m)
<1>1. /\ Shape(s) /\ AllocInv(s) /\ DoomedInv(s) /\ SortInv(s) /\ s.ping # "off"
      /\ s \in States /\ s.q \in Seq(Sent) /\ s.asked <= s.left
  BY DEF Good, Sound, Shape
<1>q. PICK q, p : p = s.q /\ q = Append(p, m)
  OBVIOUS
<1>2. Kept(p, q) /\ CountOf(q, Allocs) = CountOf(p, Allocs) + 0
  BY <1>1, <1>q, Posted
<1>3. CountOf(p, Allocs) \in Nat /\ q \in Seq(Messages)
  <2>1. CountOf(p, Allocs) \in Nat
    BY <1>1, <1>q, CountsTyped
  <2>2. q \in Seq(Messages)
    BY <1>2 DEF Kept, Sent
  <2> QED BY <2>1, <2>2
<1>4. t = [s EXCEPT !.q = q]
  BY <1>q DEF Post
<1>5. /\ t \in States /\ Frame(s, t) /\ t.read = s.read /\ t.write = s.write
      /\ t.dirty = s.dirty /\ t.q = q
  BY <1>1, <1>3, <1>4, NewQueue
<1>6. Kept(s.q, t.q) /\ SameAllocs(s.q, t.q)
  BY <1>2, <1>3, <1>5, <1>q DEF SameAllocs
<1>7. ConnFields(s, t) /\ AllocFields(s, t)
  BY <1>5 DEF Frame, ConnFields, AllocFields
<1>8. t.asked <= t.left /\ t.writable = s.writable /\ t.ping # "off"
  BY <1>1, <1>7 DEF AllocFields
<1>9. /\ Shape(t)
      /\ DoomedInv(s) => DoomedInv(t)
      /\ SortInv(s) /\ t.writable = s.writable => SortInv(t)
  BY <1>1, <1>5, <1>6, <1>7, <1>8, ConnKept
<1>10. AllocInv(t)
  BY <1>1, <1>6, <1>7, AllocKept
<1> QED BY <1>1, <1>5, <1>7, <1>8, <1>9, <1>10, <1>q DEF Good, Sound

Queued(s, t, q) ==
    /\ t \in States /\ Frame(s, t) /\ t.read = s.read /\ t.write = s.write
    /\ t.dirty = s.dirty /\ t.q = q

\* The same in one name.
LEMMA QueuedIs ==
    ASSUME NEW s \in States, NEW q \in Seq(Messages), NEW t, t = [s EXCEPT !.q = q]
    PROVE  Queued(s, t, q)
BY NewQueue DEF Queued

\* Taking the next message off the queue.
LEMMA TakenIs ==
    ASSUME NEW s, Good(s), s.q # <<>>, NEW h, h = Head(s.q),
           NEW t, t = [s EXCEPT !.q = Tail(@)]
    PROVE  /\ Shape(t) /\ h \in Sent /\ ConnFields(s, t) /\ AllocFields(s, t)
           /\ Tail(s.q) = t.q /\ t.ping # "off"
           /\ h.id # "ALLOCATE" => AllocBut(t)
           /\ h.id \notin {"ALLOCATE", "ONSIGNALINGREADY"} => AllocInv(t)
           /\ h.id # "DELETE" => DoomedInv(t)
           /\ h.id # "SORT" => SortInv(t)
           /\ DoomedBut(t, h.conns)
<1>1. /\ Shape(s) /\ AllocInv(s) /\ DoomedInv(s) /\ SortInv(s) /\ s.ping # "off"
      /\ s \in States /\ s.q \in Seq(Sent) /\ s.asked <= s.left
  BY DEF Good, Sound, Shape
<1>q. PICK q, p : p = s.q /\ q = Tail(p)
  OBVIOUS
<1>2. /\ q \in Seq(Sent) /\ h \in Sent
      /\ CountOf(q, Allocs) = CountOf(p, Allocs) - (IF h.id = "ALLOCATE" THEN 1 ELSE 0)
      /\ h.id # "SORT" => CountOf(q, Sorts) = CountOf(p, Sorts)
      /\ h.id # "ONSIGNALINGREADY" => CountOf(q, Readies) = CountOf(p, Readies)
      /\ \A c : ~(h.id = "DELETE" /\ c \in h.conns) =>
            CountOf(q, Deletes(c)) = CountOf(p, Deletes(c))
  BY <1>1, <1>q, Taken
<1>3. CountOf(p, Allocs) \in Nat /\ q \in Seq(Messages)
  <2>1. CountOf(p, Allocs) \in Nat
    BY <1>1, <1>q, CountsTyped
  <2>2. q \in Seq(Messages)
    BY <1>2 DEF Sent
  <2> QED BY <2>1, <2>2
<1>4. t = [s EXCEPT !.q = q]
  BY <1>q
<1>5. /\ t \in States /\ Frame(s, t) /\ t.read = s.read /\ t.write = s.write
      /\ t.dirty = s.dirty /\ t.q = q
  <2>1. s \in States /\ q \in Seq(Messages)
    BY <1>1, <1>3
  <2>2. Queued(s, t, q)
    BY <1>4, <2>1, QueuedIs
  <2> QED BY <2>2 DEF Queued
<1>6. ConnFields(s, t) /\ AllocFields(s, t)
  BY <1>5 DEF Frame, ConnFields, AllocFields
<1>7. Shape(t)
  BY <1>1, <1>2, <1>5, <1>6 DEF Shape, ConnFields, AllocFields
<1>8. h.id # "ALLOCATE" => AllocBut(t) /\ CountOf(q, Allocs) = CountOf(p, Allocs)
  <2>1. ASSUME h.id # "ALLOCATE" PROVE CountOf(q, Allocs) = CountOf(p, Allocs)
    BY <1>2, <1>3, <2>1
  <2> QED BY <1>1, <1>5, <1>6, <1>q, <2>1 DEF AllocInv, AllocBut, AllocFields
<1>9. h.id \notin {"ALLOCATE", "ONSIGNALINGREADY"} => AllocInv(t)
  BY <1>1, <1>2, <1>5, <1>6, <1>8, <1>q DEF AllocInv, AllocFields
<1>10. h.id # "DELETE" => DoomedInv(t)
  BY <1>1, <1>2, <1>5, <1>6, <1>q DEF DoomedInv, Doomed, ConnFields
<1>11. h.id # "SORT" => SortInv(t)
  BY <1>1, <1>2, <1>5, <1>6, <1>q
     DEF SortInv, DirtyInv, BestIsBest, WritableConns, Prefers, ConnFields, AllocFields
<1>12. DoomedBut(t, h.conns)
  BY <1>1, <1>2, <1>5, <1>6, <1>q DEF DoomedInv, DoomedBut, Doomed, ConnFields
<1> QED BY <1>1, <1>2, <1>5, <1>6, <1>7, <1>8, <1>9, <1>10, <1>11, <1>12, <1>q DEF AllocFields

-----------------------------------------------------------------------------
(* The messages of the worker thread.                                      *)

\* MSG_SORT.
LEMMA SortStep ==
    ASSUME Good(ch), OnSort
    PROVE  Good(ch')
<1>s. PICK s : s = [ch EXCEPT !.q = Tail(@)]
  OBVIOUS
<1>h. PICK h : h = Head(ch.q)
  OBVIOUS
<1>1. ch.q # <<>> /\ h.id = "SORT" /\ \E x \in SortConnections(s) : ch' = [x EXCEPT !.io = x.q = <<>>]
  BY <1>s, <1>h DEF OnSort, Dispatch
<1>2. PICK x \in SortConnections(s) : ch' = [x EXCEPT !.io = x.q = <<>>]
  BY <1>1
<1>3. Sound(s)
  BY <1>1, <1>s, <1>h, TakenIs DEF Sound
<1>4. Good(x)
  BY <1>3, SortConnectionsIs
<1> QED BY <1>2, <1>4, IoIs

\* MSG_NULL stands for a message that was cleared.
LEMMA ClearedStep ==
    ASSUME Good(ch), Cleared
    PROVE  Good(ch')
<1>s. PICK s : s = [ch EXCEPT !.q = Tail(@)]
  OBVIOUS
<1>h. PICK h : h = Head(ch.q)
  OBVIOUS
<1>1. ch.q # <<>> /\ h.id = "NULL" /\ ch' = [s EXCEPT !.io = s.q = <<>>]
  BY <1>s, <1>h DEF Cleared, Dispatch
<1>2. Good(s)
  BY <1>1, <1>s, <1>h, TakenIs DEF Sound, Good
<1> QED BY <1>1, <1>2, IoIs

Pinged(s, t, x) ==
    /\ t \in States /\ ConnFields(s, t) /\ t.q = s.q /\ t.ping = x
    /\ t.writable = s.writable /\ t.wasWritable = s.wasWritable
    /\ t.wasTimedOut = s.wasTimedOut /\ t.waiting = s.waiting /\ t.asked = s.asked
    /\ t.left = s.left /\ t.delayed = s.delayed

\* Only where MSG_PING is changes.
LEMMA NewPing ==
    ASSUME NEW s \in States, NEW x \in {"off", "delayed", "queued"},
           NEW t, t = [s EXCEPT !.ping = x]
    PROVE  Pinged(s, t, x)
<1>1. t \in States
  BY DEF States
<1>2. ConnFields(s, t)
  BY DEF States, ConnFields
<1> QED BY <1>1, <1>2, ZenonT(60) DEF States, Pinged

\* A connected channel keeps pinging.
LEMMA PingKeeps ==
    ASSUME NEW s, Good(s), NEW x \in {"delayed", "queued"}, NEW t, t = [s EXCEPT !.ping = x]
    PROVE  Good(t) /\ t.delayed = s.delayed
<1>1. /\ Shape(s) /\ AllocInv(s) /\ DoomedInv(s) /\ SortInv(s) /\ s.ping # "off"
      /\ s \in States /\ s.asked <= s.left /\ s.q \in Seq(Sent)
  BY DEF Good, Sound, Shape
<1>2. Pinged(s, t, x)
  BY <1>1, NewPing
<1>3. t \in States /\ ConnFields(s, t) /\ t.q = s.q /\ t.ping = x
  BY <1>2 DEF Pinged
<1>4. Kept(s.q, t.q) /\ t.asked <= t.left /\ t.writable = s.writable
  BY <1>1, <1>2, <1>3 DEF Pinged, Kept
<1>5. /\ Shape(t)
      /\ DoomedInv(s) => DoomedInv(t)
      /\ SortInv(s) /\ t.writable = s.writable => SortInv(t)
  BY <1>1, <1>3, <1>4, ConnKept
<1>6. AllocInv(t)
  BY <1>1, <1>2 DEF AllocInv, AllocBut, Pinged
<1> QED BY <1>1, <1>2, <1>3, <1>4, <1>5, <1>6 DEF Good, Sound, Pinged

\* MSG_PING.
LEMMA PingStep ==
    ASSUME Good(ch), OnPing
    PROVE  Good(ch')
<1>s. PICK s : s = [ch EXCEPT !.q = Tail(@)]
  OBVIOUS
<1>h. PICK h : h = Head(ch.q)
  OBVIOUS
<1>1. /\ ch.q # <<>> /\ h.id = "PING"
      /\ \E x \in UNION {LET t == [u EXCEPT !.ping = "delayed"] IN
                         IF NextPingable(t) = {} THEN {t}
                         ELSE {Ping(t, c) : c \in NextPingable(t)} :
                            u \in UpdateConnectionStates(s)} :
            ch' = [x EXCEPT !.io = x.q = <<>>]
  BY <1>s, <1>h DEF OnPing, Dispatch
<1>2. PICK x, u : /\ u \in UpdateConnectionStates(s)
                  /\ x \in LET t == [u EXCEPT !.ping = "delayed"] IN
                           IF NextPingable(t) = {} THEN {t}
                           ELSE {Ping(t, c) : c \in NextPingable(t)}
                  /\ ch' = [x EXCEPT !.io = x.q = <<>>]
  BY <1>1
<1>3. Good(s)
  BY <1>1, <1>s, <1>h, TakenIs DEF Sound, Good
<1>4. Good(u)
  BY <1>2, <1>3, Updated DEF Good
<1>d. PICK d \in {"delayed", "queued"} : d = "delayed"
  OBVIOUS
<1>t. PICK t : t = [u EXCEPT !.ping = d]
  OBVIOUS
<1>5. Good(t)
  BY <1>4, <1>t, PingKeeps
<1>6. x = t \/ \E c \in NextPingable(t) : x = Ping(t, c)
  BY <1>2, <1>d, <1>t
<1>7. ASSUME NEW c \in NextPingable(t), x = Ping(t, c) PROVE Good(x)
  <2>1. t \in States
    BY <1>5 DEF Good, Sound, Shape
  <2>2. c \in Conns /\ t.reqs[c] < MaxRequests
    BY <1>7, <2>1 DEF NextPingable, States
  <2>3. t.pings \in [Conns -> BOOLEAN] /\ t.reqs \in [Conns -> 0 .. MaxRequests]
    BY <2>1 DEF States
  <2>p. PICK p, r : p = [t.pings EXCEPT ![c] = TRUE] /\ r = [t.reqs EXCEPT ![c] = @ + 1]
    OBVIOUS
  <2>4. p \in [Conns -> BOOLEAN]
    BY <2>3, <2>p
  <2>5. r \in [Conns -> 0 .. MaxRequests]
    <3>1. t.reqs[c] + 1 \in 0 .. MaxRequests
      BY <2>2, <2>3, ChannelAssumption
    <3> QED BY <2>3, <2>p, <3>1
  <2>6. x = [t EXCEPT !.pings = p, !.reqs = r]
    BY <1>7, <2>p DEF Ping
  <2>7. Plain(t, x)
    BY <2>1, <2>4, <2>5, <2>6, NewPings
  <2> QED BY <1>5, <2>7, PlainKeeps
<1>8. Good(x)
  BY <1>5, <1>6, <1>7
<1> QED BY <1>2, <1>8, IoIs

\* MSG_ALLOCATE.
LEMMA AllocateStep ==
    ASSUME Good(ch), OnAllocate
    PROVE  Good(ch')
<1>s. PICK s : s = [ch EXCEPT !.q = Tail(@)]
  OBVIOUS
<1>h. PICK h : h = Head(ch.q)
  OBVIOUS
<1>t. PICK t : t = Allocate(s)
  OBVIOUS
<1>1. ch.q # <<>> /\ h.id = "ALLOCATE" /\ ch' = [t EXCEPT !.io = t.q = <<>>]
  BY <1>s, <1>h, <1>t DEF OnAllocate, Dispatch
<1>2. /\ Shape(s) /\ DoomedInv(s) /\ SortInv(s) /\ AllocFields(ch, s) /\ s.ping # "off"
      /\ ConnFields(ch, s)
  BY <1>1, <1>s, <1>h, TakenIs
<1>3. s \in States /\ s.q \in Seq(Sent) /\ s.asked <= s.left
  BY <1>2 DEF Shape
<1>4. Requested(s, t)
  BY <1>3, <1>t, AllocateIs
<1>5. /\ Shape(t)
      /\ DoomedInv(s) => DoomedInv(t)
      /\ SortInv(s) /\ t.writable = s.writable => SortInv(t)
  BY <1>2, <1>4, ConnKept DEF Requested
<1>6. t.writable = s.writable /\ t.ping # "off"
  BY <1>2, <1>4 DEF Requested
<1>7. /\ ch.wasWritable <=> ch.writable
      /\ ch.wasTimedOut => ~ch.writable
  BY DEF Good, Sound, AllocInv, AllocBut
<1>8. AllocInv(t)
  BY <1>2, <1>4, <1>7 DEF AllocInv, AllocBut, Requested, AllocFields
<1>9. Good(t)
  BY <1>2, <1>5, <1>6, <1>8 DEF Good, Sound
<1> QED BY <1>1, <1>9, IoIs

Answered(s, t, w, n) ==
    /\ t \in States /\ ConnFields(s, t) /\ t.q = s.q /\ t.waiting = w /\ t.delayed = n
    /\ t.writable = s.writable /\ t.wasWritable = s.wasWritable
    /\ t.wasTimedOut = s.wasTimedOut /\ t.asked = s.asked /\ t.left = s.left
    /\ t.ping = s.ping

\* Only what OnSignalingReady sets changes.
LEMMA NewAnswered ==
    ASSUME NEW s \in States, NEW w \in BOOLEAN, NEW e \in BOOLEAN,
           NEW x \in [Ports -> {"none", "current", "old", "gone"}], NEW n \in Nat,
           NEW t, t = [s EXCEPT !.waiting = w, !.session = e, !.port = x, !.delayed = n]
    PROVE  Answered(s, t, w, n)
<1>1. t \in States
  BY ZenonT(60) DEF States
<1>2. ConnFields(s, t)
  BY DEF States, ConnFields
<1> QED BY <1>1, <1>2, ZenonT(60) DEF States, Answered

\* MSG_ONSIGNALINGREADY.
LEMMA ReadyStep ==
    ASSUME Good(ch), SignalingReadyMsg
    PROVE  Good(ch')
<1>s. PICK s : s = [ch EXCEPT !.q = Tail(@)]
  OBVIOUS
<1>h. PICK h : h = Head(ch.q)
  OBVIOUS
<1>t. PICK t : t = OnSignalingReady(s)
  OBVIOUS
<1>1. ch.q # <<>> /\ h.id = "ONSIGNALINGREADY" /\ ch' = [t EXCEPT !.io = t.q = <<>>]
  BY <1>s, <1>h, <1>t DEF SignalingReadyMsg, Dispatch
<1>2. /\ Shape(s) /\ DoomedInv(s) /\ SortInv(s) /\ AllocBut(s) /\ s.ping # "off"
  BY <1>1, <1>s, <1>h, TakenIs
<1>3. s \in States /\ s.q \in Seq(Sent) /\ s.asked <= s.left
  BY <1>2 DEF Shape
<1>4. CASE ~s.waiting
  <2>1. t = s
    BY <1>4, <1>t DEF OnSignalingReady
  <2>2. AllocInv(s)
    BY <1>2, <1>4 DEF AllocInv
  <2>3. Good(t)
    BY <1>2, <2>1, <2>2 DEF Good, Sound
  <2> QED BY <1>1, <2>3, IoIs
<1>5. CASE s.waiting
  <2>x. PICK x : x = [p \in Ports |-> IF s.port[p] = "current" THEN "old" ELSE s.port[p]]
    OBVIOUS
  <2>1. x \in [Ports -> {"none", "current", "old", "gone"}]
    BY <1>3, <2>x DEF States
  <2>n. PICK n : n = s.delayed + 1
    OBVIOUS
  <2>2. n \in Nat /\ s.delayed \in Nat /\ CountOf(s.q, Allocs) \in Nat
    <3>1. s.delayed \in Nat
      BY <1>3 DEF States
    <3>2. CountOf(s.q, Allocs) \in Nat
      BY <1>3, CountsTyped
    <3> QED BY <2>n, <3>1, <3>2
  <2>w. PICK w \in BOOLEAN, e \in BOOLEAN : w = FALSE /\ e = TRUE
    OBVIOUS
  <2>3. t = [s EXCEPT !.waiting = w, !.session = e, !.port = x, !.delayed = n]
    BY <1>5, <1>t, <2>x, <2>n, <2>w DEF OnSignalingReady
  <2>4. Answered(s, t, w, n)
    <3>1. s \in States /\ n \in Nat
      BY <1>3, <2>2
    <3> QED BY <2>1, <2>3, <3>1, NewAnswered
  <2>5. t \in States /\ ConnFields(s, t) /\ t.q = s.q /\ t.ping = s.ping
    BY <2>4 DEF Answered
  <2>6. Kept(s.q, t.q) /\ t.asked <= t.left /\ t.writable = s.writable
    BY <1>3, <2>4, <2>5 DEF Answered, Kept
  <2>7. /\ Shape(t)
        /\ DoomedInv(s) => DoomedInv(t)
        /\ SortInv(s) /\ t.writable = s.writable => SortInv(t)
    BY <1>2, <2>5, <2>6, ConnKept
  <2>8. AllocInv(t)
    BY <1>2, <1>5, <2>n, <2>2, <2>w, <2>4 DEF AllocInv, AllocBut, Answered
  <2>9. Good(t)
    BY <1>2, <2>5, <2>6, <2>7, <2>8 DEF Good, Sound
  <2> QED BY <1>1, <2>9, IoIs
<1> QED BY <1>4, <1>5

-----------------------------------------------------------------------------
(* Connections are made.                                                   *)

Created(s, t, C) ==
    /\ t \in States /\ AllocFields(s, t) /\ t.q = s.q /\ t.conns = C
    /\ t.read = s.read /\ t.write = s.write
    /\ t.best = s.best /\ t.dirty = s.dirty /\ t.ok = s.ok /\ t.port = s.port

\* Only connections_ changes.
LEMMA NewConns ==
    ASSUME NEW s \in States, NEW C \in SUBSET Conns, NEW t, t = [s EXCEPT !.conns = C]
    PROVE  Created(s, t, C)
<1>1. t \in States
  BY DEF States
<1>2. AllocFields(s, t)
  BY DEF States, AllocFields
<1> QED BY <1>1, <1>2, ZenonT(60) DEF States, Created

\* New connections are of use.
LEMMA CreateIs ==
    ASSUME NEW s, Sound(s), NEW S \in SUBSET Conns, NEW t, t = CreateConnections(s, S)
    PROVE  Sound(t) /\ t.conns = s.conns \cup S /\ t.remote \in SUBSET Cands
<1>1. /\ Shape(s) /\ AllocInv(s) /\ DoomedInv(s) /\ s.ping # "off"
      /\ s \in States /\ s.q \in Seq(Sent) /\ s.conns \in SUBSET Conns
  BY DEF Sound, Shape, States
<1>c. PICK C : C = s.conns \cup S
  OBVIOUS
<1>2. C \in SUBSET Conns
  BY <1>1, <1>c
<1>3. t = [s EXCEPT !.conns = C]
  BY <1>c DEF CreateConnections
<1>4. Created(s, t, C)
  BY <1>1, <1>2, <1>3, NewConns
<1>5. Kept(s.q, t.q) /\ SameAllocs(s.q, t.q)
  BY <1>1, <1>4 DEF Created, Kept, SameAllocs
<1>6. AllocInv(t)
  BY <1>1, <1>4, <1>5, AllocKept DEF Created
<1>7. Shape(t)
  BY <1>1, <1>4, <1>c DEF Shape, Created, AllocFields
<1>8. Doomed(t) \subseteq Doomed(s)
  <2> SUFFICES ASSUME NEW c \in Doomed(t) PROVE c \in Doomed(s)
    OBVIOUS
  <2>1. c \in C /\ s.read[c] = "TIMEOUT" /\ s.write[c] = "TIMEOUT"
    BY <1>4 DEF Doomed, Created
  <2>2. c \in s.conns
    BY <1>1, <1>2, <2>1 DEF Shape
  <2> QED BY <2>1, <2>2 DEF Doomed
<1>9. DoomedInv(t)
  BY <1>1, <1>4, <1>8 DEF DoomedInv, Created
<1>10. t \in States /\ t.conns = C /\ t.ping = s.ping
  BY <1>4 DEF Created, AllocFields
<1>11. t.remote \in SUBSET Cands
  BY <1>10 DEF States
<1> QED BY <1>1, <1>6, <1>7, <1>9, <1>10, <1>11, <1>c DEF Sound

\* RememberRemoteCandidate.
LEMMA RememberIs ==
    ASSUME NEW s, Sound(s), NEW k \in Cands, NEW t, t = RememberRemoteCandidate(s, k)
    PROVE  Sound(t)
<1>1. s \in States /\ s.remote \in SUBSET Cands
  BY DEF Sound, Shape, States
<1>r. PICK R : R = {j \in s.remote : Gen[j] >= Gen[k]} \cup {k}
  OBVIOUS
<1>2. R \in SUBSET Cands
  BY <1>1, <1>r
<1>3. t = [s EXCEPT !.remote = R]
  BY <1>r DEF RememberRemoteCandidate
<1>4. Plain(s, t)
  BY <1>1, <1>2, <1>3, NewRemote
<1> QED BY <1>4, PlainKeeps

\* MSG_ONREMOTECANDIDATE.
LEMMA CandidateStep ==
    ASSUME Good(ch), OnCandidate
    PROVE  Good(ch')
<1>s. PICK s : s = [ch EXCEPT !.q = Tail(@)]
  OBVIOUS
<1>h. PICK h : h = Head(ch.q)
  OBVIOUS
<1>k. PICK k : k = h.cand
  OBVIOUS
<1>S. PICK S : S = CurrentPorts(s) \X {k}
  OBVIOUS
<1>t. PICK t : t = CreateConnections(s, S)
  OBVIOUS
<1>u. PICK u : u = RememberRemoteCandidate(t, k)
  OBVIOUS
<1>1. /\ ch.q # <<>> /\ h.id = "ONREMOTECANDIDATE"
      /\ \E x \in SortConnections(u) : ch' = [x EXCEPT !.io = x.q = <<>>]
  BY <1>s, <1>h, <1>k, <1>S, <1>t, <1>u DEF OnCandidate, Dispatch
<1>2. PICK x \in SortConnections(u) : ch' = [x EXCEPT !.io = x.q = <<>>]
  BY <1>1
<1>3. Sound(s) /\ h \in Sent
  BY <1>1, <1>s, <1>h, TakenIs DEF Sound
<1>4. k \in Cands
  BY <1>1, <1>3, <1>k DEF Sent
<1>5. S \in SUBSET Conns
  BY <1>4, <1>S DEF CurrentPorts, Conns
<1>6. Sound(t)
  BY <1>3, <1>5, <1>t, CreateIs
<1>7. Sound(u)
  BY <1>4, <1>6, <1>u, RememberIs
<1>8. Good(x)
  BY <1>7, SortConnectionsIs
<1> QED BY <1>2, <1>8, IoIs

\* A port of the allocator.
LEMMA PortReadyStep ==
    ASSUME Good(ch), OnPortReady
    PROVE  Good(ch')
<1>1. PICK p \in Ports : Handle(SortConnections(CreateConnections(
                            [ch EXCEPT !.port[p] = "current"], {p} \X ch.remote)))
  BY DEF OnPortReady
<1>2. ch \in States /\ Sound(ch)
  BY DEF Good, Sound, Shape
<1>y. PICK y : y = [ch.port EXCEPT ![p] = "current"]
  OBVIOUS
<1>3. y \in [Ports -> {"none", "current", "old", "gone"}] /\ ch.remote \in SUBSET Cands
  BY <1>2, <1>y DEF States
<1>s. PICK s : s = [ch EXCEPT !.port = y]
  OBVIOUS
<1>4. Plain(ch, s)
  BY <1>2, <1>3, <1>s, NewPort
<1>5. Sound(s)
  BY <1>2, <1>4, PlainKeeps
<1>6. s = [ch EXCEPT !.port[p] = "current"]
  BY <1>y, <1>s
<1>S. PICK S : S = {p} \X ch.remote
  OBVIOUS
<1>7. S \in SUBSET Conns
  BY <1>3, <1>S DEF Conns
<1>t. PICK t : t = CreateConnections(s, S)
  OBVIOUS
<1>8. Sound(t)
  BY <1>5, <1>7, <1>t, CreateIs
<1>9. PICK x \in SortConnections(t) : ch' = [x EXCEPT !.io = x.q = <<>>]
  BY <1>1, <1>6, <1>S, <1>t DEF Handle
<1>10. Good(x)
  BY <1>8, SortConnectionsIs
<1> QED BY <1>9, <1>10, IoIs

\* A port is gone.
LEMMA PortDestroyedStep ==
    ASSUME Good(ch), OnPortDestroyed
    PROVE  Good(ch')
<1>1. PICK p \in Ports : Handle({[ch EXCEPT !.port[p] = "gone"]})
  BY DEF OnPortDestroyed
<1>2. ch \in States
  BY DEF Good, Sound, Shape
<1>y. PICK y : y = [ch.port EXCEPT ![p] = "gone"]
  OBVIOUS
<1>3. y \in [Ports -> {"none", "current", "old", "gone"}]
  BY <1>2, <1>y DEF States
<1>s. PICK s : s = [ch EXCEPT !.port = y]
  OBVIOUS
<1>4. Plain(ch, s)
  BY <1>2, <1>3, <1>s, NewPort
<1>5. Good(s)
  BY <1>4, PlainKeeps
<1>6. s = [ch EXCEPT !.port[p] = "gone"]
  BY <1>y, <1>s
<1>7. ch' = [s EXCEPT !.io = s.q = <<>>]
  BY <1>1, <1>6 DEF Handle
<1> QED BY <1>5, <1>7, IoIs

-----------------------------------------------------------------------------
(* Packets.                                                                *)

\* A change of the states of connections that exist.
LEMMA SetKeeps ==
    ASSUME NEW s, Sound(s), NEW read \in ReadStates, NEW write \in WriteStates,
           \A c \in Conns \ s.conns : read[c] = s.read[c] /\ write[c] = s.write[c],
           NEW t, t = SetStates(s, read, write)
    PROVE  /\ Sound(t) /\ (SortInv(s) => SortInv(t)) /\ t.conns = s.conns
           /\ t.read = read /\ t.write = write /\ t.reqs = s.reqs
<1>1. /\ Shape(s) /\ AllocInv(s) /\ DoomedInv(s) /\ s.ping # "off" /\ s \in States
      /\ s.q \in Seq(Sent)
  BY DEF Sound, Shape
<1>2. StatesSet(s, t, read, write)
  BY <1>1, SetStatesIs
<1>3. \A c \in Conns \ s.conns : read[c] = "TIMEOUT" /\ write[c] = "CONNECT"
  BY <1>1 DEF Shape
<1>4. /\ Shape(t)
      /\ AllocInv(s) => AllocInv(t)
      /\ DoomedInv(s) => DoomedInv(t)
      /\ SortInv(s) => SortInv(t)
  BY <1>1, <1>2, <1>3, StatesSetInv
<1>5. /\ t.conns = s.conns /\ t.read = read /\ t.write = write /\ t.ping = s.ping
      /\ t.reqs = s.reqs
  BY <1>2 DEF StatesSet, Frame
<1> QED BY <1>1, <1>4, <1>5 DEF Sound

\* Connection::ReceivedPing, for connections that exist.
LEMMA PingedIs ==
    ASSUME NEW s, Sound(s), NEW S \in SUBSET s.conns, NEW t, t = ReceivedPing(s, S)
    PROVE  Sound(t) /\ (SortInv(s) => SortInv(t)) /\ t.conns = s.conns
<1>1. s.read \in ReadStates /\ s.write \in WriteStates
  BY DEF Sound, Shape, States, ReadStates, WriteStates
<1>r. PICK read : read = Put(s.read, S, "READABLE")
  OBVIOUS
<1>2. read \in ReadStates /\ \A c \in Conns : read[c] = IF c \in S THEN "READABLE" ELSE s.read[c]
  BY <1>1, <1>r DEF Put, ReadStates
<1>3. t = SetStates(s, read, s.write)
  BY <1>r DEF ReceivedPing
<1>4. \A c \in Conns \ s.conns : read[c] = s.read[c] /\ s.write[c] = s.write[c]
  BY <1>2
<1> QED BY <1>1, <1>2, <1>3, <1>4, SetKeeps

\* A new write state for one connection.
LEMMA WriteIs ==
    ASSUME NEW s, Sound(s), NEW c \in s.conns, NEW v \in {"WRITABLE", "CONNECT", "TIMEOUT"},
           NEW t, t = SetStates(s, s.read, Put(s.write, {c}, v))
    PROVE  Sound(t) /\ (SortInv(s) => SortInv(t)) /\ t.conns = s.conns /\ t.reqs = s.reqs
<1>1. s.read \in ReadStates /\ s.write \in WriteStates
  BY DEF Sound, Shape, States, ReadStates, WriteStates
<1>w. PICK write : write = Put(s.write, {c}, v)
  OBVIOUS
<1>2. write \in WriteStates /\ \A d \in Conns : write[d] = IF d \in {c} THEN v ELSE s.write[d]
  BY <1>1, <1>w DEF Put, WriteStates
<1>3. t = SetStates(s, s.read, write)
  BY <1>w
<1>4. \A d \in Conns \ s.conns : s.read[d] = s.read[d] /\ write[d] = s.write[d]
  BY <1>2
<1> QED BY <1>1, <1>2, <1>3, <1>4, SetKeeps

\* The checks of a connection start again.
LEMMA RestartIs ==
    ASSUME NEW s, Good(s), NEW c \in s.conns, NEW t, t = Restart(s, c)
    PROVE  Good(t)
<1>1. CASE ~s.pruned[c] /\ s.write[c] = "TIMEOUT"
  <2>v. PICK v \in {"WRITABLE", "CONNECT", "TIMEOUT"} : v = "CONNECT"
    OBVIOUS
  <2>1. t = SetStates(s, s.read, Put(s.write, {c}, v))
    BY <1>1, <2>v DEF Restart
  <2>2. Sound(s) /\ SortInv(s)
    BY DEF Good
  <2>3. Sound(t) /\ (SortInv(s) => SortInv(t))
    BY <2>1, <2>2, WriteIs
  <2> QED BY <2>2, <2>3 DEF Good
<1>2. CASE ~(~s.pruned[c] /\ s.write[c] = "TIMEOUT")
  BY <1>2 DEF Restart
<1> QED BY <1>1, <1>2

\* A ping from an unknown address.
LEMMA UnknownAddressStep ==
    ASSUME Good(ch), NEW p \in Ports, NEW k \in Cands, OnUnknownAddress(p, k)
    PROVE  Good(ch')
<1>S. PICK S : S = (CurrentPorts(ch) \cup {p}) \X {k}
  OBVIOUS
<1>t. PICK t : t = CreateConnections(ch, S)
  OBVIOUS
<1>u. PICK u : u = ReceivedPing(t, S)
  OBVIOUS
<1>v. PICK v : v = RememberRemoteCandidate(u, k)
  OBVIOUS
<1>1. ch' \in SortConnections(v)
  BY <1>S, <1>t, <1>u, <1>v DEF OnUnknownAddress, Serve
<1>2. Sound(ch)
  BY DEF Good
<1>3. S \in SUBSET Conns
  BY <1>S DEF CurrentPorts, Conns
<1>4. Sound(t) /\ S \in SUBSET t.conns
  <2>1. Sound(t) /\ t.conns = ch.conns \cup S
    BY <1>2, <1>3, <1>t, CreateIs
  <2> QED BY <2>1
<1>5. Sound(u)
  BY <1>4, <1>u, PingedIs
<1>6. Sound(v)
  BY <1>5, <1>v, RememberIs
<1> QED BY <1>1, <1>6, SortConnectionsIs

\* A ping of the remote.
LEMMA BindingRequestStep ==
    ASSUME Good(ch), NEW c, OnBindingRequest(c)
    PROVE  Good(ch')
<1>t. PICK t, S : S = {c} /\ t = ReceivedPing(ch, S)
  OBVIOUS
<1>1. c \in ch.conns /\ ch' = Restart(t, c)
  BY <1>t DEF OnBindingRequest, Serve
<1>2. S \in SUBSET ch.conns /\ Sound(ch) /\ SortInv(ch)
  BY <1>t, <1>1 DEF Good
<1>3. Sound(t) /\ (SortInv(ch) => SortInv(t)) /\ t.conns = ch.conns
  BY <1>2, <1>t, PingedIs
<1>4. Good(t) /\ c \in t.conns
  BY <1>1, <1>2, <1>3 DEF Good
<1> QED BY <1>1, <1>4, RestartIs

\* Data of the remote.
LEMMA DataStep ==
    ASSUME Good(ch), NEW c, OnData(c)
    PROVE  Good(ch')
<1>1. c \in ch.conns /\ ch' = Restart(ch, c)
  BY DEF OnData, Serve, ReadableConns
<1> QED BY <1>1, RestartIs

\* A ping less under way.
LEMMA RequestDone ==
    ASSUME NEW s, Good(s), NEW c \in s.conns, s.reqs[c] > 0,
           NEW t, t = [s EXCEPT !.reqs[c] = @ - 1]
    PROVE  Plain(s, t) /\ Good(t) /\ t.conns = s.conns
<1>1. s \in States /\ c \in Conns
  BY DEF Good, Sound, Shape, States
<1>r. PICK r : r = [s.reqs EXCEPT ![c] = @ - 1]
  OBVIOUS
<1>2. r \in [Conns -> 0 .. MaxRequests]
  <2>1. s.reqs \in [Conns -> 0 .. MaxRequests]
    BY <1>1 DEF States
  <2>2. s.reqs[c] - 1 \in 0 .. MaxRequests
    BY <1>1, <2>1, ChannelAssumption
  <2> QED BY <1>r, <2>1, <2>2
<1>3. t = [s EXCEPT !.reqs = r]
  BY <1>r
<1>4. Plain(s, t)
  BY <1>1, <1>2, <1>3, NewReqs
<1> QED BY <1>4, PlainKeeps DEF Plain, ConnFields

\* An error response.
LEMMA ErrorResponseStep ==
    ASSUME Good(ch), NEW c, OnConnectionRequestErrorResponse(c)
    PROVE  Good(ch')
<1>s. PICK s : s = [ch EXCEPT !.reqs[c] = @ - 1]
  OBVIOUS
<1>1. /\ c \in ch.conns /\ ch.reqs[c] > 0
      /\ ch' = s \/ ch' = SetStates(s, s.read, Put(s.write, {c}, "TIMEOUT"))
  BY <1>s DEF OnConnectionRequestErrorResponse, Serve
<1>2. Good(s) /\ s.conns = ch.conns
  BY <1>1, <1>s, RequestDone
<1>3. ASSUME ch' = SetStates(s, s.read, Put(s.write, {c}, "TIMEOUT")) PROVE Good(ch')
  <2>v. PICK v \in {"WRITABLE", "CONNECT", "TIMEOUT"} : v = "TIMEOUT"
    OBVIOUS
  <2>t. PICK t : t = SetStates(s, s.read, Put(s.write, {c}, v))
    OBVIOUS
  <2>1. Sound(s) /\ SortInv(s) /\ c \in s.conns
    BY <1>1, <1>2 DEF Good
  <2>2. Sound(t) /\ (SortInv(s) => SortInv(t))
    BY <2>t, <2>1, WriteIs
  <2>3. ch' = t
    BY <1>3, <2>t, <2>v
  <2>4. Good(t)
    BY <2>1, <2>2 DEF Good
  <2> QED BY <2>3, <2>4
<1> QED BY <1>1, <1>2, <1>3

\* A request gives up.
LEMMA RequestTimeoutStep ==
    ASSUME Good(ch), NEW c, OnConnectionRequestTimeout(c)
    PROVE  Good(ch')
<1>s. PICK s : s = [ch EXCEPT !.reqs[c] = @ - 1]
  OBVIOUS
<1>1. c \in ch.conns /\ ch.reqs[c] > 0 /\ ch' = [s EXCEPT !.io = s.q = <<>>]
  BY <1>s DEF OnConnectionRequestTimeout, Handle
<1>2. Good(s)
  BY <1>1, <1>s, RequestDone
<1> QED BY <1>1, <1>2, IoIs

\* A response.
LEMMA ResponseStep ==
    ASSUME Good(ch), NEW c, OnConnectionRequestResponse(c)
    PROVE  Good(ch')
<1>v. PICK v \in {"WRITABLE", "CONNECT", "TIMEOUT"} : v = "WRITABLE"
  OBVIOUS
<1>t. PICK t : t = SetStates(ch, ch.read, Put(ch.write, {c}, v))
  OBVIOUS
<1>1. PICK r \in Samples :
         ch' = [t EXCEPT !.pings[c] = FALSE, !.reqs[c] = @ - 1,
                         !.rtt[c] = (RTT_RATIO * @ + r) \div (RTT_RATIO + 1)]
  BY <1>t, <1>v DEF OnConnectionRequestResponse, Serve
<1>2. c \in ch.conns /\ ch.reqs[c] > 0 /\ Sound(ch) /\ SortInv(ch)
  BY DEF OnConnectionRequestResponse, Good
<1>3. Sound(t) /\ (SortInv(ch) => SortInv(t)) /\ t.conns = ch.conns /\ t.reqs = ch.reqs
  BY <1>2, <1>t, WriteIs
<1>4. Good(t)
  BY <1>2, <1>3 DEF Good
<1>5. t \in States /\ c \in Conns /\ t.reqs[c] > 0
  BY <1>2, <1>3 DEF Sound, Shape, States
<1>6. /\ t.pings \in [Conns -> BOOLEAN] /\ t.reqs \in [Conns -> 0 .. MaxRequests]
      /\ t.rtt \in [Conns -> Nat]
  BY <1>5 DEF States
<1>p. PICK a, b, d : /\ a = [t.pings EXCEPT ![c] = FALSE]
                     /\ b = [t.reqs EXCEPT ![c] = @ - 1]
                     /\ d = [t.rtt EXCEPT ![c] = (RTT_RATIO * @ + r) \div (RTT_RATIO + 1)]
  OBVIOUS
<1>7. a \in [Conns -> BOOLEAN]
  BY <1>6, <1>p
<1>8. b \in [Conns -> 0 .. MaxRequests]
  <2>1. t.reqs[c] - 1 \in 0 .. MaxRequests
    BY <1>5, <1>6, ChannelAssumption
  <2> QED BY <1>6, <1>p, <2>1
<1>9. d \in [Conns -> Nat]
  <2>1. r \in Nat /\ t.rtt[c] \in Nat
    BY <1>5, <1>6, ChannelAssumption
  <2>2. (RTT_RATIO * t.rtt[c] + r) \div (RTT_RATIO + 1) \in Nat
    BY <2>1 DEF RTT_RATIO
  <2> QED BY <1>6, <1>p, <2>2
<1>y. PICK y : y = [t EXCEPT !.pings = a, !.reqs = b, !.rtt = d]
  OBVIOUS
<1>10. Plain(t, y)
  BY <1>5, <1>7, <1>8, <1>9, <1>y, NewAnswers
<1>11. Good(y)
  BY <1>4, <1>10, PlainKeeps
<1>12. ch' = y
  BY <1>1, <1>p, <1>y
<1> QED BY <1>11, <1>12

-----------------------------------------------------------------------------
(* Delayed messages and the signaling thread.                              *)

\* MSG_PING is due.
LEMMA PingDueStep ==
    ASSUME Good(ch), PingDue
    PROVE  Good(ch')
<1>m. PICK m : m = PingMsg
  OBVIOUS
<1>1. m \in Sent /\ m.id # "ALLOCATE"
  BY <1>m, MessagesSent
<1>u. PICK u : u = Post(ch, m)
  OBVIOUS
<1>2. Good(u)
  BY <1>1, <1>u, PostKeeps
<1>d. PICK d \in {"delayed", "queued"} : d = "queued"
  OBVIOUS
<1>t. PICK t : t = [u EXCEPT !.ping = d]
  OBVIOUS
<1>3. Good(t)
  BY <1>2, <1>t, PingKeeps
<1>4. ch' = t
  BY <1>m, <1>u, <1>d, <1>t DEF PingDue
<1> QED BY <1>3, <1>4

\* The signaling thread passes a candidate on.
LEMMA OfferStep ==
    ASSUME Good(ch), Offer
    PROVE  Good(ch')
<1>1. PICK k \in Cands : ch' = [Post(ch, CandidateMsg(k)) EXCEPT !.offered = @ \cup {k}]
  BY DEF Offer
<1>m. PICK m : m = CandidateMsg(k)
  OBVIOUS
<1>2. m \in Sent /\ m.id # "ALLOCATE"
  BY <1>m, MessagesSent
<1>u. PICK u : u = Post(ch, m)
  OBVIOUS
<1>3. Good(u)
  BY <1>2, <1>u, PostKeeps
<1>4. u \in States /\ u.offered \in SUBSET Cands
  BY <1>3 DEF Good, Sound, Shape, States
<1>r. PICK R, t : R = u.offered \cup {k} /\ t = [u EXCEPT !.offered = R]
  OBVIOUS
<1>5. R \in SUBSET Cands
  BY <1>4, <1>r
<1>6. Plain(u, t)
  BY <1>4, <1>5, <1>r, NewOffered
<1>7. Good(t)
  BY <1>3, <1>6, PlainKeeps
<1>8. ch' = t
  BY <1>1, <1>m, <1>u, <1>r
<1> QED BY <1>7, <1>8

Replied(s, t, a, l) ==
    /\ t \in States /\ ConnFields(s, t) /\ t.q = s.q /\ t.asked = a /\ t.left = l
    /\ t.writable = s.writable /\ t.wasWritable = s.wasWritable
    /\ t.wasTimedOut = s.wasTimedOut /\ t.waiting = s.waiting
    /\ t.delayed = s.delayed /\ t.ping = s.ping

\* Only the answers that are left change.
LEMMA NewReplied ==
    ASSUME NEW s \in States, NEW a \in 0 .. MaxAnswers, NEW l \in 0 .. MaxAnswers,
           NEW t, t = [s EXCEPT !.asked = a, !.left = l]
    PROVE  Replied(s, t, a, l)
<1>1. t \in States
  BY DEF States
<1>2. ConnFields(s, t)
  BY DEF States, ConnFields
<1> QED BY <1>1, <1>2, ZenonT(60) DEF States, Replied

\* The signaling thread answers.
LEMMA AnswerStep ==
    ASSUME Good(ch), Answer
    PROVE  Good(ch')
<1>m. PICK m : m = ReadyMsg
  OBVIOUS
<1>1. m \in Sent /\ m.id # "ALLOCATE" /\ m.id = "ONSIGNALINGREADY"
  BY <1>m, MessagesSent
<1>u. PICK u : u = Post(ch, m)
  OBVIOUS
<1>2. Good(u) /\ AllocFields(ch, u) /\ u.q = Append(ch.q, m)
  BY <1>1, <1>u, PostKeeps
<1>3. ch.asked > 0 /\ ch' = [u EXCEPT !.asked = @ - 1, !.left = @ - 1]
  BY <1>m, <1>u DEF Answer
<1>4. /\ Shape(u) /\ AllocInv(u) /\ DoomedInv(u) /\ SortInv(u) /\ u.ping # "off"
      /\ u \in States /\ u.asked <= u.left /\ u.q \in Seq(Sent)
  BY <1>2 DEF Good, Sound, Shape
<1>5. u.asked > 0 /\ u.asked \in 0 .. MaxAnswers /\ u.left \in 0 .. MaxAnswers
  BY <1>2, <1>3, <1>4 DEF AllocFields, States
<1>a. PICK a, l : a = u.asked - 1 /\ l = u.left - 1
  OBVIOUS
<1>6. a \in 0 .. MaxAnswers /\ l \in 0 .. MaxAnswers /\ a <= l
  BY <1>4, <1>5, <1>a, ChannelAssumption
<1>t. PICK t : t = [u EXCEPT !.asked = a, !.left = l]
  OBVIOUS
<1>7. Replied(u, t, a, l)
  <2>1. u \in States /\ a \in 0 .. MaxAnswers /\ l \in 0 .. MaxAnswers
    BY <1>4, <1>6
  <2> QED BY <1>t, <2>1, NewReplied
<1>8. CountOf(u.q, Readies) # 0
  <2>1. ch.q \in Seq(Sent)
    BY DEF Good, Sound, Shape
  <2> QED BY <1>1, <1>2, <2>1, Posted
<1>9. AllocInv(t)
  BY <1>4, <1>7, <1>8 DEF AllocInv, AllocBut, Replied
<1>10. t \in States /\ ConnFields(u, t) /\ t.q = u.q /\ t.ping = u.ping
  BY <1>7 DEF Replied
<1>11. Kept(u.q, t.q) /\ t.asked <= t.left /\ t.writable = u.writable
  BY <1>4, <1>6, <1>7, <1>10 DEF Replied, Kept
<1>12. /\ Shape(t)
       /\ DoomedInv(u) => DoomedInv(t)
       /\ SortInv(u) /\ t.writable = u.writable => SortInv(t)
  BY <1>4, <1>10, <1>11, ConnKept
<1>13. Good(t)
  BY <1>4, <1>9, <1>10, <1>11, <1>12 DEF Good, Sound
<1>14. ch' = t
  BY <1>3, <1>a, <1>t
<1> QED BY <1>13, <1>14

\* MSG_ALLOCATE is due.
LEMMA AllocateDueStep ==
    ASSUME Good(ch), AllocateDue
    PROVE  Good(ch')
<1>m. PICK m : m = AllocateMsg
  OBVIOUS
<1>1. m \in Sent /\ m.id = "ALLOCATE"
  BY <1>m, MessagesSent
<1>2. /\ Shape(ch) /\ AllocInv(ch) /\ DoomedInv(ch) /\ SortInv(ch) /\ ch.ping # "off"
      /\ ch \in States /\ ch.asked <= ch.left /\ ch.q \in Seq(Sent)
  BY DEF Good, Sound, Shape
<1>q. PICK p, q : p = ch.q /\ q = Append(p, m)
  OBVIOUS
<1>3. Kept(p, q) /\ CountOf(q, Allocs) = CountOf(p, Allocs) + 1
  BY <1>1, <1>2, <1>q, Posted
<1>4. CountOf(p, Allocs) \in Nat
  BY <1>2, <1>q, CountsTyped
<1>5. q \in Seq(Messages)
  BY <1>3 DEF Kept, Sent
<1>u. PICK u : u = [ch EXCEPT !.q = q]
  OBVIOUS
<1>6. Queued(ch, u, q)
  BY <1>2, <1>5, <1>u, QueuedIs
<1>7. ch.delayed > 0 /\ ch.delayed \in Nat
  BY <1>2 DEF AllocateDue, States
<1>n. PICK n : n = ch.delayed - 1
  OBVIOUS
<1>8. n \in Nat /\ n + 1 = ch.delayed
  BY <1>7, <1>n
<1>9. u \in States /\ u.delayed = ch.delayed
  BY <1>6 DEF Queued, Frame
<1>t. PICK t : t = [u EXCEPT !.delayed = n]
  OBVIOUS
<1>10. /\ t \in States /\ ConnFields(u, t) /\ t.q = u.q /\ t.delayed = n
       /\ t.writable = u.writable /\ t.wasWritable = u.wasWritable
       /\ t.wasTimedOut = u.wasTimedOut /\ t.waiting = u.waiting /\ t.asked = u.asked
       /\ t.left = u.left /\ t.ping = u.ping
  <2>1. u \in States /\ n \in Nat
    BY <1>8, <1>9
  <2> QED BY <1>t, <2>1, NewDelayed
<1>11. ConnFields(ch, t)
  BY <1>6, <1>10 DEF Queued, Frame, ConnFields
<1>12. /\ t.q = q /\ t.writable = ch.writable /\ t.wasWritable = ch.wasWritable
       /\ t.wasTimedOut = ch.wasTimedOut /\ t.waiting = ch.waiting /\ t.asked = ch.asked
       /\ t.left = ch.left /\ t.ping = ch.ping
  BY <1>6, <1>10 DEF Queued, Frame
<1>13. t.delayed + CountOf(t.q, Allocs) = ch.delayed + CountOf(ch.q, Allocs)
  BY <1>3, <1>4, <1>8, <1>10, <1>12, <1>q
<1>14. Kept(ch.q, t.q)
  BY <1>3, <1>12, <1>q
<1>15. AllocInv(t)
  BY <1>2, <1>12, <1>13, <1>14 DEF AllocInv, AllocBut, Kept
<1>16. t.asked <= t.left
  BY <1>2, <1>12
<1>17. /\ Shape(t)
       /\ DoomedInv(ch) => DoomedInv(t)
       /\ SortInv(ch) /\ t.writable = ch.writable => SortInv(t)
  BY <1>2, <1>10, <1>11, <1>14, <1>16, ConnKept
<1>18. Good(t)
  BY <1>2, <1>12, <1>15, <1>17 DEF Good, Sound
<1>19. ch' = t
  <2>1. ch' = [u EXCEPT !.delayed = @ - 1]
    BY <1>m, <1>q, <1>u DEF AllocateDue, Post
  <2> QED BY <1>9, <1>n, <1>t, <2>1
<1> QED BY <1>18, <1>19

\* The constructors leave a channel to which nothing has happened.
LEMMA InitIs ==
    ASSUME NEW i, i = ChannelInit
    PROVE  /\ Shape(i) /\ AllocInv(i) /\ DoomedInv(i) /\ SortInv(i) /\ i.ping = "off"
           /\ i.q = <<>> /\ i.conns = {} /\ i.asked = 0 /\ i.delayed = 0 /\ ~i.session
           /\ i.port = [p \in Ports |-> "none"] /\ ~i.waiting /\ ~i.dirty /\ ~i.writable
<1>1. i \in States
  BY ChannelAssumption DEF States, ChannelInit, DEFAULT_RTT
<1>2. /\ i.conns = {} /\ i.best = None /\ i.dirty = FALSE /\ i.writable = FALSE
      /\ i.wasWritable = FALSE /\ i.wasTimedOut = TRUE /\ i.waiting = FALSE /\ i.asked = 0
      /\ i.left = MaxAnswers /\ i.delayed = 0 /\ i.ok = TRUE /\ i.q = <<>> /\ i.ping = "off"
      /\ i.session = FALSE
  BY DEF ChannelInit
<1>3. /\ i.read = [c \in Conns |-> "TIMEOUT"] /\ i.write = [c \in Conns |-> "CONNECT"]
      /\ i.port = [p \in Ports |-> "none"]
  BY DEF ChannelInit
<1>4. CountOf(i.q, Allocs) = 0
  BY <1>2, CountEmpty
<1>5. Shape(i)
  BY <1>1, <1>2, <1>3, ChannelAssumption DEF Shape
<1>6. AllocInv(i)
  BY <1>2, <1>4 DEF AllocInv, AllocBut
<1>7. DoomedInv(i)
  BY <1>2 DEF DoomedInv, Doomed
<1>8. SortInv(i)
  BY <1>2 DEF SortInv, DirtyInv, BestIsBest, WritableConns
<1> QED BY <1>2, <1>3, <1>5, <1>6, <1>7, <1>8

\* Connect.
LEMMA ConnectStep ==
    ASSUME ChannelInv, Connect
    PROVE  Good(ch')
<1>i. PICK i : i = ch
  OBVIOUS
<1>1. i = ChannelInit
  BY <1>i DEF ChannelInv, Connect, Good, Sound
<1>2. /\ Shape(i) /\ AllocInv(i) /\ DoomedInv(i) /\ SortInv(i)
      /\ i \in States /\ i.asked <= i.left /\ i.q \in Seq(Sent)
  BY <1>1, InitIs DEF Shape
<1>u. PICK u : u = Allocate(i)
  OBVIOUS
<1>3. Requested(i, u)
  BY <1>2, <1>u, AllocateIs
<1>4. u \in States /\ ConnFields(i, u) /\ Kept(i.q, u.q) /\ u.asked <= u.left
  BY <1>3 DEF Requested
<1>d. PICK d \in {"delayed", "queued"} : d = "queued"
  OBVIOUS
<1>w. PICK w : w = [u EXCEPT !.ping = d]
  OBVIOUS
<1>5. Pinged(u, w, d)
  BY <1>4, <1>w, NewPing
<1>6. /\ w \in States /\ ConnFields(i, w) /\ Kept(i.q, w.q) /\ w.asked <= w.left
      /\ w.q = u.q /\ w.writable = i.writable
  BY <1>3, <1>4, <1>5 DEF Pinged, ConnFields, Requested
<1>7. /\ Shape(w)
      /\ DoomedInv(i) => DoomedInv(w)
      /\ SortInv(i) /\ w.writable = i.writable => SortInv(w)
  BY <1>2, <1>6, ConnKept
<1>8. AllocInv(w)
  BY <1>2, <1>3, <1>5 DEF AllocInv, AllocBut, Requested, Pinged
<1>9. w.ping # "off"
  BY <1>5 DEF Pinged
<1>10. Good(w)
  BY <1>2, <1>6, <1>7, <1>8, <1>9 DEF Good, Sound
<1>m. PICK m : m = PingMsg
  OBVIOUS
<1>11. m \in Sent /\ m.id # "ALLOCATE"
  BY <1>m, MessagesSent
<1>t. PICK t : t = Post(w, m)
  OBVIOUS
<1>12. Good(t)
  BY <1>10, <1>11, <1>t, PostKeeps
<1>13. ch' = t
  <2>q. PICK q : q = Append(u.q, m)
    OBVIOUS
  <2>1. ch' = [[u EXCEPT !.q = q] EXCEPT !.ping = d]
    BY <1>i, <1>u, <1>m, <1>d, <2>q DEF Connect, Post
  <2>2. t = [w EXCEPT !.q = q]
    BY <1>t, <1>6, <2>q DEF Post
  <2> QED BY <1>w, <2>1, <2>2
<1> QED BY <1>12, <1>13

-----------------------------------------------------------------------------
(* Connections are deleted.                                                *)

\* The queue when the connections in S are gone.
DeletedFrom(q, p, S) ==
    /\ p \in Seq(Sent)
    /\ CountOf(p, Sorts) = CountOf(q, Sorts)
    /\ CountOf(p, Readies) = CountOf(q, Readies)
    /\ CountOf(p, Allocs) = CountOf(q, Allocs)
    /\ \A c : c \notin S => CountOf(p, Deletes(c)) = CountOf(q, Deletes(c))

\* Only MSG_DELETEs of connections in S are lost.
LEMMA DeletedQueue ==
    ASSUME NEW q \in Seq(Sent), NEW S,
           NEW p, p = [i \in DOMAIN q |-> [q[i] EXCEPT !.conns = @ \ S]]
    PROVE  DeletedFrom(q, p, S)
<1>1. Len(q) \in Nat /\ DOMAIN q = 1 .. Len(q) /\ \A i \in DOMAIN q : q[i] \in Sent
  OBVIOUS
<1>2. DOMAIN p = DOMAIN q /\ \A i \in DOMAIN q : p[i] = [q[i] EXCEPT !.conns = @ \ S]
  OBVIOUS
<1>3. ASSUME NEW m \in Sent, NEW n, n = [m EXCEPT !.conns = @ \ S]
      PROVE  n \in Sent /\ n \in Messages /\ m \in Messages /\ n.id = m.id /\ n.conns = m.conns \ S
  <2>1. m \in Messages /\ n.id = m.id /\ n.cand = m.cand /\ n.conns = m.conns \ S
    BY <1>3 DEF Sent, Messages
  <2>2. n \in Messages
    BY <1>3 DEF Sent, Messages
  <2> QED BY <2>1, <2>2 DEF Sent
<1>4. \A i \in DOMAIN q : /\ p[i] \in Sent /\ p[i] \in Messages /\ q[i] \in Messages
                          /\ p[i].id = q[i].id /\ p[i].conns = q[i].conns \ S
  BY <1>1, <1>2, <1>3
<1>5. p \in Seq(Sent)
  <2>1. p \in [1 .. Len(q) -> Sent]
    BY <1>1, <1>2, <1>4
  <2> QED BY <1>1, <2>1
<1>6. ASSUME NEW P, \A i \in DOMAIN q : p[i] \in P <=> q[i] \in P
      PROVE  CountOf(p, P) = CountOf(q, P)
  <2>1. Places(p, P) = Places(q, P)
    BY <1>2, <1>6 DEF Places
  <2> QED BY <2>1 DEF CountOf
<1>7. \A i \in DOMAIN q : /\ p[i] \in Sorts <=> q[i] \in Sorts
                          /\ p[i] \in Readies <=> q[i] \in Readies
                          /\ p[i] \in Allocs <=> q[i] \in Allocs
                          /\ \A c : c \notin S => (p[i] \in Deletes(c) <=> q[i] \in Deletes(c))
  BY <1>4 DEF Sorts, Readies, Allocs, Deletes
<1>8. CountOf(p, Sorts) = CountOf(q, Sorts)
  BY <1>6, <1>7
<1>9. CountOf(p, Readies) = CountOf(q, Readies)
  BY <1>6, <1>7
<1>10. CountOf(p, Allocs) = CountOf(q, Allocs)
  BY <1>6, <1>7
<1>11. ASSUME NEW c, c \notin S PROVE CountOf(p, Deletes(c)) = CountOf(q, Deletes(c))
  BY <1>6, <1>7, <1>11
<1> QED BY <1>5, <1>8, <1>9, <1>10, <1>11 DEF DeletedFrom

Forgotten(s, t, C, r, w) ==
    /\ t \in States /\ AllocFields(s, t) /\ t.q = s.q /\ t.best = s.best
    /\ t.dirty = s.dirty /\ t.ok = s.ok /\ t.conns = C /\ t.read = r /\ t.write = w

\* Only what is known of connections changes.
LEMMA NewForgotten ==
    ASSUME NEW s \in States, NEW C \in SUBSET Conns, NEW r \in ReadStates,
           NEW w \in WriteStates, NEW p \in [Conns -> BOOLEAN], NEW g \in [Conns -> BOOLEAN],
           NEW n \in [Conns -> 0 .. MaxRequests], NEW x \in [Conns -> Nat],
           NEW t, t = [s EXCEPT !.conns = C, !.read = r, !.write = w, !.pruned = p,
                                !.pings = g, !.reqs = n, !.rtt = x]
    PROVE  Forgotten(s, t, C, r, w)
<1>1. t \in States
  BY DEF States, ReadStates, WriteStates
<1>2. AllocFields(s, t)
  BY DEF States, AllocFields
<1> QED BY <1>1, <1>2, ZenonT(60) DEF States, Forgotten

\* The channel is writable only by its best connection.
LEMMA WritableBest ==
    ASSUME NEW s, Shape(s), BestIsBest(s), WritableConns(s) # {}
    PROVE  s.best \in WritableConns(s)
<1>1. s \in States /\ s.conns \in SUBSET Conns /\ (s.best = None \/ s.best \in s.conns)
  BY DEF Shape, States
<1>2. PICK c \in s.conns : s.write[c] = "WRITABLE"
  BY DEF WritableConns
<1>3. s.best \in s.conns /\ ~Prefers(s, c, s.best)
  BY <1>1, <1>2 DEF BestIsBest
<1>4. s.write[s.best] \in {"WRITABLE", "CONNECT", "TIMEOUT"}
  BY <1>1, <1>3 DEF States
<1>5. s.write[s.best] = "WRITABLE"
  BY <1>2, <1>3, <1>4, WriteOrders DEF Prefers
<1> QED BY <1>3, <1>5 DEF WritableConns

\* What is left when the connections in S are gone, before best_connection_.
Gone(s, v, S) ==
    /\ v \in States /\ v.q \in Seq(Sent) /\ AllocInv(v) /\ v.ping # "off"
    /\ v.conns = s.conns \ S /\ v.best = s.best /\ v.ok /\ v.asked <= v.left
    /\ v.writable = s.writable
    /\ v.dirty = s.dirty /\ CountOf(v.q, Sorts) = CountOf(s.q, Sorts)
    /\ \A c \in Conns : c \notin S => v.read[c] = s.read[c] /\ v.write[c] = s.write[c]
    /\ \A c \in Conns \ v.conns : v.read[c] = "TIMEOUT" /\ v.write[c] = "CONNECT"
    /\ \A c \in s.conns \ S : CountOf(s.q, Deletes(c)) # 0 => CountOf(v.q, Deletes(c)) # 0

\* The records of the connections and the queue.
LEMMA GoneIs ==
    ASSUME NEW s, Shape(s), AllocInv(s), s.ping # "off", NEW S \in SUBSET Conns,
           NEW v,
           v = [s EXCEPT
                  !.conns = @ \ S, !.read = Put(@, S, "TIMEOUT"),
                  !.write = Put(@, S, "CONNECT"), !.pruned = Put(@, S, FALSE),
                  !.pings = Put(@, S, FALSE), !.reqs = Put(@, S, 0),
                  !.rtt = Put(@, S, DEFAULT_RTT),
                  !.q = [i \in DOMAIN @ |-> [s.q[i] EXCEPT !.conns = @ \ S]]]
    PROVE  Gone(s, v, S)
<1>1. /\ s \in States /\ s.q \in Seq(Sent) /\ s.asked <= s.left /\ s.ok
      /\ \A c \in Conns \ s.conns : s.read[c] = "TIMEOUT" /\ s.write[c] = "CONNECT"
  BY DEF Shape
<1>2. /\ s.conns \in SUBSET Conns /\ s.read \in ReadStates /\ s.write \in WriteStates
      /\ s.pruned \in [Conns -> BOOLEAN] /\ s.pings \in [Conns -> BOOLEAN]
      /\ s.reqs \in [Conns -> 0 .. MaxRequests] /\ s.rtt \in [Conns -> Nat]
  BY <1>1 DEF States, ReadStates, WriteStates
<1>c. PICK C, r, w : /\ C = s.conns \ S
                     /\ r = Put(s.read, S, "TIMEOUT")
                     /\ w = Put(s.write, S, "CONNECT")
  OBVIOUS
<1>p. PICK p, g, n, x : /\ p = Put(s.pruned, S, FALSE) /\ g = Put(s.pings, S, FALSE)
                        /\ n = Put(s.reqs, S, 0) /\ x = Put(s.rtt, S, DEFAULT_RTT)
  OBVIOUS
<1>o. PICK o, q : o = s.q /\ q = [i \in DOMAIN o |-> [o[i] EXCEPT !.conns = @ \ S]]
  OBVIOUS
<1>3. C \in SUBSET Conns
  BY <1>2, <1>c
<1>4. r \in ReadStates /\ \A c \in Conns : r[c] = IF c \in S THEN "TIMEOUT" ELSE s.read[c]
  BY <1>2, <1>c DEF Put, ReadStates
<1>5. w \in WriteStates /\ \A c \in Conns : w[c] = IF c \in S THEN "CONNECT" ELSE s.write[c]
  BY <1>2, <1>c DEF Put, WriteStates
<1>6. p \in [Conns -> BOOLEAN]
  BY <1>2, <1>p DEF Put
<1>7. g \in [Conns -> BOOLEAN]
  BY <1>2, <1>p DEF Put
<1>8. n \in [Conns -> 0 .. MaxRequests]
  BY <1>2, <1>p, ChannelAssumption DEF Put
<1>9. x \in [Conns -> Nat]
  BY <1>2, <1>p DEF Put, DEFAULT_RTT
<1>u. PICK u : u = [s EXCEPT !.conns = C, !.read = r, !.write = w, !.pruned = p,
                             !.pings = g, !.reqs = n, !.rtt = x]
  OBVIOUS
<1>10. Forgotten(s, u, C, r, w)
  BY <1>1, <1>3, <1>4, <1>5, <1>6, <1>7, <1>8, <1>9, <1>u, NewForgotten
<1>11. /\ q \in Seq(Sent)
       /\ CountOf(q, Sorts) = CountOf(o, Sorts)
       /\ CountOf(q, Readies) = CountOf(o, Readies)
       /\ CountOf(q, Allocs) = CountOf(o, Allocs)
       /\ \A c : c \notin S => CountOf(q, Deletes(c)) = CountOf(o, Deletes(c))
  <2>1. o \in Seq(Sent)
    BY <1>1, <1>o
  <2>2. DeletedFrom(o, q, S)
    BY <1>o, <2>1, DeletedQueue
  <2> QED BY <2>2 DEF DeletedFrom
<1>12. v = [u EXCEPT !.q = q]
  BY <1>c, <1>p, <1>o, <1>u
<1>13. Queued(u, v, q)
  <2>1. q \in Seq(Messages)
    BY <1>11 DEF Sent
  <2>2. u \in States
    BY <1>10 DEF Forgotten
  <2> QED BY <1>12, <2>1, <2>2, QueuedIs
<1>14. /\ v \in States /\ v.conns = C /\ v.read = r /\ v.write = w /\ v.q = q
       /\ v.best = s.best /\ v.ok = s.ok /\ v.dirty = s.dirty
  BY <1>10, <1>13 DEF Queued, Frame, Forgotten
<1>15. AllocFields(s, v)
  BY <1>10, <1>13 DEF Queued, Frame, Forgotten, AllocFields
<1>16. AllocInv(v)
  BY <1>11, <1>14, <1>15, <1>o DEF AllocInv, AllocBut, AllocFields
<1>17. v.ping # "off" /\ v.asked <= v.left /\ v.writable = s.writable
  BY <1>1, <1>15 DEF AllocFields
<1>18. \A c \in Conns : c \notin S => v.read[c] = s.read[c] /\ v.write[c] = s.write[c]
  BY <1>4, <1>5, <1>14
<1>19. \A c \in Conns \ v.conns : v.read[c] = "TIMEOUT" /\ v.write[c] = "CONNECT"
  BY <1>1, <1>4, <1>5, <1>14, <1>c
<1>20. \A c \in s.conns \ S : CountOf(s.q, Deletes(c)) # 0 => CountOf(v.q, Deletes(c)) # 0
  BY <1>11, <1>14, <1>o
<1>21. CountOf(v.q, Sorts) = CountOf(s.q, Sorts)
  BY <1>11, <1>14, <1>o
<1> QED BY <1>1, <1>11, <1>14, <1>16, <1>17, <1>18, <1>19, <1>20, <1>21, <1>c DEF Gone

\* OnConnectionDestroyed.
LEMMA DestroyedIs ==
    ASSUME NEW s, Shape(s), AllocInv(s), SortInv(s), s.ping # "off",
           NEW S \in SUBSET Conns,
           DoomedBut(s, S), NEW t, t = OnConnectionDestroyed(s, S)
    PROVE  Good(t)
<1>v. PICK v :
         v = [s EXCEPT
                !.conns = @ \ S, !.read = Put(@, S, "TIMEOUT"),
                !.write = Put(@, S, "CONNECT"), !.pruned = Put(@, S, FALSE),
                !.pings = Put(@, S, FALSE), !.reqs = Put(@, S, 0),
                !.rtt = Put(@, S, DEFAULT_RTT),
                !.q = [i \in DOMAIN @ |-> [s.q[i] EXCEPT !.conns = @ \ S]]]
  OBVIOUS
<1>1. t = IF s.best \in S THEN RequestSort([v EXCEPT !.best = None]) ELSE v
  BY <1>v DEF OnConnectionDestroyed
<1>2. Gone(s, v, S)
  BY <1>v, GoneIs
<1>3. s \in States /\ s.conns \in SUBSET Conns /\ (s.best = None \/ s.best \in s.conns)
  BY DEF Shape, States
<1>4. DoomedInv(v)
  <2> SUFFICES ASSUME NEW c \in Doomed(v) PROVE CountOf(v.q, Deletes(c)) # 0
    BY DEF DoomedInv
  <2>1. c \in s.conns \ S /\ v.read[c] = "TIMEOUT" /\ v.write[c] = "TIMEOUT"
    BY <1>2 DEF Doomed, Gone
  <2>2. c \in Doomed(s)
    BY <1>2, <1>3, <2>1 DEF Doomed, Gone
  <2> QED BY <1>2, <2>1, <2>2 DEF Gone, DoomedBut
<1>5. DirtyInv(v)
  BY <1>2 DEF SortInv, DirtyInv, Gone
<1>6. CASE s.best \notin S
  <2>1. t = v
    BY <1>1, <1>6
  <2>2. Shape(v)
    BY <1>2, <1>3, <1>6 DEF Shape, Gone
  <2>3. CountOf(v.q, Sorts) # 0 \/ BestIsBest(v)
    <3>1. CASE CountOf(s.q, Sorts) # 0
      BY <1>2, <3>1 DEF Gone
    <3>2. CASE BestIsBest(s)
      <4>1. v.conns = s.conns \ S /\ v.best = s.best /\ v.writable = s.writable
        BY <1>2 DEF Gone
      <4>2. \A c \in v.conns : c \in s.conns /\ c \in Conns /\ v.write[c] = s.write[c]
        BY <1>2, <1>3 DEF Gone
      <4>3. WritableConns(v) # {} <=> WritableConns(s) # {}
        <5>1. WritableConns(v) \subseteq WritableConns(s)
          BY <4>1, <4>2 DEF WritableConns
        <5>2. ASSUME WritableConns(s) # {} PROVE s.best \in WritableConns(v)
          <6>1. s.best \in WritableConns(s)
            BY <3>2, <5>2, WritableBest
          <6> QED BY <1>6, <4>1, <4>2, <6>1 DEF WritableConns
        <5> QED BY <5>1, <5>2
      <4>4. ASSUME v.conns # {}
            PROVE  v.best # None /\ \A c \in v.conns : ~Prefers(v, c, v.best)
        <5>1. s.conns # {}
          BY <4>1, <4>4
        <5>2. s.best # None /\ \A c \in s.conns : ~Prefers(s, c, s.best)
          BY <3>2, <5>1 DEF BestIsBest
        <5>3. s.best \in v.conns /\ v.write[s.best] = s.write[s.best]
          BY <1>3, <1>6, <4>1, <4>2, <5>2
        <5> QED BY <4>1, <4>2, <5>2, <5>3 DEF Prefers
      <4> QED BY <3>2, <4>1, <4>3, <4>4 DEF BestIsBest
    <3> QED BY <3>1, <3>2 DEF SortInv
  <2> QED BY <1>2, <1>4, <1>5, <2>1, <2>2, <2>3 DEF Good, Sound, SortInv, Gone
<1>7. CASE s.best \in S
  <2>0. v \in States /\ v.q \in Seq(Sent) /\ AllocInv(v) /\ v.dirty \in BOOLEAN
    BY <1>2 DEF Gone, States
  <2>b. PICK d, b : d = v.dirty /\ b = None
    OBVIOUS
  <2>w. PICK w : w = [v EXCEPT !.dirty = d, !.best = b]
    OBVIOUS
  <2>1. Bested(v, w, d, b)
    <3>1. d \in BOOLEAN /\ b \in Conns \cup {None}
      BY <2>0, <2>b
    <3> QED BY <2>0, <2>w, <3>1, NewBest
  <2>2. w = [v EXCEPT !.best = None]
    BY <2>0, <2>b, <2>w DEF States
  <2>3. t = RequestSort(w)
    BY <1>1, <1>7, <2>2
  <2>4. w \in States /\ w.q = v.q
    BY <2>1 DEF Bested
  <2>5. /\ t \in States /\ Frame(w, t) /\ t.read = w.read /\ t.write = w.write
        /\ t.dirty /\ Kept(w.q, t.q) /\ SameAllocs(w.q, t.q)
        /\ w.dirty \/ CountOf(t.q, Sorts) # 0
    BY <2>0, <2>3, <2>4, RequestSortIs
  <2>6. /\ t.conns = v.conns /\ t.read = v.read /\ t.write = v.write /\ t.best = None
        /\ t.ok = v.ok
    BY <2>b, <2>1, <2>5 DEF Bested, Frame
  <2>7. AllocFields(v, t)
    BY <2>1, <2>5 DEF Bested, Frame, AllocFields
  <2>8. Kept(v.q, t.q) /\ SameAllocs(v.q, t.q)
    BY <2>4, <2>5
  <2>9. AllocInv(t)
    BY <2>0, <2>7, <2>8, AllocKept
  <2>10. Shape(t)
    BY <1>2, <2>5, <2>6, <2>7, <2>8 DEF Shape, Gone, AllocFields, Kept
  <2>11. DoomedInv(t)
    BY <1>4, <2>6, <2>8 DEF DoomedInv, Doomed, Kept
  <2>12. CountOf(t.q, Sorts) # 0
    <3>1. w.dirty = v.dirty
      BY <2>b, <2>1 DEF Bested
    <3>2. v.dirty => CountOf(v.q, Sorts) # 0
      BY <1>5 DEF DirtyInv
    <3> QED BY <2>5, <2>8, <3>1, <3>2 DEF Kept
  <2>13. t.ping # "off"
    BY <1>2, <2>7 DEF Gone, AllocFields
  <2> QED BY <2>9, <2>10, <2>11, <2>12, <2>13 DEF Good, Sound, SortInv, DirtyInv
<1> QED BY <1>6, <1>7

\* MSG_DELETE.
LEMMA DeleteStep ==
    ASSUME Good(ch), OnDelete
    PROVE  Good(ch')
<1>s. PICK s : s = [ch EXCEPT !.q = Tail(@)]
  OBVIOUS
<1>h. PICK h : h = Head(ch.q)
  OBVIOUS
<1>S. PICK S : S = h.conns
  OBVIOUS
<1>t. PICK t : t = OnConnectionDestroyed(s, S)
  OBVIOUS
<1>1. ch.q # <<>> /\ h.id = "DELETE" /\ ch' = [t EXCEPT !.io = t.q = <<>>]
  BY <1>s, <1>h, <1>S, <1>t DEF OnDelete, Dispatch
<1>2. /\ Shape(s) /\ h \in Sent /\ s.ping # "off"
      /\ h.id \notin {"ALLOCATE", "ONSIGNALINGREADY"} => AllocInv(s)
      /\ h.id # "SORT" => SortInv(s)
      /\ DoomedBut(s, h.conns)
  BY <1>1, <1>s, <1>h, TakenIs
<1>3. Shape(s) /\ AllocInv(s) /\ SortInv(s) /\ s.ping # "off"
  BY <1>1, <1>2
<1>4. S \in SUBSET Conns
  BY <1>2, <1>S DEF Sent, Messages
<1>5. DoomedBut(s, S)
  BY <1>2, <1>S
<1>6. Good(t)
  BY <1>3, <1>4, <1>5, <1>t, DestroyedIs
<1> QED BY <1>1, <1>6, IoIs

-----------------------------------------------------------------------------
(* The invariant and what it says.                                         *)

\* Before Connect nothing else can happen.
LEMMA FirstStep ==
    ASSUME ch = ChannelInit, Next
    PROVE  Connect
<1>1. /\ ch.ping = "off" /\ ch.q = <<>> /\ ch.conns = {} /\ ch.asked = 0
      /\ ch.delayed = 0 /\ ~ch.session /\ ch.port = [p \in Ports |-> "none"]
  BY InitIs
<1>2. ~WorkerStep
  BY <1>1 DEF WorkerStep, OnSort, OnPing, OnAllocate, SignalingReadyMsg, OnCandidate,
              OnDelete, Cleared, Dispatch
<1>3. ~PingDue /\ ~AllocateDue /\ ~Answer /\ ~Offer /\ ~OnPortReady
  <2>1. ~(ch.delayed > 0) /\ ~(ch.asked > 0)
    BY <1>1
  <2>2. ~AllocateDue /\ ~Answer
    BY <2>1 DEF AllocateDue, Answer
  <2>3. ~PingDue /\ ~Offer
    BY <1>1 DEF PingDue, Offer
  <2>4. ~OnPortReady
    BY <1>1 DEF OnPortReady
  <2> QED BY <2>2, <2>3, <2>4
<1>4. ~OnPortDestroyed
  BY <1>1 DEF OnPortDestroyed
<1>5. \A p \in Ports, k \in Cands : ~OnUnknownAddress(p, k)
  BY <1>1 DEF OnUnknownAddress
<1>6. \A c \in Conns : ~Packet(c)
  BY <1>1 DEF Packet, OnBindingRequest, OnData, ReadableConns, OnConnectionRequestResponse,
              OnConnectionRequestErrorResponse, OnConnectionRequestTimeout
<1> QED BY <1>2, <1>3, <1>4, <1>5, <1>6 DEF Next

\* Every step keeps the invariant.
LEMMA ChannelStep ==
    ASSUME ChannelInv, [Next]_ch
    PROVE  ChannelInv'
<1>1. CASE UNCHANGED ch
  BY <1>1 DEF ChannelInv, Good, Sound, Shape, AllocInv, AllocBut, DoomedInv, SortInv,
              DirtyInv, BestIsBest
<1>2. CASE ch = ChannelInit /\ Next
  BY <1>2, FirstStep, ConnectStep DEF ChannelInv
<1>3. CASE Good(ch) /\ Next
  <2>1. ASSUME WorkerStep PROVE Good(ch')
    BY <1>3, <2>1, SortStep, PingStep, AllocateStep, ReadyStep, CandidateStep, DeleteStep,
       ClearedStep DEF WorkerStep
  <2>2. ASSUME PingDue \/ AllocateDue \/ Connect \/ Answer \/ Offer PROVE Good(ch')
    BY <1>3, <2>2, PingDueStep, AllocateDueStep, ConnectStep, AnswerStep, OfferStep
  <2>3. ASSUME OnPortReady \/ OnPortDestroyed PROVE Good(ch')
    BY <1>3, <2>3, PortReadyStep, PortDestroyedStep
  <2>4. ASSUME NEW p \in Ports, NEW k \in Cands, OnUnknownAddress(p, k) PROVE Good(ch')
    BY <1>3, <2>4, UnknownAddressStep
  <2>5. ASSUME NEW c \in Conns, Packet(c) PROVE Good(ch')
    BY <1>3, <2>5, BindingRequestStep, DataStep, ResponseStep, ErrorResponseStep,
       RequestTimeoutStep DEF Packet
  <2>6. Good(ch')
    BY <1>3, <2>1, <2>2, <2>3, <2>4, <2>5 DEF Next
  <2> QED BY <2>6 DEF ChannelInv
<1> QED BY <1>1, <1>2, <1>3 DEF ChannelInv

\* The invariant of the channel: what its messages promise and its members
\* say of each other, in every reachable state.
THEOREM ChannelInvariant == Spec => []ChannelInv
<1>1. Init => ChannelInv
  BY DEF Init, ChannelInv
<1>2. ChannelInv /\ [Next]_ch => ChannelInv'
  BY ChannelStep
<1> QED BY <1>1, <1>2, PTL DEF Spec

\* What the invariant says of a channel before and after Connect.
LEMMA InvariantSays ==
    ASSUME ChannelInv
    PROVE  /\ Shape(ch) /\ AllocInv(ch) /\ DoomedInv(ch) /\ SortInv(ch)
           /\ ch \in States /\ ch.q \in Seq(Sent)
           /\ \A i \in DOMAIN ch.q : ch.q[i] \in Sent
<1>1. Shape(ch) /\ AllocInv(ch) /\ DoomedInv(ch) /\ SortInv(ch)
  BY InitIs DEF ChannelInv, Good, Sound
<1> QED BY <1>1 DEF Shape

\* MSG_SORT, MSG_ALLOCATE and MSG_ONSIGNALINGREADY carry no data.
LEMMA NoData ==
    ASSUME NEW m \in Sent
    PROVE  /\ m \in Sorts <=> m = SortMsg
           /\ m \in Readies <=> m = ReadyMsg
           /\ m \in Allocs <=> m = AllocateMsg
BY DEF Sent, Messages, Sorts, Readies, Allocs, SortMsg, ReadyMsg, AllocateMsg, Msg

\* Every member of the channel and of its connections has its type, and no
\* more pings of a connection are under way than the bound.
THEOREM ChannelTypes == Spec => []TypeOK
<1>1. ChannelInv => TypeOK
  BY InvariantSays DEF TypeOK, States
<1> QED BY <1>1, ChannelInvariant, PTL

\* best_connection_ is NULL or one of connections_, and the ASSERT of
\* UpdateChannelState never fails, in whatever order connections are made,
\* sorted, pruned, timed out and deleted.
THEOREM BestNeverDangles == Spec => []BestIsSound
<1>1. ChannelInv => BestIsSound
  BY InvariantSays DEF BestIsSound, Shape
<1> QED BY <1>1, ChannelInvariant, PTL

\* No change of a connection is overlooked: RequestSort posts whenever no
\* MSG_SORT is coming, and once the sort is done the best connection is one
\* of the best and the channel is writable exactly when a connection is.
THEOREM NoChangeOverlooked == Spec => []SortIsComing
<1>1. ASSUME ChannelInv PROVE SortIsComing
  <2>1. SortInv(ch) /\ ch \in States /\ ch.q \in Seq(Sent) /\ \A i \in DOMAIN ch.q : ch.q[i] \in Sent
    BY <1>1, InvariantSays
  <2>2. CASE CountOf(ch.q, Sorts) # 0
    <3>1. PICK i \in DOMAIN ch.q : ch.q[i] \in Sorts
      BY <2>1, <2>2, CountZero
    <3>2. ch.q[i] = SortMsg
      BY <2>1, <3>1, NoData
    <3> QED BY <3>2 DEF SortIsComing, Has
  <2>3. CASE CountOf(ch.q, Sorts) = 0
    <3>1. ~ch.dirty /\ BestIsBest(ch) /\ ch.writable \in BOOLEAN
      BY <2>1, <2>3 DEF SortInv, DirtyInv, States
    <3> QED BY <3>1 DEF BestIsBest, SortIsComing
  <2> QED BY <2>2, <2>3
<1> QED BY <1>1, ChannelInvariant, PTL

\* A connection that has timed out both ways has its own MSG_DELETE coming.
THEOREM DoomedAreDeleted == Spec => []DoomedIsDeleted
<1>1. ASSUME ChannelInv PROVE DoomedIsDeleted
  <2>1. DoomedInv(ch) /\ ch.q \in Seq(Sent)
    BY <1>1, InvariantSays
  <2>2. ASSUME NEW c \in Doomed(ch)
        PROVE  \E i \in DOMAIN ch.q : ch.q[i].id = "DELETE" /\ c \in ch.q[i].conns
    <3>1. CountOf(ch.q, Deletes(c)) # 0
      BY <2>1 DEF DoomedInv
    <3>2. PICK i \in DOMAIN ch.q : ch.q[i] \in Deletes(c)
      BY <2>1, <3>1, CountZero
    <3> QED BY <3>2 DEF Deletes
  <2> QED BY <2>2 DEF DoomedIsDeleted
<1> QED BY <1>1, ChannelInvariant, PTL

\* A connected channel that is not writable has a new allocation asked for
\* or scheduled, never two; and what it waits for is answered, within the
\* bound.
THEOREM AllocationNeverStops == Spec => []AllocationGoesOn
<1>1. ASSUME ChannelInv PROVE AllocationGoesOn
  <2>1. /\ AllocInv(ch) /\ ch \in States /\ ch.q \in Seq(Sent)
        /\ \A i \in DOMAIN ch.q : ch.q[i] \in Sent
    BY <1>1, InvariantSays
  <2>2. {i \in DOMAIN ch.q : ch.q[i] = AllocateMsg} = Places(ch.q, Allocs)
    BY <2>1, NoData DEF Places
  <2>3. Cardinality({i \in DOMAIN ch.q : ch.q[i] = AllocateMsg}) = CountOf(ch.q, Allocs)
    BY <2>2 DEF CountOf
  <2>4. CountOf(ch.q, Readies) # 0 => Has(ReadyMsg)
    <3>1. ASSUME CountOf(ch.q, Readies) # 0 PROVE Has(ReadyMsg)
      <4>1. PICK i \in DOMAIN ch.q : ch.q[i] \in Readies
        BY <2>1, <3>1, CountZero
      <4>2. ch.q[i] = ReadyMsg
        BY <2>1, <4>1, NoData
      <4> QED BY <4>2 DEF Has
    <3> QED BY <3>1
  <2> QED BY <2>1, <2>3, <2>4 DEF AllocInv, AllocBut, AllocationGoesOn
<1> QED BY <1>1, ChannelInvariant, PTL
=============================================================================
