------------------------ MODULE PortAllocatorProofs -------------------------
(***************************************************************************)
(* Proofs about PortAllocator, for any interfaces and addresses, any       *)
(* number of sessions of the channel and any number of changes.            *)
(***************************************************************************)
EXTENDS PortAllocator, QueueLemmas

PortRecords == [life : {"none", "PRESTART", "PRETIMEOUT", "POSTTIMEOUT", "destroyed"},
                ready : BOOLEAN, busy : BOOLEAN, signalled : Nat, copies : Nat]

SessionRecords == [running : BOOLEAN, delayed : 0 .. 1, networks : BOOLEAN,
                   allocated : BOOLEAN, seqs : SUBSET (Nets \X Ips)]

States == [q : Seq(Messages), known : [Nets -> Ips \cup {NoIp}],
           first : BOOLEAN, updating : BOOLEAN, poll : BOOLEAN,
           ses : Seq(SessionRecords), port : [PortIds -> PortRecords],
           current : SUBSET PortIds, pinging : BOOLEAN, writable : BOOLEAN]

\* Handlers of a port change its record and ports_, nothing else.
PortChange(s, t) ==
    /\ t \in States
    /\ t.q = s.q /\ t.known = s.known /\ t.first = s.first /\ t.updating = s.updating
    /\ t.poll = s.poll /\ t.ses = s.ses /\ t.pinging = s.pinging
    /\ t.writable = s.writable

\* A new function of ports is such a change.
LEMMA NewPorts ==
    ASSUME NEW s \in States, NEW f \in [PortIds -> PortRecords],
           NEW t, t = [s EXCEPT !.port = f]
    PROVE  PortChange(s, t) /\ t.port = f /\ t.current = s.current
BY DEF PortChange, States

\* Start moves ports on from PRESTART.
LEMMA StartPorts ==
    ASSUME NEW s \in States, NEW S
    PROVE  /\ PortChange(s, Start(s, S))
           /\ Start(s, S).current = s.current
           /\ \A i \in PortIds :
                 Start(s, S).port[i] =
                    IF i \in S /\ s.port[i].life = "PRESTART"
                    THEN [s.port[i] EXCEPT !.life = "PRETIMEOUT"] ELSE s.port[i]
<1>f. PICK f : f = [i \in DOMAIN s.port |->
                      IF i \in S THEN IF s.port[i].life = "PRESTART"
                                      THEN [s.port[i] EXCEPT !.life = "PRETIMEOUT"]
                                      ELSE s.port[i]
                                 ELSE s.port[i]]
  OBVIOUS
<1>1. Start(s, S) = [s EXCEPT !.port = f]
  BY <1>f DEF Start, Update
<1>2. s.port \in [PortIds -> PortRecords]
  BY DEF States
<1>3. f \in [PortIds -> PortRecords]
  <2>1. \A i \in PortIds : [s.port[i] EXCEPT !.life = "PRETIMEOUT"] \in PortRecords
    BY <1>2 DEF PortRecords
  <2> QED BY <1>f, <1>2, <2>1
<1>4. \A i \in PortIds :
         f[i] = IF i \in S /\ s.port[i].life = "PRESTART"
                THEN [s.port[i] EXCEPT !.life = "PRETIMEOUT"] ELSE s.port[i]
  BY <1>f, <1>2
<1> QED BY <1>1, <1>3, <1>4, NewPorts

\* SignalCandidatesReady counts once for each of its ports.
LEMMA SignalPorts ==
    ASSUME NEW s \in States, NEW S
    PROVE  /\ PortChange(s, SignalCandidates(s, S))
           /\ SignalCandidates(s, S).current = s.current
           /\ \A i \in PortIds :
                 SignalCandidates(s, S).port[i] =
                    IF i \in S THEN [s.port[i] EXCEPT !.signalled = @ + 1] ELSE s.port[i]
<1>f. PICK f : f = [i \in DOMAIN s.port |->
                      IF i \in S THEN [s.port[i] EXCEPT !.signalled = @ + 1] ELSE s.port[i]]
  OBVIOUS
<1>1. SignalCandidates(s, S) = [s EXCEPT !.port = f]
  BY <1>f DEF SignalCandidates, Update
<1>2. s.port \in [PortIds -> PortRecords]
  BY DEF States
<1>3. f \in [PortIds -> PortRecords]
  <2>1. ASSUME NEW i \in PortIds
        PROVE  [s.port[i] EXCEPT !.signalled = @ + 1] \in PortRecords
    <3>1. s.port[i] \in PortRecords /\ s.port[i].signalled + 1 \in Nat
      BY <1>2 DEF PortRecords
    <3> QED BY <3>1 DEF PortRecords
  <2> QED BY <1>f, <1>2, <2>1
<1>4. \A i \in PortIds :
         f[i] = IF i \in S THEN [s.port[i] EXCEPT !.signalled = @ + 1] ELSE s.port[i]
  BY <1>f, <1>2
<1> QED BY <1>1, <1>3, <1>4, NewPorts

\* OnPortReady adds the ports to ports_ and may give them connections.
LEMMA ReadyPorts ==
    ASSUME NEW s \in States, NEW S \in SUBSET PortIds
    PROVE  /\ PortChange(s, OnPortReady(s, S))
           /\ OnPortReady(s, S).current = s.current \cup S
           /\ \A i \in PortIds :
                 OnPortReady(s, S).port[i] =
                    IF i \in S THEN [s.port[i] EXCEPT !.busy = @ \/ s.pinging] ELSE s.port[i]
<1>f. PICK f : f = [i \in DOMAIN s.port |->
                      IF i \in S THEN [s.port[i] EXCEPT !.busy = @ \/ s.pinging]
                                 ELSE s.port[i]]
  OBVIOUS
<1>1. OnPortReady(s, S) = [s EXCEPT !.port = f, !.current = s.current \cup S]
  BY <1>f DEF OnPortReady, Update
<1>2. s.port \in [PortIds -> PortRecords] /\ s.pinging \in BOOLEAN
      /\ s.current \cup S \in SUBSET PortIds
  BY DEF States
<1>3. f \in [PortIds -> PortRecords]
  <2>1. ASSUME NEW i \in PortIds
        PROVE  [s.port[i] EXCEPT !.busy = @ \/ s.pinging] \in PortRecords
    <3>1. s.port[i] \in PortRecords /\ (s.port[i].busy \/ s.pinging) \in BOOLEAN
      BY <1>2 DEF PortRecords
    <3> QED BY <3>1 DEF PortRecords
  <2> QED BY <1>f, <1>2, <2>1
<1>4. \A i \in PortIds :
         f[i] = IF i \in S THEN [s.port[i] EXCEPT !.busy = @ \/ s.pinging] ELSE s.port[i]
  BY <1>f, <1>2
<1>5. /\ PortChange(s, OnPortReady(s, S)) /\ OnPortReady(s, S).port = f
      /\ OnPortReady(s, S).current = s.current \cup S
  <2>1. PICK o, C : o = OnPortReady(s, S) /\ C = s.current \cup S
    OBVIOUS
  <2>2. C \in SUBSET PortIds /\ o = [s EXCEPT !.port = f, !.current = C]
    BY <1>1, <1>2, <2>1
  <2>3. PortChange(s, o) /\ o.port = f /\ o.current = C
    BY <1>3, <2>2 DEF PortChange, States
  <2> QED BY <2>1, <2>3
<1> QED BY <1>4, <1>5

\* What OnAddressReady makes of a port that it makes ready.
MadeReadyFrom(r, n, enabled) ==
    /\ n \in PortRecords
    /\ n.life = r.life /\ n.ready = TRUE /\ n.copies = r.copies
    /\ n.signalled = IF enabled THEN r.signalled + 1 ELSE r.signalled

\* OnAddressReady changes the ports that were not ready.
LEMMA AddressReadyPorts ==
    ASSUME NEW s \in States, NEW S \in SUBSET PortIds, NEW e \in BOOLEAN
    PROVE  /\ PortChange(s, OnAddressReady(s, S, e))
           /\ OnAddressReady(s, S, e).current = s.current \cup MadeReady(s, S)
           /\ \A i \in PortIds :
                 IF i \in MadeReady(s, S)
                 THEN MadeReadyFrom(s.port[i], OnAddressReady(s, S, e).port[i], e)
                 ELSE OnAddressReady(s, S, e).port[i] = s.port[i]
<1>r. PICK R : R = MadeReady(s, S)
  OBVIOUS
<1>0. R \in SUBSET PortIds /\ s.port \in [PortIds -> PortRecords]
  BY <1>r DEF MadeReady, States
<1>f. PICK f : f = [i \in DOMAIN s.port |->
                      IF i \in R THEN [s.port[i] EXCEPT !.ready = TRUE] ELSE s.port[i]]
  OBVIOUS
<1>1. f \in [PortIds -> PortRecords]
  <2>1. \A i \in PortIds : [s.port[i] EXCEPT !.ready = TRUE] \in PortRecords
    BY <1>0 DEF PortRecords
  <2> QED BY <1>f, <1>0, <2>1
<1>t. PICK t : t = [s EXCEPT !.port = f]
  OBVIOUS
<1>2. PortChange(s, t) /\ t.port = f /\ t.current = s.current /\ t \in States
  BY <1>1, <1>t, NewPorts DEF PortChange
<1>u. PICK u : u = OnPortReady(t, R)
  OBVIOUS
<1>3. /\ PortChange(t, u) /\ u.current = s.current \cup R /\ u \in States
      /\ \A i \in PortIds :
            u.port[i] = IF i \in R THEN [f[i] EXCEPT !.busy = @ \/ t.pinging] ELSE f[i]
  BY <1>0, <1>2, <1>u, ReadyPorts DEF PortChange
<1>v. PICK v : v = OnAddressReady(s, S, e)
  OBVIOUS
<1>4. v = IF e THEN SignalCandidates(u, R) ELSE u
  BY <1>r, <1>f, <1>t, <1>u, <1>v DEF OnAddressReady, Update
<1>5. /\ PortChange(u, v) /\ v.current = u.current
      /\ \A i \in PortIds :
            v.port[i] = IF i \in R /\ e THEN [u.port[i] EXCEPT !.signalled = @ + 1]
                                        ELSE u.port[i]
  <2>1. CASE e
    BY <1>3, <1>4, <2>1, SignalPorts
  <2>2. CASE ~e
    BY <1>3, <1>4, <2>2 DEF PortChange
  <2> QED BY <2>1, <2>2
<1>6. PortChange(s, v) /\ v.current = s.current \cup R
  BY <1>2, <1>3, <1>5 DEF PortChange
<1>7. ASSUME NEW i \in PortIds, i \notin R PROVE v.port[i] = s.port[i]
  BY <1>0, <1>f, <1>3, <1>5, <1>7
<1>8. ASSUME NEW i \in PortIds, i \in R PROVE MadeReadyFrom(s.port[i], v.port[i], e)
  <2>r. PICK r : r = s.port[i]
    OBVIOUS
  <2>1. r \in PortRecords /\ f[i] = [r EXCEPT !.ready = TRUE]
    BY <1>0, <1>f, <1>8, <2>r
  <2>2. /\ f[i] \in PortRecords /\ f[i].life = r.life /\ f[i].ready = TRUE
        /\ f[i].copies = r.copies /\ f[i].signalled = r.signalled
    BY <2>1 DEF PortRecords
  <2>3. u.port[i] = [f[i] EXCEPT !.busy = @ \/ t.pinging] /\ u.port[i] \in PortRecords
    BY <1>3, <1>8 DEF States
  <2>4. /\ u.port[i].life = r.life /\ u.port[i].ready = TRUE
        /\ u.port[i].copies = r.copies /\ u.port[i].signalled = r.signalled
    BY <2>2, <2>3 DEF PortRecords
  <2>5. v.port[i] \in PortRecords
    BY <1>5 DEF PortChange, States
  <2>6. CASE e
    <3>1. v.port[i] = [u.port[i] EXCEPT !.signalled = @ + 1]
      BY <1>5, <1>8, <2>6
    <3> QED BY <2>r, <2>3, <2>4, <2>5, <2>6, <3>1 DEF MadeReadyFrom, PortRecords
  <2>7. CASE ~e
    <3>1. v.port[i] = u.port[i]
      BY <1>5, <2>7
    <3> QED BY <2>r, <2>4, <2>5, <2>7, <3>1 DEF MadeReadyFrom
  <2> QED BY <2>6, <2>7
<1> QED BY <1>r, <1>v, <1>6, <1>7, <1>8

\* A new port: ready if it is a UDP port, and not signalled yet.
Opened(n, r, kind) ==
    /\ n \in PortRecords
    /\ n.life \in {"PRESTART", "PRETIMEOUT"}
    /\ n.ready = (kind = "udp")
    /\ n.signalled = 0
    /\ n.copies = r.copies + 1

\* AddAllocatedPort opens its ports and touches no other.
LEMMA AddPorts ==
    ASSUME NEW s \in States, NEW S \in SUBSET PortIds
    PROVE  /\ PortChange(s, AddAllocatedPorts(s, S))
           /\ AddAllocatedPorts(s, S).current = s.current \cup {i \in S : i[4] = "udp"}
           /\ \A i \in PortIds :
                 IF i \in S THEN Opened(AddAllocatedPorts(s, S).port[i], s.port[i], i[4])
                            ELSE AddAllocatedPorts(s, S).port[i] = s.port[i]
<1> DEFINE New(r) == [life |-> "PRESTART", ready |-> FALSE, busy |-> FALSE,
                      signalled |-> 0, copies |-> r.copies + 1]
<1>0. s.port \in [PortIds -> PortRecords]
  BY DEF States
<1>f. PICK f : f = [i \in DOMAIN s.port |-> IF i \in S THEN New(s.port[i]) ELSE s.port[i]]
  OBVIOUS
<1>1. f \in [PortIds -> PortRecords]
  <2>1. ASSUME NEW i \in PortIds PROVE New(s.port[i]) \in PortRecords
    <3>1. s.port[i].copies + 1 \in Nat
      BY <1>0 DEF PortRecords
    <3> QED BY <3>1 DEF PortRecords
  <2> HIDE DEF New
  <2> QED BY <1>f, <1>0, <2>1
<1>t. PICK t : t = [s EXCEPT !.port = f]
  OBVIOUS
<1>2. PortChange(s, t) /\ t.port = f /\ t.current = s.current /\ t \in States
  BY <1>1, <1>t, NewPorts DEF PortChange
<1>d. PICK U : U = {i \in S : i[4] = "udp"}
  OBVIOUS
<1>u. PICK u : u = OnAddressReady(t, U, FALSE)
  OBVIOUS
<1>3. MadeReady(t, U) = U /\ U \in SUBSET PortIds
  <2>1. \A i \in U : ~f[i].ready
    BY <1>0, <1>f, <1>d
  <2> QED BY <1>2, <1>d, <2>1 DEF MadeReady
<1>4. /\ PortChange(t, u) /\ u.current = s.current \cup U /\ u \in States
      /\ \A i \in PortIds :
            IF i \in U THEN MadeReadyFrom(f[i], u.port[i], FALSE) ELSE u.port[i] = f[i]
  <2>1. PICK e \in BOOLEAN : e = FALSE
    OBVIOUS
  <2>v. PICK v : v = OnAddressReady(t, U, e)
    OBVIOUS
  <2>2. /\ PortChange(t, v) /\ v.current = t.current \cup MadeReady(t, U)
        /\ \A i \in PortIds :
              IF i \in MadeReady(t, U) THEN MadeReadyFrom(t.port[i], v.port[i], e)
              ELSE v.port[i] = t.port[i]
    BY <1>2, <1>3, <2>v, AddressReadyPorts
  <2>3. u = v
    BY <1>u, <2>1, <2>v
  <2> QED BY <1>2, <1>3, <2>1, <2>2, <2>3 DEF PortChange
<1>w. PICK W : W = {i \in S : s.ses[i[1]].running}
  OBVIOUS
<1>v. PICK v : v = AddAllocatedPorts(s, S)
  OBVIOUS
<1>5. v = Start(u, W)
  BY <1>f, <1>t, <1>d, <1>u, <1>w, <1>v DEF AddAllocatedPorts, Update
<1>6. /\ PortChange(u, v) /\ v.current = u.current
      /\ \A i \in PortIds :
            v.port[i] = IF i \in W /\ u.port[i].life = "PRESTART"
                        THEN [u.port[i] EXCEPT !.life = "PRETIMEOUT"] ELSE u.port[i]
  BY <1>4, <1>5, StartPorts
<1>7. PortChange(s, v) /\ v.current = s.current \cup U
  BY <1>2, <1>4, <1>6 DEF PortChange
<1>8. ASSUME NEW i \in PortIds, i \notin S PROVE v.port[i] = s.port[i]
  BY <1>0, <1>f, <1>d, <1>w, <1>4, <1>6, <1>8
<1>9. ASSUME NEW i \in PortIds, i \in S PROVE Opened(v.port[i], s.port[i], i[4])
  <2>1. /\ f[i] \in PortRecords /\ f[i].life = "PRESTART" /\ f[i].ready = FALSE
        /\ f[i].signalled = 0 /\ f[i].copies = s.port[i].copies + 1
    BY <1>0, <1>f, <1>1, <1>9
  <2>2. /\ u.port[i] \in PortRecords /\ u.port[i].life = "PRESTART"
        /\ u.port[i].ready = (i[4] = "udp") /\ u.port[i].signalled = 0
        /\ u.port[i].copies = s.port[i].copies + 1
    <3>1. CASE i[4] = "udp"
      <4>1. MadeReadyFrom(f[i], u.port[i], FALSE)
        BY <1>d, <1>4, <1>9, <3>1
      <4> QED BY <2>1, <3>1, <4>1 DEF MadeReadyFrom
    <3>2. CASE i[4] # "udp"
      <4>1. u.port[i] = f[i]
        BY <1>d, <1>4, <3>2
      <4> QED BY <2>1, <3>2, <4>1
    <3> QED BY <3>1, <3>2
  <2>3. \/ v.port[i] = [u.port[i] EXCEPT !.life = "PRETIMEOUT"]
        \/ v.port[i] = u.port[i]
    BY <1>6
  <2>4. CASE v.port[i] = u.port[i]
    BY <2>2, <2>4 DEF Opened
  <2>5. CASE v.port[i] = [u.port[i] EXCEPT !.life = "PRETIMEOUT"]
    BY <2>2, <2>5 DEF Opened, PortRecords
  <2> QED BY <2>3, <2>4, <2>5
<1> QED BY <1>d, <1>v, <1>7, <1>8, <1>9

-----------------------------------------------------------------------------
(* Sessions.                                                               *)

\* A function on the sessions is again a sequence of them.
LEMMA NewSessions ==
    ASSUME NEW ses \in Seq(SessionRecords), NEW f, DOMAIN f = DOMAIN ses,
           f = [g \in DOMAIN ses |-> f[g]],
           \A g \in DOMAIN ses : f[g] \in SessionRecords
    PROVE  f \in Seq(SessionRecords) /\ Len(f) = Len(ses)
<1>1. Len(ses) \in Nat /\ DOMAIN ses = 1 .. Len(ses)
  OBVIOUS
<1>2. f \in [1 .. Len(ses) -> SessionRecords]
  BY <1>1
<1> QED BY <1>1, <1>2

\* The addresses that are left to do are addresses of interfaces.
LEMMA UncoveredTyped ==
    ASSUME NEW s \in States, NEW g
    PROVE  Uncovered(s, g) \in SUBSET (Nets \X Ips)
<1>1. s.known \in [Nets -> Ips \cup {NoIp}]
  BY DEF States
<1> QED BY <1>1 DEF Uncovered

\* The ports that DoAllocate opens.
ToOpen(s, G, bad) ==
    {i \in PortIds : i[1] \in G /\ <<i[2], i[3]>> \in Uncovered(s, i[1]) /\ i[4] \notin bad}

\* What DoAllocate leaves alone.
AllocateChange(s, t) ==
    /\ t \in States
    /\ t.q = s.q /\ t.known = s.known /\ t.first = s.first /\ t.updating = s.updating
    /\ t.poll = s.poll /\ t.pinging = s.pinging /\ t.writable = s.writable
    /\ Len(t.ses) = Len(s.ses) /\ DOMAIN t.ses = DOMAIN s.ses

\* A session that covers what was left to do, or an untouched one.
Covering(n, r, more) ==
    /\ n \in SessionRecords
    /\ n.running = r.running /\ n.delayed = r.delayed /\ n.networks = r.networks
    /\ n.allocated = r.allocated /\ n.seqs = r.seqs \cup more

\* DoAllocate covers what was uncovered and opens ports for it, with their
\* candidates signalled if they are ready.
LEMMA DoAllocateIs ==
    ASSUME NEW s \in States, NEW G, NEW bad, NEW d, d = DoAllocate(s, G, bad)
    PROVE  /\ AllocateChange(s, d)
           /\ \A g \in DOMAIN s.ses :
                 IF g \in G THEN Covering(d.ses[g], s.ses[g], Uncovered(s, g))
                            ELSE d.ses[g] = s.ses[g]
           /\ d.current = s.current \cup {i \in ToOpen(s, G, bad) : i[4] = "udp"}
           /\ \A i \in PortIds :
                 IF i \in ToOpen(s, G, bad)
                 THEN /\ d.port[i] \in PortRecords
                      /\ d.port[i].life \in {"PRESTART", "PRETIMEOUT"}
                      /\ d.port[i].ready = (i[4] = "udp")
                      /\ d.port[i].signalled = IF d.port[i].ready THEN 1 ELSE 0
                      /\ d.port[i].copies = s.port[i].copies + 1
                 ELSE d.port[i] = s.port[i]
<1>s. PICK S : S = ToOpen(s, G, bad)
  OBVIOUS
<1>0. S \in SUBSET PortIds
  BY <1>s DEF ToOpen
<1>t. PICK t : t = AddAllocatedPorts(s, S)
  OBVIOUS
<1>1. /\ PortChange(s, t) /\ t \in States
      /\ t.current = s.current \cup {i \in S : i[4] = "udp"}
      /\ \A i \in PortIds : IF i \in S THEN Opened(t.port[i], s.port[i], i[4])
                                       ELSE t.port[i] = s.port[i]
  BY <1>0, <1>t, AddPorts DEF PortChange
<1>f. PICK f : f = [g \in DOMAIN t.ses |->
                      IF g \in G THEN [t.ses[g] EXCEPT !.seqs = @ \cup Uncovered(s, g)]
                                 ELSE t.ses[g]]
  OBVIOUS
<1>2. t.ses = s.ses /\ s.ses \in Seq(SessionRecords)
  BY <1>1 DEF PortChange, States
<1>3. \A g \in DOMAIN s.ses :
         IF g \in G THEN Covering(f[g], s.ses[g], Uncovered(s, g)) ELSE f[g] = s.ses[g]
  <2> SUFFICES ASSUME NEW g \in DOMAIN s.ses
               PROVE  IF g \in G THEN Covering(f[g], s.ses[g], Uncovered(s, g))
                                 ELSE f[g] = s.ses[g]
    OBVIOUS
  <2>1. s.ses[g] \in SessionRecords
    BY <1>2
  <2>2. CASE g \in G
    <3>m. PICK more : more = Uncovered(s, g)
      OBVIOUS
    <3>1. f[g] = [s.ses[g] EXCEPT !.seqs = @ \cup more]
      BY <1>f, <1>2, <2>2, <3>m
    <3>2. s.ses[g].seqs \cup more \in SUBSET (Nets \X Ips)
      BY <2>1, <3>m, UncoveredTyped DEF SessionRecords
    <3>3. Covering(f[g], s.ses[g], more)
      BY <2>1, <3>1, <3>2 DEF Covering, SessionRecords
    <3> QED BY <2>2, <3>m, <3>3
  <2>3. CASE g \notin G
    BY <1>f, <1>2, <2>3
  <2> QED BY <2>2, <2>3
<1>4. f \in Seq(SessionRecords) /\ Len(f) = Len(s.ses) /\ DOMAIN f = DOMAIN s.ses
  <2>1. DOMAIN f = DOMAIN s.ses /\ f = [g \in DOMAIN s.ses |-> f[g]]
    BY <1>f, <1>2
  <2>2. \A g \in DOMAIN s.ses : f[g] \in SessionRecords
    BY <1>2, <1>3 DEF Covering
  <2> QED BY <1>2, <2>1, <2>2, NewSessions
<1>u. PICK u : u = [t EXCEPT !.ses = f]
  OBVIOUS
<1>5. /\ u \in States /\ u.ses = f /\ u.port = t.port /\ u.current = t.current
      /\ u.q = t.q /\ u.known = t.known /\ u.first = t.first /\ u.updating = t.updating
      /\ u.poll = t.poll /\ u.pinging = t.pinging /\ u.writable = t.writable
  BY <1>1, <1>4, <1>u DEF States
<1>r. PICK R : R = {i \in S : t.port[i].ready}
  OBVIOUS
<1>6. d = SignalCandidates(u, R)
  BY <1>s, <1>t, <1>f, <1>u, <1>r DEF DoAllocate, ToOpen
<1>7. /\ PortChange(u, d) /\ d.current = u.current
      /\ \A i \in PortIds :
            d.port[i] = IF i \in R THEN [t.port[i] EXCEPT !.signalled = @ + 1]
                                   ELSE t.port[i]
  BY <1>5, <1>6, SignalPorts
<1>8. AllocateChange(s, d) /\ d.ses = f
  BY <1>1, <1>2, <1>4, <1>5, <1>7 DEF PortChange, AllocateChange
<1>9. ASSUME NEW i \in PortIds
      PROVE  IF i \in S
             THEN /\ d.port[i] \in PortRecords
                  /\ d.port[i].life \in {"PRESTART", "PRETIMEOUT"}
                  /\ d.port[i].ready = (i[4] = "udp")
                  /\ d.port[i].signalled = IF d.port[i].ready THEN 1 ELSE 0
                  /\ d.port[i].copies = s.port[i].copies + 1
             ELSE d.port[i] = s.port[i]
  <2>1. CASE i \notin S
    BY <1>r, <1>1, <1>7, <2>1
  <2>2. CASE i \in S
    <3>n. PICK n : n = t.port[i]
      OBVIOUS
    <3>1. Opened(n, s.port[i], i[4]) /\ d.port[i] \in PortRecords
      BY <1>1, <1>7, <2>2, <3>n DEF PortChange, States
    <3>2. CASE n.ready
      <4>1. d.port[i] = [n EXCEPT !.signalled = @ + 1]
        BY <1>r, <1>7, <2>2, <3>n, <3>2
      <4>2. /\ d.port[i].life = n.life /\ d.port[i].ready = n.ready
            /\ d.port[i].signalled = 1 /\ d.port[i].copies = n.copies
        BY <3>1, <4>1 DEF Opened, PortRecords
      <4> QED BY <2>2, <3>1, <3>2, <4>2 DEF Opened
    <3>3. CASE ~n.ready
      <4>1. d.port[i] = n
        BY <1>r, <1>7, <2>2, <3>n, <3>3
      <4> QED BY <2>2, <3>1, <3>3, <4>1 DEF Opened
    <3> QED BY <3>2, <3>3
  <2> QED BY <2>1, <2>2
<1> QED BY <1>s, <1>1, <1>3, <1>5, <1>7, <1>8, <1>9

-----------------------------------------------------------------------------
(* The inductive invariant.                                                *)

\* Messages, and those that may be in the queue when there are n sessions.
Ids == {"CONFIG_START", "CONFIG_READY", "ALLOCATE", "SIGNALNETWORKS",
        "UPDATENETWORKS", "cleared"}
SessionIds == {"CONFIG_START", "CONFIG_READY", "ALLOCATE"}
MessagesFor(n) == {m \in Messages : m.id \in SessionIds => m.gen \in 1 .. n}

Configs(g) == {m \in Messages : m.id \in {"CONFIG_START", "CONFIG_READY"} /\ m.gen = g}
Allocs(g)  == {m \in Messages : m.id = "ALLOCATE" /\ m.gen = g}
Signals    == {m \in Messages : m.id = "SIGNALNETWORKS" /\ m.gen = 0}
Updates    == {m \in Messages : m.id = "UPDATENETWORKS"}

\* A session: its messages are one chain, which goes on unless a stop cuts it;
\* it knows of the networks or will; it covers what it should.
SessionInv(s, g) ==
    LET r == s.ses[g]
        c == CountOf(s.q, Configs(g))
        a == CountOf(s.q, Allocs(g))
    IN  /\ c + a + r.delayed <= 1
        /\ r.allocated => c = 0
        /\ r.allocated /\ ~r.running => a + r.delayed = 0
        /\ ~r.allocated => r.delayed = 0
        /\ r.running => s.pinging
        /\ ~r.allocated /\ ~(s.pinging /\ ~r.running) => c + a = 1
        /\ \/ r.networks
           \/ CountOf(s.q, Signals) # 0
           \/ \A n \in Nets : s.known[n] = NoIp
        /\ r.allocated /\ r.networks =>
              \A n \in Nets : s.known[n] # NoIp => <<n, s.known[n]>> \in r.seqs

\* The network manager: one kUpdateNetworksMessage at a time, and networks_
\* empty before the first update.
ManagerInv(s) ==
    /\ CountOf(s.q, Updates) + (IF s.poll THEN 1 ELSE 0) = IF s.updating THEN 1 ELSE 0
    /\ ~s.first => \A n \in Nets : s.known[n] = NoIp
    /\ ~s.updating => ~s.first

\* A port: signalled if ready, opened once, inside what its session covers,
\* and forgotten by the channel and by connections once it is destroyed.
PortInv(s, i) ==
    LET r == s.port[i] IN
    /\ r.signalled = IF r.ready THEN 1 ELSE 0
    /\ r.copies = IF r.life = "none" THEN 0 ELSE 1
    /\ r.life # "none" => i[1] \in DOMAIN s.ses /\ <<i[2], i[3]>> \in s.ses[i[1]].seqs
    /\ r.life \in {"none", "destroyed"} => i \notin s.current /\ ~r.busy

QueueInv(s) ==
    /\ Len(s.ses) <= MaxSessions
    /\ s.q \in Seq(MessagesFor(Len(s.ses)))
    /\ ManagerInv(s)
    /\ \A g \in DOMAIN s.ses : SessionInv(s, g)

PortsInv(s) == \A i \in PortIds : PortInv(s, i)

WorkerInv(s) == s \in States /\ QueueInv(s) /\ PortsInv(s)

AllocatorInv ==
    /\ ip \in [Nets -> Ips \cup {NoIp}]
    /\ changes \in 0 .. MaxChanges
    /\ WorkerInv(al)

-----------------------------------------------------------------------------
(* The queue.                                                              *)

\* All numbers are natural numbers.
LEMMA CountsTyped ==
    ASSUME NEW q \in Seq(Messages), NEW g
    PROVE  /\ CountOf(q, Configs(g)) \in Nat /\ CountOf(q, Allocs(g)) \in Nat
           /\ CountOf(q, Signals) \in Nat /\ CountOf(q, Updates) \in Nat
BY PlacesFinite

\* What Post adds.
LEMMA Posted ==
    ASSUME NEW q \in Seq(Messages), NEW m \in Messages, NEW g
    PROVE  /\ CountOf(Append(q, m), Configs(g)) = CountOf(q, Configs(g)) +
                 (IF m.id \in {"CONFIG_START", "CONFIG_READY"} /\ m.gen = g THEN 1 ELSE 0)
           /\ CountOf(Append(q, m), Allocs(g)) = CountOf(q, Allocs(g)) +
                 (IF m.id = "ALLOCATE" /\ m.gen = g THEN 1 ELSE 0)
           /\ CountOf(Append(q, m), Signals) = CountOf(q, Signals) +
                 (IF m.id = "SIGNALNETWORKS" /\ m.gen = 0 THEN 1 ELSE 0)
           /\ CountOf(Append(q, m), Updates) = CountOf(q, Updates) +
                 (IF m.id = "UPDATENETWORKS" THEN 1 ELSE 0)
<1>1. /\ m \in Configs(g) <=> m.id \in {"CONFIG_START", "CONFIG_READY"} /\ m.gen = g
      /\ m \in Allocs(g) <=> m.id = "ALLOCATE" /\ m.gen = g
      /\ m \in Signals <=> m.id = "SIGNALNETWORKS" /\ m.gen = 0
      /\ m \in Updates <=> m.id = "UPDATENETWORKS"
  BY DEF Configs, Allocs, Signals, Updates
<1>2. /\ CountOf(Append(q, m), Configs(g))
           = CountOf(q, Configs(g)) + (IF m \in Configs(g) THEN 1 ELSE 0)
      /\ CountOf(Append(q, m), Allocs(g))
           = CountOf(q, Allocs(g)) + (IF m \in Allocs(g) THEN 1 ELSE 0)
      /\ CountOf(Append(q, m), Signals)
           = CountOf(q, Signals) + (IF m \in Signals THEN 1 ELSE 0)
      /\ CountOf(Append(q, m), Updates)
           = CountOf(q, Updates) + (IF m \in Updates THEN 1 ELSE 0)
  BY CountAppend
<1> QED BY <1>1, <1>2

\* What taking the first message off removes.
LEMMA Taken ==
    ASSUME NEW q \in Seq(Messages), q # <<>>, NEW h, h = Head(q), NEW g
    PROVE  /\ CountOf(Tail(q), Configs(g)) = CountOf(q, Configs(g)) -
                 (IF h.id \in {"CONFIG_START", "CONFIG_READY"} /\ h.gen = g THEN 1 ELSE 0)
           /\ CountOf(Tail(q), Allocs(g)) = CountOf(q, Allocs(g)) -
                 (IF h.id = "ALLOCATE" /\ h.gen = g THEN 1 ELSE 0)
           /\ CountOf(Tail(q), Signals) = CountOf(q, Signals) -
                 (IF h.id = "SIGNALNETWORKS" /\ h.gen = 0 THEN 1 ELSE 0)
           /\ CountOf(Tail(q), Updates) = CountOf(q, Updates) -
                 (IF h.id = "UPDATENETWORKS" THEN 1 ELSE 0)
<1>0. h \in Messages
  OBVIOUS
<1>1. /\ h \in Configs(g) <=> h.id \in {"CONFIG_START", "CONFIG_READY"} /\ h.gen = g
      /\ h \in Allocs(g) <=> h.id = "ALLOCATE" /\ h.gen = g
      /\ h \in Signals <=> h.id = "SIGNALNETWORKS" /\ h.gen = 0
      /\ h \in Updates <=> h.id = "UPDATENETWORKS"
  BY <1>0 DEF Configs, Allocs, Signals, Updates
<1>2. /\ CountOf(Tail(q), Configs(g))
           = CountOf(q, Configs(g)) - (IF h \in Configs(g) THEN 1 ELSE 0)
      /\ CountOf(Tail(q), Allocs(g))
           = CountOf(q, Allocs(g)) - (IF h \in Allocs(g) THEN 1 ELSE 0)
      /\ CountOf(Tail(q), Signals)
           = CountOf(q, Signals) - (IF h \in Signals THEN 1 ELSE 0)
      /\ CountOf(Tail(q), Updates)
           = CountOf(q, Updates) - (IF h \in Updates THEN 1 ELSE 0)
  BY CountTail
<1> QED BY <1>1, <1>2

\* Everything but the queue.
QueueChange(s, t) ==
    /\ t.known = s.known /\ t.first = s.first /\ t.updating = s.updating
    /\ t.poll = s.poll /\ t.ses = s.ses /\ t.port = s.port /\ t.current = s.current
    /\ t.pinging = s.pinging /\ t.writable = s.writable

\* A message that is posted; it may speak of a session there is.
LEMMA PostedState ==
    ASSUME NEW s \in States, NEW n, s.q \in Seq(MessagesFor(n)), NEW id \in Ids,
           NEW g \in 0 .. MaxSessions, id \in SessionIds => g \in 1 .. n,
           NEW t, t = Post(s, Msg(id, g))
    PROVE  /\ t \in States /\ QueueChange(s, t)
           /\ t.q = Append(s.q, Msg(id, g)) /\ t.q \in Seq(MessagesFor(n))
           /\ Msg(id, g) \in Messages /\ Msg(id, g).id = id /\ Msg(id, g).gen = g
<1>m. PICK m : m = Msg(id, g)
  OBVIOUS
<1>1. m \in Messages /\ m.id = id /\ m.gen = g
  BY <1>m DEF Msg, Messages, Ids
<1>2. m \in MessagesFor(n)
  BY <1>1 DEF MessagesFor
<1>3. Append(s.q, m) \in Seq(MessagesFor(n)) /\ Append(s.q, m) \in Seq(Messages)
  BY <1>1, <1>2 DEF States
<1>4. t = [s EXCEPT !.q = Append(s.q, m)]
  BY <1>m DEF Post
<1>5. t \in States /\ QueueChange(s, t) /\ t.q = Append(s.q, m)
  BY <1>3, <1>4 DEF States, QueueChange
<1> QED BY <1>m, <1>1, <1>3, <1>5

\* The state in which a message is handled.
LEMMA TakenState ==
    ASSUME NEW s \in States, NEW n, s.q \in Seq(MessagesFor(n)), s.q # <<>>,
           NEW t, t = [s EXCEPT !.q = Tail(@)]
    PROVE  /\ t \in States /\ QueueChange(s, t)
           /\ t.q = Tail(s.q) /\ t.q \in Seq(MessagesFor(n))
           /\ Head(s.q) \in MessagesFor(n) /\ Head(s.q) \in Messages
<1>1. Tail(s.q) \in Seq(MessagesFor(n)) /\ Head(s.q) \in MessagesFor(n)
  OBVIOUS
<1>2. Tail(s.q) \in Seq(Messages) /\ Head(s.q) \in Messages
  BY DEF States
<1>3. t \in States /\ QueueChange(s, t) /\ t.q = Tail(s.q)
  BY <1>2 DEF States, QueueChange
<1> QED BY <1>1, <1>2, <1>3

\* A session whose own messages and record stay is as it was.
LEMMA SessionKept ==
    ASSUME NEW s, NEW t, NEW g, SessionInv(s, g),
           t.ses[g] = s.ses[g], t.pinging = s.pinging, t.known = s.known,
           CountOf(t.q, Configs(g)) = CountOf(s.q, Configs(g)),
           CountOf(t.q, Allocs(g)) = CountOf(s.q, Allocs(g)),
           CountOf(s.q, Signals) # 0 => CountOf(t.q, Signals) # 0
    PROVE  SessionInv(t, g)
BY DEF SessionInv

\* Ports stay as they are while only the queue or members of sessions other
\* than their coverage change.
LEMMA PortsKept ==
    ASSUME NEW s, NEW t, PortsInv(s), t.port = s.port, t.current \subseteq s.current,
           DOMAIN s.ses \subseteq DOMAIN t.ses,
           \A g \in DOMAIN s.ses : s.ses[g].seqs \subseteq t.ses[g].seqs
    PROVE  PortsInv(t)
BY DEF PortsInv, PortInv

\* The network manager is as it was while its members and messages stay.
LEMMA ManagerKept ==
    ASSUME NEW s, NEW t, ManagerInv(s), t.poll = s.poll, t.updating = s.updating,
           t.first = s.first, t.known = s.known,
           CountOf(t.q, Updates) = CountOf(s.q, Updates)
    PROVE  ManagerInv(t)
BY DEF ManagerInv

\* What the invariant says of queue and sessions.
LEMMA InvFacts ==
    ASSUME NEW s, WorkerInv(s)
    PROVE  /\ s \in States /\ s.q \in Seq(Messages) /\ s.ses \in Seq(SessionRecords)
           /\ Len(s.ses) \in 0 .. MaxSessions /\ DOMAIN s.ses = 1 .. Len(s.ses)
           /\ s.q \in Seq(MessagesFor(Len(s.ses)))
           /\ s.poll \in BOOLEAN /\ s.updating \in BOOLEAN /\ s.pinging \in BOOLEAN
           /\ \A g \in DOMAIN s.ses : SessionInv(s, g) /\ s.ses[g] \in SessionRecords
           /\ ManagerInv(s) /\ PortsInv(s)
BY AllocatorAssumption DEF WorkerInv, QueueInv, States

\* A message for nobody is dropped.
LEMMA ClearedStep ==
    ASSUME WorkerInv(al), OnCleared PROVE WorkerInv(al')
<1>h. PICK h : h = Head(al.q)
  OBVIOUS
<1>1. al.q # <<>> /\ h.id = "cleared" /\ al' = [al EXCEPT !.q = Tail(@)]
  BY <1>h DEF OnCleared, Dispatch
<1>2. /\ al' \in States /\ QueueChange(al, al') /\ al'.q = Tail(al.q)
      /\ al'.q \in Seq(MessagesFor(Len(al.ses)))
  BY <1>1, InvFacts, TakenState
<1>3. \A g : /\ CountOf(al'.q, Configs(g)) = CountOf(al.q, Configs(g))
             /\ CountOf(al'.q, Allocs(g)) = CountOf(al.q, Allocs(g))
             /\ CountOf(al'.q, Signals) = CountOf(al.q, Signals)
             /\ CountOf(al'.q, Updates) = CountOf(al.q, Updates)
  <2> TAKE g
  <2>1. /\ CountOf(al'.q, Configs(g)) = CountOf(al.q, Configs(g)) - 0
        /\ CountOf(al'.q, Allocs(g)) = CountOf(al.q, Allocs(g)) - 0
        /\ CountOf(al'.q, Signals) = CountOf(al.q, Signals) - 0
        /\ CountOf(al'.q, Updates) = CountOf(al.q, Updates) - 0
    <3>1. al.q \in Seq(Messages)
      BY InvFacts
    <3>2. /\ h.id \notin {"CONFIG_START", "CONFIG_READY"} /\ h.id # "ALLOCATE"
          /\ h.id # "SIGNALNETWORKS" /\ h.id # "UPDATENETWORKS"
      BY <1>1
    <3> QED BY <1>h, <1>1, <1>2, <3>1, <3>2, Taken
  <2> QED BY <2>1, InvFacts, CountsTyped
<1>4. \A g \in DOMAIN al'.ses : SessionInv(al', g)
  BY <1>2, <1>3, InvFacts, SessionKept DEF QueueChange
<1>5. ManagerInv(al')
  BY <1>2, <1>3, InvFacts DEF QueueChange, ManagerInv
<1>6. PortsInv(al')
  BY <1>2, InvFacts, PortsKept DEF QueueChange
<1> QED BY <1>2, <1>4, <1>5, <1>6, InvFacts DEF WorkerInv, QueueInv, QueueChange

\* CONFIG_START becomes CONFIG_READY, CONFIG_READY becomes ALLOCATE: the
\* session's chain goes on.
LEMMA ConfigStep ==
    ASSUME WorkerInv(al), OnConfigStart \/ OnConfigReady PROVE WorkerInv(al')
<1>h. PICK h : h = Head(al.q)
  OBVIOUS
<1>g. PICK k : k = h.gen
  OBVIOUS
<1>s. PICK s : s = [al EXCEPT !.q = Tail(@)]
  OBVIOUS
<1>i. PICK id : id = IF h.id = "CONFIG_START" THEN "CONFIG_READY" ELSE "ALLOCATE"
  OBVIOUS
<1>n. PICK n : n = Len(al.ses)
  OBVIOUS
<1>1. /\ al.q # <<>> /\ h.id \in {"CONFIG_START", "CONFIG_READY"}
      /\ al' = Post(s, Msg(id, k))
  BY <1>h, <1>g, <1>s, <1>i DEF OnConfigStart, OnConfigReady, Dispatch
<1>2. /\ s \in States /\ QueueChange(al, s) /\ s.q = Tail(al.q)
      /\ s.q \in Seq(MessagesFor(n)) /\ h \in MessagesFor(n) /\ h \in Messages
  BY <1>h, <1>s, <1>n, <1>1, InvFacts, TakenState
<1>3. id \in Ids /\ k \in 0 .. MaxSessions /\ k \in 1 .. n
  BY <1>g, <1>i, <1>1, <1>2 DEF Ids, MessagesFor, SessionIds, Messages
<1>4. /\ al' \in States /\ QueueChange(s, al') /\ al'.q = Append(s.q, Msg(id, k))
      /\ al'.q \in Seq(MessagesFor(n))
      /\ Msg(id, k) \in Messages /\ Msg(id, k).id = id /\ Msg(id, k).gen = k
  <2>1. id \in SessionIds => k \in 1 .. n
    BY <1>3
  <2>t. PICK t : t = Post(s, Msg(id, k))
    OBVIOUS
  <2>2. /\ t \in States /\ QueueChange(s, t) /\ t.q = Append(s.q, Msg(id, k))
        /\ t.q \in Seq(MessagesFor(n))
        /\ Msg(id, k) \in Messages /\ Msg(id, k).id = id /\ Msg(id, k).gen = k
    <3>1. s \in States /\ s.q \in Seq(MessagesFor(n))
      BY <1>2
    <3> QED BY <1>3, <2>1, <2>t, <3>1, PostedState
  <2> QED BY <1>1, <2>t, <2>2
<1>5. QueueChange(al, al')
  BY <1>2, <1>4 DEF QueueChange
<1>6. ASSUME NEW g
      PROVE  /\ CountOf(al'.q, Configs(g)) + CountOf(al'.q, Allocs(g))
                  = CountOf(al.q, Configs(g)) + CountOf(al.q, Allocs(g))
             /\ g # k => /\ CountOf(al'.q, Configs(g)) = CountOf(al.q, Configs(g))
                         /\ CountOf(al'.q, Allocs(g)) = CountOf(al.q, Allocs(g))
             /\ CountOf(al.q, Configs(k)) # 0
             /\ CountOf(al'.q, Signals) = CountOf(al.q, Signals)
             /\ CountOf(al'.q, Updates) = CountOf(al.q, Updates)
             /\ CountOf(al'.q, Configs(g)) \in Nat /\ CountOf(al'.q, Allocs(g)) \in Nat
  <2>1. /\ CountOf(s.q, Configs(g)) = CountOf(al.q, Configs(g)) - (IF k = g THEN 1 ELSE 0)
        /\ CountOf(s.q, Allocs(g)) = CountOf(al.q, Allocs(g)) - 0
        /\ CountOf(s.q, Signals) = CountOf(al.q, Signals) - 0
        /\ CountOf(s.q, Updates) = CountOf(al.q, Updates) - 0
    BY <1>h, <1>g, <1>1, <1>2, InvFacts, Taken
  <2>2. CountOf(s.q, Configs(k)) = CountOf(al.q, Configs(k)) - 1
    BY <1>h, <1>g, <1>1, <1>2, InvFacts, Taken
  <2>3. /\ CountOf(al'.q, Configs(g)) = CountOf(s.q, Configs(g)) +
              (IF id = "CONFIG_READY" /\ k = g THEN 1 ELSE 0)
        /\ CountOf(al'.q, Allocs(g)) = CountOf(s.q, Allocs(g)) +
              (IF id = "ALLOCATE" /\ k = g THEN 1 ELSE 0)
        /\ CountOf(al'.q, Signals) = CountOf(s.q, Signals) + 0
        /\ CountOf(al'.q, Updates) = CountOf(s.q, Updates) + 0
    <3>1. id # "CONFIG_START" /\ id # "SIGNALNETWORKS" /\ id # "UPDATENETWORKS"
      BY <1>i
    <3>2. s.q \in Seq(Messages)
      BY <1>2 DEF States
    <3> QED BY <1>4, <3>1, <3>2, Posted
  <2>4. id = "CONFIG_READY" \/ id = "ALLOCATE"
    BY <1>i
  <2>5. /\ CountOf(al.q, Configs(g)) \in Nat /\ CountOf(al.q, Allocs(g)) \in Nat
        /\ CountOf(al.q, Signals) \in Nat /\ CountOf(al.q, Updates) \in Nat
        /\ CountOf(al.q, Configs(k)) \in Nat
    BY InvFacts, CountsTyped
  <2>6. /\ CountOf(al'.q, Configs(g)) \in Nat /\ CountOf(al'.q, Allocs(g)) \in Nat
        /\ CountOf(s.q, Configs(k)) \in Nat
    BY <1>2, <1>4, CountsTyped DEF States
  <2> QED BY <2>1, <2>2, <2>3, <2>4, <2>5, <2>6
<1>7. ASSUME NEW g \in DOMAIN al'.ses PROVE SessionInv(al', g)
  <2>1. SessionInv(al, g)
    BY <1>5, InvFacts DEF QueueChange
  <2>2. CASE g # k
    BY <1>5, <1>6, <2>1, <2>2, SessionKept DEF QueueChange
  <2>3. CASE g = k
    <3>1. al.ses[g].delayed \in Nat /\ CountOf(al.q, Configs(g)) \in Nat
          /\ CountOf(al.q, Allocs(g)) \in Nat
      BY <1>5, InvFacts, CountsTyped DEF QueueChange, SessionRecords
    <3>2. ~al.ses[g].allocated
      BY <1>6, <2>1, <2>3 DEF SessionInv
    <3> QED BY <1>5, <1>6, <2>1, <3>1, <3>2 DEF SessionInv, QueueChange
  <2> QED BY <2>2, <2>3
<1>8. ManagerInv(al')
  BY <1>5, <1>6, InvFacts DEF QueueChange, ManagerInv
<1>9. PortsInv(al')
  BY <1>5, InvFacts, PortsKept DEF QueueChange
<1> QED BY <1>n, <1>4, <1>5, <1>7, <1>8, <1>9, InvFacts DEF WorkerInv, QueueInv, QueueChange

\* DoAllocate leaves the ports as they should be: it opens only ports that
\* were never there, in sessions there are.
LEMMA AllocatePorts ==
    ASSUME NEW s \in States, PortsInv(s), NEW G \in SUBSET (DOMAIN s.ses), NEW bad,
           NEW d, d = DoAllocate(s, G, bad)
    PROVE  PortsInv(d)
<1> SUFFICES ASSUME NEW i \in PortIds PROVE PortInv(d, i)
  BY DEF PortsInv
<1>1. /\ AllocateChange(s, d)
      /\ \A g \in DOMAIN s.ses :
            IF g \in G THEN Covering(d.ses[g], s.ses[g], Uncovered(s, g))
                       ELSE d.ses[g] = s.ses[g]
      /\ d.current = s.current \cup {j \in ToOpen(s, G, bad) : j[4] = "udp"}
  BY DoAllocateIs
<1>2. IF i \in ToOpen(s, G, bad)
      THEN /\ d.port[i] \in PortRecords
           /\ d.port[i].life \in {"PRESTART", "PRETIMEOUT"}
           /\ d.port[i].ready = (i[4] = "udp")
           /\ d.port[i].signalled = IF d.port[i].ready THEN 1 ELSE 0
           /\ d.port[i].copies = s.port[i].copies + 1
      ELSE d.port[i] = s.port[i]
  BY DoAllocateIs
<1>3. PortInv(s, i)
  BY DEF PortsInv
<1>4. CASE i \in ToOpen(s, G, bad)
  <2>1. i[1] \in G /\ i[1] \in DOMAIN s.ses /\ <<i[2], i[3]>> \in Uncovered(s, i[1])
    BY <1>4 DEF ToOpen
  <2>2. <<i[2], i[3]>> \notin s.ses[i[1]].seqs
    BY <2>1 DEF Uncovered
  <2>3. s.port[i].copies = 0
    BY <1>3, <2>2 DEF PortInv
  <2>4. i[1] \in DOMAIN d.ses /\ <<i[2], i[3]>> \in d.ses[i[1]].seqs
    BY <1>1, <2>1 DEF Covering, AllocateChange
  <2> QED BY <1>2, <1>4, <2>3, <2>4 DEF PortInv
<1>5. CASE i \notin ToOpen(s, G, bad)
  <2>1. d.port[i] = s.port[i] /\ (i \in d.current => i \in s.current)
    BY <1>1, <1>2, <1>5
  <2>2. \A g \in DOMAIN s.ses : g \in DOMAIN d.ses /\ s.ses[g].seqs \subseteq d.ses[g].seqs
    BY <1>1 DEF Covering, AllocateChange
  <2> QED BY <1>3, <2>1, <2>2 DEF PortInv
<1> QED BY <1>4, <1>5

\* What a session covers after DoAllocate.
LEMMA CoversAll ==
    ASSUME NEW s \in States, NEW g, NEW n \in Nets, s.known[n] # NoIp
    PROVE  <<n, s.known[n]>> \in s.ses[g].seqs \cup Uncovered(s, g)
BY DEF Uncovered

\* Every session has been told of the networks, and those that have allocated
\* cover everything.
Told(s, d) ==
    \A g \in DOMAIN s.ses :
        /\ d.ses[g] \in SessionRecords /\ d.ses[g].networks = TRUE
        /\ d.ses[g].running = s.ses[g].running
        /\ d.ses[g].delayed = s.ses[g].delayed
        /\ d.ses[g].allocated = s.ses[g].allocated
        /\ d.ses[g].allocated =>
              \A n \in Nets : s.known[n] # NoIp => <<n, s.known[n]>> \in d.ses[g].seqs

\* That is what OnNetworksChanged does.
LEMMA NetworksChanged ==
    ASSUME NEW s \in States, PortsInv(s), NEW bad, NEW d, d = OnNetworksChanged(s, bad)
    PROVE  AllocateChange(s, d) /\ PortsInv(d) /\ Told(s, d)
<1>0. s.ses \in Seq(SessionRecords)
  BY DEF States
<1>f. PICK f : f = [g \in DOMAIN s.ses |-> IF g \in DOMAIN s.ses
                                           THEN [s.ses[g] EXCEPT !.networks = TRUE]
                                           ELSE s.ses[g]]
  OBVIOUS
<1>1. \A g \in DOMAIN s.ses :
         /\ f[g] \in SessionRecords /\ f[g].networks = TRUE
         /\ f[g].running = s.ses[g].running /\ f[g].delayed = s.ses[g].delayed
         /\ f[g].allocated = s.ses[g].allocated /\ f[g].seqs = s.ses[g].seqs
  <2> TAKE g \in DOMAIN s.ses
  <2>1. s.ses[g] \in SessionRecords /\ f[g] = [s.ses[g] EXCEPT !.networks = TRUE]
    BY <1>0, <1>f
  <2> QED BY <2>1 DEF SessionRecords
<1>2. f \in Seq(SessionRecords) /\ Len(f) = Len(s.ses) /\ DOMAIN f = DOMAIN s.ses
  <2>1. DOMAIN f = DOMAIN s.ses /\ f = [g \in DOMAIN s.ses |-> f[g]]
    BY <1>f
  <2> QED BY <1>0, <1>1, <2>1, NewSessions
<1>t. PICK t : t = [s EXCEPT !.ses = f]
  OBVIOUS
<1>3. /\ t \in States /\ t.ses = f /\ t.port = s.port /\ t.current = s.current
      /\ t.q = s.q /\ t.known = s.known /\ t.first = s.first /\ t.updating = s.updating
      /\ t.poll = s.poll /\ t.pinging = s.pinging /\ t.writable = s.writable
  BY <1>2, <1>t DEF States
<1>g. PICK G : G = {g \in DOMAIN s.ses : s.ses[g].allocated}
  OBVIOUS
<1>4. G \in SUBSET (DOMAIN t.ses)
  BY <1>2, <1>3, <1>g
<1>5. d = DoAllocate(t, G, bad)
  BY <1>f, <1>t, <1>g DEF OnNetworksChanged, Update, Sessions
<1>6. PortsInv(t)
  BY <1>1, <1>2, <1>3, PortsKept
<1>7. PortsInv(d)
  BY <1>3, <1>4, <1>5, <1>6, AllocatePorts
<1>8. /\ AllocateChange(t, d)
      /\ \A g \in DOMAIN t.ses :
            IF g \in G THEN Covering(d.ses[g], t.ses[g], Uncovered(t, g))
                       ELSE d.ses[g] = t.ses[g]
  BY <1>3, <1>5, DoAllocateIs
<1>9. AllocateChange(s, d)
  BY <1>2, <1>3, <1>8 DEF AllocateChange
<1>10. ASSUME NEW g \in DOMAIN s.ses
       PROVE  /\ d.ses[g] \in SessionRecords /\ d.ses[g].networks = TRUE
              /\ d.ses[g].running = s.ses[g].running
              /\ d.ses[g].delayed = s.ses[g].delayed
              /\ d.ses[g].allocated = s.ses[g].allocated
              /\ d.ses[g].allocated =>
                    \A n \in Nets : s.known[n] # NoIp => <<n, s.known[n]>> \in d.ses[g].seqs
  <2>1. CASE g \in G
    <3>1. Covering(d.ses[g], t.ses[g], Uncovered(t, g))
      BY <1>2, <1>3, <1>8, <2>1
    <3>2. \A n \in Nets : t.known[n] # NoIp => <<n, t.known[n]>> \in d.ses[g].seqs
      BY <1>3, <3>1, CoversAll DEF Covering
    <3> QED BY <1>1, <1>3, <3>1, <3>2 DEF Covering
  <2>2. CASE g \notin G
    <3>1. d.ses[g] = f[g] /\ ~s.ses[g].allocated
      BY <1>2, <1>3, <1>8, <1>g, <2>2
    <3> QED BY <1>1, <3>1
  <2> QED BY <2>1, <2>2
<1> QED BY <1>7, <1>9, <1>10 DEF Told

\* After OnNetworksChanged every session is as it should be, when the chains
\* of messages were and the network manager is.
LEMMA ChangedInv ==
    ASSUME NEW s, WorkerInv(s), NEW t \in States, NEW bad, NEW d,
           d = OnNetworksChanged(t, bad),
           t.q \in Seq(MessagesFor(Len(s.ses))),
           \A g : /\ CountOf(t.q, Configs(g)) = CountOf(s.q, Configs(g))
                  /\ CountOf(t.q, Allocs(g)) = CountOf(s.q, Allocs(g)),
           t.ses = s.ses, t.pinging = s.pinging, t.port = s.port, t.current = s.current,
           ManagerInv(t)
    PROVE  WorkerInv(d)
<1>1. PortsInv(t)
  BY InvFacts, PortsKept
<1>2. AllocateChange(t, d) /\ PortsInv(d) /\ Told(t, d)
  BY <1>1, NetworksChanged
<1>3. d \in States /\ d.q = t.q /\ d.pinging = s.pinging /\ d.known = t.known
      /\ d.first = t.first /\ d.updating = t.updating /\ d.poll = t.poll
      /\ Len(d.ses) = Len(s.ses) /\ DOMAIN d.ses = DOMAIN s.ses
  BY <1>2 DEF AllocateChange
<1>4. ASSUME NEW g \in DOMAIN d.ses PROVE SessionInv(d, g)
  <2>1. SessionInv(s, g)
    BY <1>3, InvFacts
  <2>2. /\ d.ses[g].networks
        /\ d.ses[g].running = s.ses[g].running
        /\ d.ses[g].delayed = s.ses[g].delayed
        /\ d.ses[g].allocated = s.ses[g].allocated
        /\ d.ses[g].allocated =>
              \A n \in Nets : d.known[n] # NoIp => <<n, d.known[n]>> \in d.ses[g].seqs
    BY <1>2, <1>3 DEF Told
  <2>3. /\ CountOf(d.q, Configs(g)) = CountOf(s.q, Configs(g))
        /\ CountOf(d.q, Allocs(g)) = CountOf(s.q, Allocs(g))
    BY <1>3
  <2> QED BY <1>3, <2>1, <2>2, <2>3 DEF SessionInv
<1>5. ManagerInv(d)
  BY <1>3 DEF ManagerInv
<1> QED BY <1>2, <1>3, <1>4, <1>5, InvFacts DEF WorkerInv, QueueInv

\* SIGNALNETWORKS tells the sessions that were added after the first update.
LEMMA SignalStep ==
    ASSUME WorkerInv(al), OnSignalNetworks PROVE WorkerInv(al')
<1>h. PICK h : h = Head(al.q)
  OBVIOUS
<1>s. PICK s : s = [al EXCEPT !.q = Tail(@)]
  OBVIOUS
<1>1. PICK bad : al.q # <<>> /\ h.id = "SIGNALNETWORKS" /\ al' = OnNetworksChanged(s, bad)
  BY <1>h, <1>s DEF OnSignalNetworks, Dispatch
<1>2. /\ s \in States /\ QueueChange(al, s) /\ s.q = Tail(al.q)
      /\ s.q \in Seq(MessagesFor(Len(al.ses)))
  BY <1>s, <1>1, InvFacts, TakenState
<1>3. \A g : /\ CountOf(s.q, Configs(g)) = CountOf(al.q, Configs(g))
             /\ CountOf(s.q, Allocs(g)) = CountOf(al.q, Allocs(g))
             /\ CountOf(s.q, Updates) = CountOf(al.q, Updates)
  <2> TAKE g
  <2>1. al.q \in Seq(Messages)
    BY InvFacts
  <2>2. /\ CountOf(s.q, Configs(g)) = CountOf(al.q, Configs(g)) - 0
        /\ CountOf(s.q, Allocs(g)) = CountOf(al.q, Allocs(g)) - 0
        /\ CountOf(s.q, Updates) = CountOf(al.q, Updates) - 0
    <3>1. /\ h.id \notin {"CONFIG_START", "CONFIG_READY"} /\ h.id # "ALLOCATE"
          /\ h.id # "UPDATENETWORKS"
      BY <1>1
    <3> QED BY <1>h, <1>1, <1>2, <2>1, <3>1, Taken
  <2> QED BY <2>1, <2>2, CountsTyped
<1>4. ManagerInv(s)
  BY <1>2, <1>3, InvFacts DEF QueueChange, ManagerInv
<1> QED BY <1>1, <1>2, <1>3, <1>4, ChangedInv DEF QueueChange

\* A poll takes UPDATENETWORKS off the queue and has it come again.
LEMMA UpdateTaken ==
    ASSUME WorkerInv(al), al.q # <<>>, Head(al.q).id = "UPDATENETWORKS", NEW s,
           s = [al EXCEPT !.q = Tail(@)]
    PROVE  /\ s \in States /\ QueueChange(al, s)
           /\ s.q \in Seq(MessagesFor(Len(al.ses)))
           /\ \A g : /\ CountOf(s.q, Configs(g)) = CountOf(al.q, Configs(g))
                     /\ CountOf(s.q, Allocs(g)) = CountOf(al.q, Allocs(g))
                     /\ CountOf(s.q, Signals) = CountOf(al.q, Signals)
           /\ CountOf(s.q, Updates) = 0 /\ s.updating
<1>h. PICK h : h = Head(al.q)
  OBVIOUS
<1>1. /\ s \in States /\ QueueChange(al, s) /\ s.q = Tail(al.q)
      /\ s.q \in Seq(MessagesFor(Len(al.ses)))
  BY InvFacts, TakenState
<1>2. al.q \in Seq(Messages) /\ s.q \in Seq(Messages)
  BY <1>1, InvFacts DEF States
<1>3. ASSUME NEW g
      PROVE  /\ CountOf(s.q, Configs(g)) = CountOf(al.q, Configs(g)) - 0
             /\ CountOf(s.q, Allocs(g)) = CountOf(al.q, Allocs(g)) - 0
             /\ CountOf(s.q, Signals) = CountOf(al.q, Signals) - 0
             /\ CountOf(s.q, Updates) = CountOf(al.q, Updates) - 1
  <2>1. /\ h.id \notin {"CONFIG_START", "CONFIG_READY"} /\ h.id # "ALLOCATE"
        /\ h.id # "SIGNALNETWORKS" /\ h.id = "UPDATENETWORKS"
    BY <1>h
  <2> QED BY <1>h, <1>1, <1>2, <2>1, Taken, SMTT(40)
<1>4. CountOf(s.q, Updates) = 0 /\ s.updating
  <2>1. CountOf(s.q, Updates) = CountOf(al.q, Updates) - 1
        /\ CountOf(s.q, Updates) \in Nat /\ CountOf(al.q, Updates) \in Nat
    BY <1>2, <1>3, CountsTyped
  <2>2. ManagerInv(al) /\ al.poll \in BOOLEAN /\ al.updating \in BOOLEAN
    BY InvFacts
  <2> QED BY <1>1, <2>1, <2>2 DEF ManagerInv, QueueChange
<1>5. \A g : /\ CountOf(s.q, Configs(g)) = CountOf(al.q, Configs(g))
             /\ CountOf(s.q, Allocs(g)) = CountOf(al.q, Allocs(g))
             /\ CountOf(s.q, Signals) = CountOf(al.q, Signals)
  BY <1>2, <1>3, CountsTyped
<1> QED BY <1>1, <1>4, <1>5

\* The poll fails: nothing but the messages changes.
LEMMA UpdateFailsStep ==
    ASSUME WorkerInv(al), UpdateFails PROVE WorkerInv(al')
<1>s. PICK s : s = [al EXCEPT !.q = Tail(@)]
  OBVIOUS
<1>1. /\ s \in States /\ QueueChange(al, s)
      /\ s.q \in Seq(MessagesFor(Len(al.ses)))
      /\ \A g : /\ CountOf(s.q, Configs(g)) = CountOf(al.q, Configs(g))
                /\ CountOf(s.q, Allocs(g)) = CountOf(al.q, Allocs(g))
                /\ CountOf(s.q, Signals) = CountOf(al.q, Signals)
      /\ CountOf(s.q, Updates) = 0 /\ s.updating
  BY <1>s, UpdateTaken DEF UpdateFails
<1>2. al' = [s EXCEPT !.poll = TRUE]
  BY <1>s, InvFacts DEF UpdateFails, States
<1>3. /\ al' \in States /\ al'.poll = TRUE /\ al'.q = s.q /\ al'.updating = s.updating
      /\ al'.first = s.first /\ al'.known = s.known /\ al'.ses = s.ses
      /\ al'.port = s.port /\ al'.current = s.current /\ al'.pinging = s.pinging
  BY <1>1, <1>2 DEF States
<1>4. ManagerInv(al')
  BY <1>1, <1>3, InvFacts DEF ManagerInv, QueueChange
<1>5. \A g \in DOMAIN al'.ses : SessionInv(al', g)
  BY <1>1, <1>3, InvFacts, SessionKept DEF QueueChange
<1>6. PortsInv(al')
  BY <1>1, <1>3, InvFacts, PortsKept DEF QueueChange
<1> QED BY <1>1, <1>3, <1>4, <1>5, <1>6, InvFacts DEF WorkerInv, QueueInv, QueueChange

\* The poll finds the networks as they are.
LEMMA UpdateStep ==
    ASSUME AllocatorInv, DoUpdateNetworks PROVE WorkerInv(al')
<1>0. WorkerInv(al) /\ ip \in [Nets -> Ips \cup {NoIp}]
  BY DEF AllocatorInv
<1>s. PICK s : s = [al EXCEPT !.q = Tail(@)]
  OBVIOUS
<1>t. PICK t : t = [s EXCEPT !.known = ip, !.first = TRUE, !.poll = TRUE]
  OBVIOUS
<1>1. /\ s \in States /\ QueueChange(al, s)
      /\ s.q \in Seq(MessagesFor(Len(al.ses)))
      /\ \A g : /\ CountOf(s.q, Configs(g)) = CountOf(al.q, Configs(g))
                /\ CountOf(s.q, Allocs(g)) = CountOf(al.q, Allocs(g))
                /\ CountOf(s.q, Signals) = CountOf(al.q, Signals)
      /\ CountOf(s.q, Updates) = 0 /\ s.updating
  BY <1>0, <1>s, UpdateTaken DEF DoUpdateNetworks, Dispatch
<1>2. /\ t \in States /\ t.poll = TRUE /\ t.q = s.q /\ t.updating = s.updating
      /\ t.first = TRUE /\ t.known = ip /\ t.ses = s.ses
      /\ t.port = s.port /\ t.current = s.current /\ t.pinging = s.pinging
  BY <1>0, <1>1, <1>t DEF States
<1>3. ManagerInv(t)
  BY <1>1, <1>2 DEF ManagerInv, QueueChange
<1>4. CASE s.known = ip
  <2>1. al' = t
    BY <1>s, <1>t, <1>4 DEF DoUpdateNetworks, Dispatch
  <2>2. \A g \in DOMAIN t.ses : SessionInv(t, g)
    BY <1>0, <1>1, <1>2, <1>4, InvFacts, SessionKept, ZenonT(60) DEF QueueChange
  <2>3. PortsInv(t)
    BY <1>0, <1>1, <1>2, InvFacts, PortsKept DEF QueueChange
  <2> QED BY <1>0, <1>1, <1>2, <1>3, <2>1, <2>2, <2>3, InvFacts
          DEF WorkerInv, QueueInv, QueueChange
<1>5. CASE s.known # ip
  <2>1. PICK bad : al' = OnNetworksChanged(t, bad)
    BY <1>s, <1>t, <1>5 DEF DoUpdateNetworks, Dispatch
  <2> QED BY <1>0, <1>1, <1>2, <1>3, <2>1, ChangedInv DEF QueueChange
<1> QED BY <1>4, <1>5

\* The delayed poll is due.
LEMMA UpdateDueStep ==
    ASSUME WorkerInv(al), UpdateDue PROVE WorkerInv(al')
<1>m. PICK m : m = Msg("UPDATENETWORKS", 0)
  OBVIOUS
<1>t. PICK t : t = Post(al, m)
  OBVIOUS
<1>0. al \in States /\ al.q \in Seq(MessagesFor(Len(al.ses))) /\ al.q \in Seq(Messages)
  BY InvFacts
<1>1. /\ t \in States /\ QueueChange(al, t) /\ t.q = Append(al.q, m)
      /\ t.q \in Seq(MessagesFor(Len(al.ses)))
      /\ m \in Messages /\ m.id = "UPDATENETWORKS" /\ m.gen = 0
  <2>1. PICK id \in Ids, g \in 0 .. MaxSessions : id = "UPDATENETWORKS" /\ g = 0
    BY AllocatorAssumption DEF Ids
  <2>2. id \notin SessionIds
    BY <2>1 DEF SessionIds
  <2> QED BY <1>m, <1>t, <1>0, <2>1, <2>2, PostedState
<1>2. al.poll /\ al' = [t EXCEPT !.poll = FALSE]
  BY <1>m, <1>t DEF UpdateDue
<1>3. /\ al' \in States /\ al'.poll = FALSE /\ al'.q = t.q /\ al'.updating = al.updating
      /\ al'.first = al.first /\ al'.known = al.known /\ al'.ses = al.ses
      /\ al'.port = al.port /\ al'.current = al.current /\ al'.pinging = al.pinging
  BY <1>1, <1>2 DEF States, QueueChange
<1>4. ASSUME NEW g
      PROVE  /\ CountOf(al'.q, Configs(g)) = CountOf(al.q, Configs(g))
             /\ CountOf(al'.q, Allocs(g)) = CountOf(al.q, Allocs(g))
             /\ CountOf(al'.q, Signals) = CountOf(al.q, Signals)
             /\ CountOf(al'.q, Updates) = CountOf(al.q, Updates) + 1
             /\ CountOf(al.q, Updates) \in Nat
  <2>1. /\ CountOf(t.q, Configs(g)) = CountOf(al.q, Configs(g)) + 0
        /\ CountOf(t.q, Allocs(g)) = CountOf(al.q, Allocs(g)) + 0
        /\ CountOf(t.q, Signals) = CountOf(al.q, Signals) + 0
        /\ CountOf(t.q, Updates) = CountOf(al.q, Updates) + 1
    <3>1. /\ m.id \notin {"CONFIG_START", "CONFIG_READY"} /\ m.id # "ALLOCATE"
          /\ m.id # "SIGNALNETWORKS" /\ m.id = "UPDATENETWORKS" /\ m \in Messages
      BY <1>1
    <3> QED BY <1>0, <1>1, <3>1, Posted
  <2> QED BY <1>0, <1>3, <2>1, CountsTyped
<1>5. ManagerInv(al')
  <2>1. /\ ManagerInv(al) /\ al.updating \in BOOLEAN /\ al.poll = TRUE
        /\ CountOf(al'.q, Updates) = CountOf(al.q, Updates) + 1
        /\ CountOf(al.q, Updates) \in Nat
    BY <1>2, <1>4, InvFacts
  <2> QED BY <1>3, <2>1 DEF ManagerInv
<1>6. \A g \in DOMAIN al'.ses : SessionInv(al', g)
  BY <1>3, <1>4, InvFacts, SessionKept
<1>7. PortsInv(al')
  BY <1>3, InvFacts, PortsKept
<1> QED BY <1>1, <1>3, <1>5, <1>6, <1>7, InvFacts DEF WorkerInv, QueueInv

\* The delayed MSG_ALLOCATE of a session is due.
LEMMA AllocateDueStep ==
    ASSUME WorkerInv(al), NEW k \in Gens, AllocateDue(k) PROVE WorkerInv(al')
<1>m. PICK m : m = Msg("ALLOCATE", k)
  OBVIOUS
<1>t. PICK t : t = Post(al, m)
  OBVIOUS
<1>0. /\ al \in States /\ al.q \in Seq(MessagesFor(Len(al.ses))) /\ al.q \in Seq(Messages)
      /\ k \in DOMAIN al.ses /\ k \in 1 .. Len(al.ses) /\ k \in 0 .. MaxSessions
      /\ al.ses \in Seq(SessionRecords) /\ al.ses[k] \in SessionRecords
  <2>1. k \in DOMAIN al.ses
    BY DEF AllocateDue, Sessions
  <2>2. /\ al \in States /\ al.q \in Seq(MessagesFor(Len(al.ses))) /\ al.q \in Seq(Messages)
        /\ al.ses \in Seq(SessionRecords) /\ al.ses[k] \in SessionRecords
        /\ Len(al.ses) \in 0 .. MaxSessions /\ DOMAIN al.ses = 1 .. Len(al.ses)
    BY <2>1, InvFacts
  <2>3. k \in 1 .. Len(al.ses) /\ k \in 0 .. MaxSessions
    BY <2>1, <2>2, AllocatorAssumption
  <2> QED BY <2>1, <2>2, <2>3
<1>1. /\ t \in States /\ QueueChange(al, t) /\ t.q = Append(al.q, m)
      /\ t.q \in Seq(MessagesFor(Len(al.ses)))
      /\ m \in Messages /\ m.id = "ALLOCATE" /\ m.gen = k
  <2>1. PICK id \in Ids : id = "ALLOCATE"
    BY DEF Ids
  <2> QED BY <1>m, <1>t, <1>0, <2>1, PostedState
<1>2. al.ses[k].delayed = 1
  BY <1>0 DEF AllocateDue, SessionRecords
<1>f. PICK f : f = [al.ses EXCEPT ![k].delayed = @ - 1]
  OBVIOUS
<1>3. al' = [t EXCEPT !.ses = f]
  BY <1>m, <1>t, <1>f, <1>1 DEF AllocateDue, QueueChange, States
<1>4. /\ f[k] \in SessionRecords /\ f[k].delayed = 0 /\ f[k].running = al.ses[k].running
      /\ f[k].networks = al.ses[k].networks /\ f[k].allocated = al.ses[k].allocated
      /\ f[k].seqs = al.ses[k].seqs
  <2>1. f[k] = [al.ses[k] EXCEPT !.delayed = 0]
    BY <1>0, <1>2, <1>f
  <2> QED BY <1>0, <2>1 DEF SessionRecords
<1>5. \A g \in DOMAIN al.ses : g # k => f[g] = al.ses[g]
  BY <1>f
<1>6. f \in Seq(SessionRecords) /\ Len(f) = Len(al.ses) /\ DOMAIN f = DOMAIN al.ses
  <2>1. DOMAIN f = DOMAIN al.ses /\ f = [g \in DOMAIN al.ses |-> f[g]]
    BY <1>f
  <2>2. \A g \in DOMAIN al.ses : f[g] \in SessionRecords
    BY <1>0, <1>4, <1>5
  <2> QED BY <1>0, <2>1, <2>2, NewSessions
<1>7. /\ al' \in States /\ al'.poll = al.poll /\ al'.q = t.q /\ al'.updating = al.updating
      /\ al'.first = al.first /\ al'.known = al.known /\ al'.ses = f
      /\ al'.port = al.port /\ al'.current = al.current /\ al'.pinging = al.pinging
  BY <1>1, <1>3, <1>6 DEF States, QueueChange
<1>8. ASSUME NEW g
      PROVE  /\ CountOf(al'.q, Configs(g)) = CountOf(al.q, Configs(g))
             /\ CountOf(al'.q, Allocs(g)) = CountOf(al.q, Allocs(g)) + (IF k = g THEN 1 ELSE 0)
             /\ CountOf(al'.q, Signals) = CountOf(al.q, Signals)
             /\ CountOf(al'.q, Updates) = CountOf(al.q, Updates)
             /\ CountOf(al.q, Configs(g)) \in Nat /\ CountOf(al.q, Allocs(g)) \in Nat
  <2>1. /\ CountOf(t.q, Configs(g)) = CountOf(al.q, Configs(g)) + 0
        /\ CountOf(t.q, Allocs(g)) = CountOf(al.q, Allocs(g)) + (IF k = g THEN 1 ELSE 0)
        /\ CountOf(t.q, Signals) = CountOf(al.q, Signals) + 0
        /\ CountOf(t.q, Updates) = CountOf(al.q, Updates) + 0
    <3>1. /\ m.id \notin {"CONFIG_START", "CONFIG_READY"} /\ m.id # "UPDATENETWORKS"
          /\ m.id # "SIGNALNETWORKS" /\ m.id = "ALLOCATE" /\ m \in Messages /\ m.gen = k
      BY <1>1
    <3>2. al.q \in Seq(Messages) /\ t.q = Append(al.q, m)
      BY <1>0, <1>1
    <3> QED BY <3>1, <3>2, Posted
  <2> QED BY <1>0, <1>7, <2>1, CountsTyped
<1>9. ManagerInv(al')
  <2>1. ManagerInv(al) /\ CountOf(al'.q, Updates) = CountOf(al.q, Updates)
    BY <1>8, InvFacts
  <2> QED BY <1>7, <2>1, ManagerKept
<1>10. ASSUME NEW g \in DOMAIN al'.ses PROVE SessionInv(al', g)
  <2>1. SessionInv(al, g) /\ g \in DOMAIN al.ses
    BY <1>6, <1>7, InvFacts
  <2>2. CASE g # k
    <3>1. /\ al'.ses[g] = al.ses[g]
          /\ CountOf(al'.q, Configs(g)) = CountOf(al.q, Configs(g))
          /\ CountOf(al'.q, Allocs(g)) = CountOf(al.q, Allocs(g))
          /\ CountOf(al'.q, Signals) = CountOf(al.q, Signals)
      BY <1>5, <1>7, <1>8, <2>1, <2>2
    <3> QED BY <1>7, <2>1, <3>1, SessionKept
  <2>3. CASE g = k
    <3>1. /\ CountOf(al'.q, Configs(g)) = CountOf(al.q, Configs(g))
          /\ CountOf(al'.q, Allocs(g)) = CountOf(al.q, Allocs(g)) + 1
          /\ CountOf(al'.q, Signals) = CountOf(al.q, Signals)
          /\ CountOf(al.q, Configs(g)) \in Nat /\ CountOf(al.q, Allocs(g)) \in Nat
      BY <1>8, <2>3
    <3>2. al.ses[g].allocated /\ al.ses[g].running
      BY <1>2, <2>1, <2>3, <3>1 DEF SessionInv
    <3>3. /\ al'.ses[g].delayed = 0 /\ al'.ses[g].running /\ al'.ses[g].allocated
          /\ al'.ses[g].networks = al.ses[g].networks /\ al'.ses[g].seqs = al.ses[g].seqs
      BY <1>4, <1>7, <2>3, <3>2
    <3>4. al.ses[g].delayed = 1 /\ al'.pinging = al.pinging /\ al'.known = al.known
      BY <1>2, <1>7, <2>3
    <3> QED BY <2>1, <3>1, <3>2, <3>3, <3>4 DEF SessionInv
  <2> QED BY <2>2, <2>3
<1>11. PortsInv(al')
  <2>1. \A g \in DOMAIN al.ses : al.ses[g].seqs \subseteq al'.ses[g].seqs
    BY <1>4, <1>5, <1>7
  <2> QED BY <1>6, <1>7, <2>1, InvFacts, PortsKept
<1> QED BY <1>1, <1>6, <1>7, <1>9, <1>10, <1>11, InvFacts DEF WorkerInv, QueueInv

\* MSG_ALLOCATE: DoAllocate if the networks are known, and again in a while if
\* the session runs.
LEMMA AllocateStep ==
    ASSUME WorkerInv(al), OnAllocate PROVE WorkerInv(al')
<1>h. PICK h : h = Head(al.q)
  OBVIOUS
<1>k. PICK k : k = h.gen
  OBVIOUS
<1>s. PICK s : s = [al EXCEPT !.q = Tail(@)]
  OBVIOUS
<1>g. PICK G : G = IF s.ses[k].networks THEN {k} ELSE {}
  OBVIOUS
<1>1. PICK bad \in SUBSET Kinds :
         /\ al.q # <<>> /\ h.id = "ALLOCATE"
         /\ al' = [DoAllocate(s, G, bad) EXCEPT
                     !.ses[k].allocated = TRUE,
                     !.ses[k].delayed = IF s.ses[k].running THEN @ + 1 ELSE @]
  BY <1>h, <1>k, <1>s, <1>g, ZenonT(40) DEF OnAllocate, Dispatch
<1>d. PICK d : d = DoAllocate(s, G, bad)
  OBVIOUS
<1>2. /\ s \in States /\ QueueChange(al, s) /\ s.q = Tail(al.q)
      /\ s.q \in Seq(MessagesFor(Len(al.ses)))
      /\ h \in MessagesFor(Len(al.ses)) /\ h \in Messages
  BY <1>h, <1>s, <1>1, InvFacts, TakenState
<1>3. k \in 1 .. Len(al.ses) /\ k \in DOMAIN al.ses
  BY <1>k, <1>1, <1>2, InvFacts DEF MessagesFor, SessionIds
<1>4. ASSUME NEW g
      PROVE  /\ CountOf(s.q, Configs(g)) = CountOf(al.q, Configs(g))
             /\ CountOf(s.q, Allocs(g)) = CountOf(al.q, Allocs(g)) - (IF k = g THEN 1 ELSE 0)
             /\ CountOf(s.q, Signals) = CountOf(al.q, Signals)
             /\ CountOf(s.q, Updates) = CountOf(al.q, Updates)
             /\ CountOf(al.q, Configs(g)) \in Nat /\ CountOf(al.q, Allocs(g)) \in Nat
             /\ CountOf(s.q, Allocs(g)) \in Nat
  <2>1. al.q \in Seq(Messages) /\ s.q \in Seq(Messages)
    BY <1>2, InvFacts DEF States
  <2>2. /\ CountOf(s.q, Configs(g)) = CountOf(al.q, Configs(g)) - 0
        /\ CountOf(s.q, Allocs(g)) = CountOf(al.q, Allocs(g)) - (IF k = g THEN 1 ELSE 0)
        /\ CountOf(s.q, Signals) = CountOf(al.q, Signals) - 0
        /\ CountOf(s.q, Updates) = CountOf(al.q, Updates) - 0
    <3>1. /\ h.id \notin {"CONFIG_START", "CONFIG_READY"} /\ h.id # "UPDATENETWORKS"
          /\ h.id # "SIGNALNETWORKS" /\ h.id = "ALLOCATE"
      BY <1>1
    <3> QED BY <1>h, <1>k, <1>1, <1>2, <2>1, <3>1, Taken
  <2> QED BY <2>1, <2>2, CountsTyped
<1>5. /\ AllocateChange(s, d)
      /\ \A g \in DOMAIN s.ses :
            IF g \in G THEN Covering(d.ses[g], s.ses[g], Uncovered(s, g))
                       ELSE d.ses[g] = s.ses[g]
  BY <1>2, <1>d, DoAllocateIs
<1>6. /\ d \in States /\ d.q = s.q /\ d.known = al.known /\ d.first = al.first
      /\ d.updating = al.updating /\ d.poll = al.poll /\ d.pinging = al.pinging
      /\ Len(d.ses) = Len(al.ses) /\ DOMAIN d.ses = DOMAIN al.ses /\ s.ses = al.ses
      /\ d.ses \in Seq(SessionRecords) /\ s.known = al.known
  BY <1>2, <1>5 DEF AllocateChange, QueueChange, States
<1>7. PortsInv(d)
  <2>1. PortsInv(s)
    BY <1>2, InvFacts, PortsKept DEF QueueChange
  <2>2. G \in SUBSET (DOMAIN s.ses)
    BY <1>g, <1>3, <1>6
  <2> QED BY <1>2, <1>d, <2>1, <2>2, AllocatePorts
<1>8. /\ al.ses[k] \in SessionRecords /\ al.ses[k].delayed = 0
      /\ CountOf(s.q, Configs(k)) = 0 /\ CountOf(s.q, Allocs(k)) = 0
  <2>1. SessionInv(al, k) /\ al.ses[k] \in SessionRecords
    BY <1>3, InvFacts
  <2>2. al.ses[k].delayed \in Nat
    BY <2>1 DEF SessionRecords
  <2>3. CountOf(s.q, Configs(k)) = CountOf(al.q, Configs(k))
        /\ CountOf(s.q, Allocs(k)) = CountOf(al.q, Allocs(k)) - 1
        /\ CountOf(al.q, Configs(k)) \in Nat /\ CountOf(al.q, Allocs(k)) \in Nat
        /\ CountOf(s.q, Allocs(k)) \in Nat
    BY <1>4
  <2> QED BY <2>1, <2>2, <2>3 DEF SessionInv
<1>r. PICK r : r = d.ses[k]
  OBVIOUS
<1>9. /\ r \in SessionRecords /\ r.running = al.ses[k].running /\ r.delayed = 0
      /\ r.networks = al.ses[k].networks /\ al.ses[k].seqs \subseteq r.seqs
      /\ r.networks => \A n \in Nets : al.known[n] # NoIp => <<n, al.known[n]>> \in r.seqs
  <2>1. CASE al.ses[k].networks
    <3>1. Covering(r, s.ses[k], Uncovered(s, k))
      BY <1>g, <1>r, <1>3, <1>5, <1>6, <2>1
    <3>2. \A n \in Nets : s.known[n] # NoIp => <<n, s.known[n]>> \in r.seqs
      BY <1>2, <3>1, CoversAll DEF Covering
    <3> QED BY <1>6, <1>8, <3>1, <3>2 DEF Covering
  <2>2. CASE ~al.ses[k].networks
    <3>1. r = al.ses[k]
      BY <1>g, <1>r, <1>3, <1>5, <1>6, <2>2
    <3> QED BY <1>8, <2>2, <3>1
  <2> QED BY <2>1, <2>2
<1>e. PICK e : e = [r EXCEPT !.allocated = TRUE, !.delayed = IF r.running THEN @ + 1 ELSE @]
  OBVIOUS
<1>10. /\ e \in SessionRecords /\ e.allocated = TRUE /\ e.running = r.running
       /\ e.networks = r.networks /\ e.seqs = r.seqs
       /\ e.delayed = IF r.running THEN 1 ELSE 0
  <2>1. (IF r.running THEN r.delayed + 1 ELSE r.delayed) = (IF r.running THEN 1 ELSE 0)
    BY <1>9
  <2>2. e = [r EXCEPT !.allocated = TRUE, !.delayed = IF r.running THEN 1 ELSE 0]
    BY <1>e, <2>1
  <2>3. CASE r.running
    <3>1. e = [r EXCEPT !.allocated = TRUE, !.delayed = 1]
      BY <2>2, <2>3
    <3>2. r \in SessionRecords
      BY <1>9
    <3>3. /\ e \in SessionRecords /\ e.allocated = TRUE /\ e.running = r.running
          /\ e.networks = r.networks /\ e.seqs = r.seqs /\ e.delayed = 1
      <4>1. PICK n : n = 1
        OBVIOUS
      <4>2. n \in 0 .. 1 /\ e = [r EXCEPT !.allocated = TRUE, !.delayed = n]
        BY <3>1, <4>1
      <4> QED BY <3>2, <4>1, <4>2 DEF SessionRecords
    <3> QED BY <2>3, <3>3
  <2>4. CASE ~r.running
    <3>1. e = [r EXCEPT !.allocated = TRUE, !.delayed = 0]
      BY <2>2, <2>4
    <3> QED BY <1>9, <2>4, <3>1 DEF SessionRecords
  <2> QED BY <2>3, <2>4
<1>f. PICK f : f = [d.ses EXCEPT ![k] = e]
  OBVIOUS
<1>11. f[k] = e /\ \A g \in DOMAIN al.ses : g # k => f[g] = al.ses[g]
  <2>1. ASSUME NEW g \in DOMAIN al.ses, g # k PROVE f[g] = al.ses[g]
    <3>1. g \notin G
      BY <1>g, <2>1
    <3> QED BY <1>f, <1>5, <1>6, <2>1, <3>1
  <2> QED BY <1>f, <1>3, <1>6, <2>1
<1>12. f \in Seq(SessionRecords) /\ Len(f) = Len(al.ses) /\ DOMAIN f = DOMAIN al.ses
  <2>1. DOMAIN f = DOMAIN d.ses /\ f = [g \in DOMAIN d.ses |-> f[g]]
    BY <1>f
  <2>2. \A g \in DOMAIN d.ses : f[g] \in SessionRecords
    BY <1>f, <1>6, <1>10
  <2> QED BY <1>6, <2>1, <2>2, NewSessions
<1>13. al' = [d EXCEPT !.ses = f]
  <2>1. s.ses[k].running = r.running
    BY <1>6, <1>9
  <2> QED BY <1>1, <1>d, <1>r, <1>e, <1>f, <2>1
<1>14. /\ al' \in States /\ al'.poll = al.poll /\ al'.q = s.q /\ al'.updating = al.updating
       /\ al'.first = al.first /\ al'.known = al.known /\ al'.ses = f
       /\ al'.port = d.port /\ al'.current = d.current /\ al'.pinging = al.pinging
  BY <1>6, <1>12, <1>13 DEF States
<1>15. ManagerInv(al')
  <2>1. ManagerInv(al) /\ CountOf(al'.q, Updates) = CountOf(al.q, Updates)
    BY <1>4, <1>14, InvFacts
  <2> QED BY <1>14, <2>1, ManagerKept
<1>16. ASSUME NEW g \in DOMAIN al'.ses PROVE SessionInv(al', g)
  <2>1. SessionInv(al, g) /\ g \in DOMAIN al.ses
    BY <1>12, <1>14, InvFacts
  <2>2. CASE g # k
    <3>1. /\ al'.ses[g] = al.ses[g]
          /\ CountOf(al'.q, Configs(g)) = CountOf(al.q, Configs(g))
          /\ CountOf(al'.q, Allocs(g)) = CountOf(al.q, Allocs(g))
          /\ CountOf(al'.q, Signals) = CountOf(al.q, Signals)
      BY <1>4, <1>11, <1>14, <2>1, <2>2
    <3> QED BY <1>14, <2>1, <3>1, SessionKept
  <2>3. CASE g = k
    <3>1. /\ CountOf(al'.q, Configs(g)) = 0 /\ CountOf(al'.q, Allocs(g)) = 0
          /\ CountOf(al'.q, Signals) = CountOf(al.q, Signals)
      BY <1>4, <1>8, <1>14, <2>3
    <3>2. al'.ses[g] = e
      BY <1>11, <1>14, <2>3
    <3> QED BY <1>9, <1>10, <1>14, <2>1, <2>3, <3>1, <3>2 DEF SessionInv
  <2> QED BY <2>2, <2>3
<1>17. PortsInv(al')
  <2>1. \A g \in DOMAIN d.ses : d.ses[g].seqs \subseteq al'.ses[g].seqs
    BY <1>f, <1>r, <1>6, <1>10, <1>14
  <2> QED BY <1>6, <1>7, <1>12, <1>14, <2>1, PortsKept
<1> QED BY <1>2, <1>12, <1>14, <1>15, <1>16, <1>17, InvFacts DEF WorkerInv, QueueInv

-----------------------------------------------------------------------------
(* The channel.                                                            *)

\* Start keeps what the invariant says of ports.
LEMMA StartInv ==
    ASSUME NEW s \in States, PortsInv(s), NEW S, NEW t, t = Start(s, S)
    PROVE  PortChange(s, t) /\ PortsInv(t)
<1>1. /\ PortChange(s, t) /\ t.current = s.current
      /\ \A i \in PortIds :
            t.port[i] = IF i \in S /\ s.port[i].life = "PRESTART"
                        THEN [s.port[i] EXCEPT !.life = "PRETIMEOUT"] ELSE s.port[i]
  BY StartPorts
<1>2. t.ses = s.ses /\ s.port \in [PortIds -> PortRecords]
  BY <1>1 DEF PortChange, States
<1>3. ASSUME NEW i \in PortIds PROVE PortInv(t, i)
  <2>1. PortInv(s, i) /\ s.port[i] \in PortRecords
    BY <1>2 DEF PortsInv
  <2>2. CASE i \in S /\ s.port[i].life = "PRESTART"
    <3>1. t.port[i] = [s.port[i] EXCEPT !.life = "PRETIMEOUT"]
      BY <1>1, <2>2
    <3>2. /\ t.port[i].life = "PRETIMEOUT" /\ t.port[i].ready = s.port[i].ready
          /\ t.port[i].signalled = s.port[i].signalled
          /\ t.port[i].copies = s.port[i].copies
      BY <2>1, <3>1 DEF PortRecords
    <3> QED BY <1>1, <1>2, <2>1, <2>2, <3>2 DEF PortInv
  <2>3. CASE ~(i \in S /\ s.port[i].life = "PRESTART")
    <3>1. t.port[i] = s.port[i]
      BY <1>1, <2>3
    <3> QED BY <1>1, <1>2, <2>1, <3>1 DEF PortInv
  <2> QED BY <2>2, <2>3
<1> QED BY <1>1, <1>3 DEF PortsInv

\* A session that starts, from one that does not wait for anything.
StartedFrom(n, r) ==
    /\ n \in SessionRecords
    /\ n.running = TRUE /\ n.delayed = IF r.allocated THEN 1 ELSE 0
    /\ n.networks = r.networks /\ n.allocated = r.allocated /\ n.seqs = r.seqs

\* StartGetAllPorts starts its sessions and their ports.
LEMMA StartIs ==
    ASSUME NEW s \in States, PortsInv(s), NEW G,
           \A g \in DOMAIN s.ses : g \in G => s.ses[g].delayed = 0,
           NEW t, t = StartGetAllPorts(s, G)
    PROVE  /\ AllocateChange(s, t) /\ PortsInv(t)
           /\ \A g \in DOMAIN s.ses :
                 IF g \in G THEN StartedFrom(t.ses[g], s.ses[g])
                            ELSE t.ses[g] = s.ses[g]
<1>0. s.ses \in Seq(SessionRecords)
  BY DEF States
<1>f. PICK f : f = [g \in DOMAIN s.ses |->
                      IF g \in G
                      THEN [s.ses[g] EXCEPT !.running = TRUE,
                              !.delayed = IF s.ses[g].allocated THEN @ + 1 ELSE @]
                      ELSE s.ses[g]]
  OBVIOUS
<1>1. \A g \in DOMAIN s.ses :
         IF g \in G THEN StartedFrom(f[g], s.ses[g]) ELSE f[g] = s.ses[g]
  <2> SUFFICES ASSUME NEW g \in DOMAIN s.ses
               PROVE  IF g \in G THEN StartedFrom(f[g], s.ses[g]) ELSE f[g] = s.ses[g]
    OBVIOUS
  <2>1. CASE g \notin G
    BY <1>f, <2>1
  <2>2. CASE g \in G
    <3>r. PICK r : r = s.ses[g]
      OBVIOUS
    <3>1. r \in SessionRecords /\ r.delayed = 0
      BY <1>0, <2>2, <3>r
    <3>2. f[g] = [r EXCEPT !.running = TRUE, !.delayed = IF r.allocated THEN @ + 1 ELSE @]
      BY <1>f, <2>2, <3>r
    <3>3. CASE r.allocated
      <4>1. f[g] = [r EXCEPT !.running = TRUE, !.delayed = 1]
        BY <3>1, <3>2, <3>3
      <4>2. /\ f[g] \in SessionRecords /\ f[g].running = TRUE /\ f[g].delayed = 1
            /\ f[g].networks = r.networks /\ f[g].allocated = r.allocated
            /\ f[g].seqs = r.seqs
        <5>1. PICK n : n = 1
          OBVIOUS
        <5>2. n \in 0 .. 1 /\ f[g] = [r EXCEPT !.running = TRUE, !.delayed = n]
          BY <4>1, <5>1
        <5> QED BY <3>1, <5>1, <5>2 DEF SessionRecords
      <4>3. StartedFrom(f[g], r)
        BY <3>3, <4>2 DEF StartedFrom
      <4> QED BY <2>2, <3>r, <4>3
    <3>4. CASE ~r.allocated
      <4>1. f[g] = [r EXCEPT !.running = TRUE, !.delayed = 0]
        BY <3>1, <3>2, <3>4
      <4>2. /\ f[g] \in SessionRecords /\ f[g].running = TRUE /\ f[g].delayed = 0
            /\ f[g].networks = r.networks /\ f[g].allocated = r.allocated
            /\ f[g].seqs = r.seqs
        BY <3>1, <4>1 DEF SessionRecords
      <4>3. StartedFrom(f[g], r)
        BY <3>4, <4>2 DEF StartedFrom
      <4> QED BY <2>2, <3>r, <4>3
    <3> QED BY <3>3, <3>4
  <2> QED BY <2>1, <2>2
<1>2. f \in Seq(SessionRecords) /\ Len(f) = Len(s.ses) /\ DOMAIN f = DOMAIN s.ses
  <2>1. DOMAIN f = DOMAIN s.ses /\ f = [g \in DOMAIN s.ses |-> f[g]]
    BY <1>f
  <2>2. \A g \in DOMAIN s.ses : f[g] \in SessionRecords
    BY <1>0, <1>1 DEF StartedFrom
  <2> QED BY <1>0, <2>1, <2>2, NewSessions
<1>u. PICK u : u = [s EXCEPT !.ses = f]
  OBVIOUS
<1>3. /\ u \in States /\ u.ses = f /\ u.port = s.port /\ u.current = s.current
      /\ u.q = s.q /\ u.known = s.known /\ u.first = s.first /\ u.updating = s.updating
      /\ u.poll = s.poll /\ u.pinging = s.pinging /\ u.writable = s.writable
  BY <1>2, <1>u DEF States
<1>4. PortsInv(u)
  <2>1. \A g \in DOMAIN s.ses : s.ses[g].seqs \subseteq u.ses[g].seqs
    BY <1>1, <1>3 DEF StartedFrom
  <2> QED BY <1>2, <1>3, <2>1, PortsKept
<1>p. PICK S : S = PortsOf(s, G)
  OBVIOUS
<1>5. t = Start(u, S)
  BY <1>f, <1>u, <1>p DEF StartGetAllPorts, Update
<1>6. PortChange(u, t) /\ PortsInv(t)
  BY <1>3, <1>4, <1>5, StartInv
<1>7. AllocateChange(s, t) /\ t.ses = f
  BY <1>2, <1>3, <1>6 DEF PortChange, AllocateChange
<1> QED BY <1>1, <1>6, <1>7

\* A session that starts keeps its chain of messages, or gets a new one.
LEMMA SessionStarted ==
    ASSUME NEW s, NEW t, NEW g, SessionInv(s, g), ~s.ses[g].running,
           s.ses[g].allocated \in BOOLEAN,
           ~s.ses[g].allocated =>
               CountOf(s.q, Configs(g)) + CountOf(s.q, Allocs(g)) = 1,
           s.q \in Seq(Messages), s.ses[g].delayed = 0,
           t.q = s.q, t.known = s.known, t.pinging, StartedFrom(t.ses[g], s.ses[g])
    PROVE  SessionInv(t, g)
<1>1. CountOf(s.q, Configs(g)) \in Nat /\ CountOf(s.q, Allocs(g)) \in Nat
  BY CountsTyped
<1>2. CASE s.ses[g].allocated
  <2>1. CountOf(s.q, Configs(g)) = 0 /\ CountOf(s.q, Allocs(g)) = 0
    BY <1>1, <1>2 DEF SessionInv
  <2>2. /\ t.ses[g].delayed = 1 /\ t.ses[g].running /\ t.ses[g].allocated
        /\ t.ses[g].networks = s.ses[g].networks /\ t.ses[g].seqs = s.ses[g].seqs
    BY <1>2 DEF StartedFrom
  <2> QED BY <1>2, <2>1, <2>2 DEF SessionInv
<1>3. CASE ~s.ses[g].allocated
  <2>2. /\ t.ses[g].delayed = 0 /\ t.ses[g].running /\ ~t.ses[g].allocated
        /\ t.ses[g].networks = s.ses[g].networks /\ t.ses[g].seqs = s.ses[g].seqs
    BY <1>3 DEF StartedFrom
  <2> QED BY <1>1, <1>3, <2>2 DEF SessionInv
<1> QED BY <1>2, <1>3

\* A session that does not run has no MSG_ALLOCATE delayed.
LEMMA StoppedHasNone ==
    ASSUME NEW s, WorkerInv(s), NEW g \in DOMAIN s.ses, ~s.ses[g].running
    PROVE  s.ses[g].delayed = 0
<1>1. SessionInv(s, g) /\ s.ses[g] \in SessionRecords /\ s.q \in Seq(Messages)
  BY InvFacts
<1>2. CountOf(s.q, Allocs(g)) \in Nat /\ s.ses[g].delayed \in Nat
  BY <1>1, CountsTyped DEF SessionRecords
<1>3. CASE s.ses[g].allocated
  BY <1>1, <1>2, <1>3 DEF SessionInv
<1>4. CASE ~s.ses[g].allocated
  BY <1>1, <1>4 DEF SessionInv
<1> QED BY <1>3, <1>4

\* A remote candidate: connections from the ports there are, and the first
\* one starts the sessions.
LEMMA CandidateStep ==
    ASSUME WorkerInv(al), OnCandidate PROVE WorkerInv(al')
<1>f. PICK f : f = [i \in DOMAIN al.port |->
                      IF i \in al.current THEN [al.port[i] EXCEPT !.busy = TRUE]
                                          ELSE al.port[i]]
  OBVIOUS
<1>0. al \in States /\ al.port \in [PortIds -> PortRecords] /\ PortsInv(al)
  BY InvFacts DEF States
<1>1. \A i \in PortIds :
         /\ f[i] \in PortRecords /\ f[i].life = al.port[i].life
         /\ f[i].ready = al.port[i].ready /\ f[i].signalled = al.port[i].signalled
         /\ f[i].copies = al.port[i].copies
         /\ i \notin al.current => f[i] = al.port[i]
  <2> TAKE i \in PortIds
  <2>1. al.port[i] \in PortRecords
    BY <1>0
  <2>2. CASE i \in al.current
    <3>1. f[i] = [al.port[i] EXCEPT !.busy = TRUE]
      BY <1>f, <1>0, <2>2
    <3> QED BY <2>1, <2>2, <3>1 DEF PortRecords
  <2>3. CASE i \notin al.current
    <3>1. f[i] = al.port[i]
      BY <1>f, <1>0, <2>3
    <3> QED BY <2>1, <3>1
  <2> QED BY <2>2, <2>3
<1>2. f \in [PortIds -> PortRecords]
  BY <1>f, <1>0, <1>1
<1>s. PICK s : s = [al EXCEPT !.pinging = TRUE, !.port = f]
  OBVIOUS
<1>3. /\ s \in States /\ s.ses = al.ses /\ s.port = f /\ s.current = al.current
      /\ s.q = al.q /\ s.known = al.known /\ s.first = al.first
      /\ s.updating = al.updating /\ s.poll = al.poll /\ s.pinging = TRUE
  BY <1>0, <1>2, <1>s DEF States
<1>4. PortsInv(s)
  <2>1. ASSUME NEW i \in PortIds PROVE PortInv(s, i)
    <3>1. PortInv(al, i)
      BY <1>0 DEF PortsInv
    <3>2. /\ s.port[i].life = al.port[i].life
          /\ s.port[i].ready = al.port[i].ready
          /\ s.port[i].signalled = al.port[i].signalled
          /\ s.port[i].copies = al.port[i].copies
          /\ i \notin al.current => s.port[i] = al.port[i]
      BY <1>1, <1>3
    <3> QED BY <1>3, <3>1, <3>2 DEF PortInv
  <2> QED BY <2>1 DEF PortsInv
<1>g. PICK G : G = {g \in Sessions(al) : ~al.ses[g].running}
  OBVIOUS
<1>5. al' = IF al.pinging THEN s ELSE StartGetAllPorts(s, G)
  BY <1>f, <1>s, <1>g DEF OnCandidate, Update
<1>6. ManagerInv(s)
  BY <1>3, InvFacts, ManagerKept
<1>7. CASE al.pinging
  <2>1. \A g \in DOMAIN s.ses : SessionInv(s, g)
    <3>1. s.pinging = al.pinging
      BY <1>3, <1>7, InvFacts
    <3> QED BY <1>3, <3>1, InvFacts, SessionKept
  <2> QED BY <1>3, <1>4, <1>5, <1>6, <1>7, <2>1, InvFacts DEF WorkerInv, QueueInv
<1>8. CASE ~al.pinging
  <2>1. \A g \in DOMAIN al.ses : /\ ~al.ses[g].running /\ g \in G
                                 /\ al.ses[g].delayed = 0
    <3> TAKE g \in DOMAIN al.ses
    <3>1. ~al.ses[g].running
      BY <1>8, InvFacts DEF SessionInv
    <3> QED BY <1>g, <3>1, StoppedHasNone DEF Sessions
  <2>2. /\ AllocateChange(s, al') /\ PortsInv(al')
        /\ \A g \in DOMAIN s.ses : IF g \in G THEN StartedFrom(al'.ses[g], s.ses[g])
                                              ELSE al'.ses[g] = s.ses[g]
    <3>1. al' = StartGetAllPorts(s, G)
      BY <1>5, <1>8
    <3>2. \A g \in DOMAIN s.ses : g \in G => s.ses[g].delayed = 0
      BY <1>3, <2>1
    <3> QED BY <1>3, <1>4, <3>1, <3>2, StartIs
  <2>3. /\ al' \in States /\ al'.q = al.q /\ al'.known = al.known
        /\ al'.first = al.first /\ al'.updating = al.updating /\ al'.poll = al.poll
        /\ al'.pinging = TRUE /\ Len(al'.ses) = Len(al.ses)
        /\ DOMAIN al'.ses = DOMAIN al.ses
    BY <1>3, <2>2 DEF AllocateChange
  <2>4. ManagerInv(al')
    BY <2>3, InvFacts, ManagerKept
  <2>5. ASSUME NEW g \in DOMAIN al'.ses PROVE SessionInv(al', g)
    <3>1. SessionInv(al, g) /\ al.ses[g] \in SessionRecords /\ g \in DOMAIN al.ses
          /\ al.q \in Seq(Messages)
      BY <2>3, InvFacts
    <3>2. al.ses[g].allocated \in BOOLEAN
      BY <3>1 DEF SessionRecords
    <3>3. ~al.ses[g].allocated =>
             CountOf(al.q, Configs(g)) + CountOf(al.q, Allocs(g)) = 1
      BY <1>8, <3>1 DEF SessionInv
    <3>4. StartedFrom(al'.ses[g], al.ses[g]) /\ ~al.ses[g].running
          /\ al.ses[g].delayed = 0
      BY <1>3, <2>1, <2>2, <3>1
    <3> QED BY <2>3, <3>1, <3>2, <3>3, <3>4, SessionStarted
  <2> QED BY <2>2, <2>3, <2>4, <2>5, InvFacts DEF WorkerInv, QueueInv
<1> QED BY <1>7, <1>8, InvFacts

\* The channel becomes writable: its sessions stop, and their MSG_ALLOCATE are
\* taken back.
LEMMA WritableStep ==
    ASSUME WorkerInv(al), HandleWritable PROVE WorkerInv(al')
<1>g. PICK G : G = {g \in Sessions(al) : al.ses[g].running}
  OBVIOUS
<1>0. /\ al \in States /\ al.q \in Seq(MessagesFor(Len(al.ses))) /\ al.q \in Seq(Messages)
      /\ al.ses \in Seq(SessionRecords)
  BY InvFacts
<1>f. PICK f : f = [g \in DOMAIN al.ses |->
                      IF g \in G THEN [al.ses[g] EXCEPT !.running = FALSE, !.delayed = 0]
                                 ELSE al.ses[g]]
  OBVIOUS
<1>1. \A g \in DOMAIN al.ses :
         /\ f[g] \in SessionRecords /\ f[g].networks = al.ses[g].networks
         /\ f[g].allocated = al.ses[g].allocated /\ f[g].seqs = al.ses[g].seqs
         /\ f[g].running = FALSE
         /\ g \in G => f[g].delayed = 0
         /\ g \notin G => f[g] = al.ses[g]
  <2> TAKE g \in DOMAIN al.ses
  <2>1. al.ses[g] \in SessionRecords
    BY <1>0
  <2>2. CASE g \in G
    <3>1. f[g] = [al.ses[g] EXCEPT !.running = FALSE, !.delayed = 0]
      BY <1>f, <2>2
    <3>2. PICK n : n = 0
      OBVIOUS
    <3>3. n \in 0 .. 1 /\ f[g] = [al.ses[g] EXCEPT !.running = FALSE, !.delayed = n]
      BY <3>1, <3>2
    <3>4. /\ f[g] \in SessionRecords /\ f[g].networks = al.ses[g].networks
          /\ f[g].allocated = al.ses[g].allocated /\ f[g].seqs = al.ses[g].seqs
          /\ f[g].running = FALSE /\ f[g].delayed = n
      BY <2>1, <3>3 DEF SessionRecords
    <3> QED BY <2>2, <3>2, <3>4
  <2>3. CASE g \notin G
    <3>1. f[g] = al.ses[g]
      BY <1>f, <2>3
    <3>2. al.ses[g].running = FALSE
      BY <1>g, <2>1, <2>3 DEF SessionRecords, Sessions
    <3> QED BY <2>1, <2>3, <3>1, <3>2
  <2> QED BY <2>2, <2>3
<1>2. f \in Seq(SessionRecords) /\ Len(f) = Len(al.ses) /\ DOMAIN f = DOMAIN al.ses
  <2>1. DOMAIN f = DOMAIN al.ses /\ f = [g \in DOMAIN al.ses |-> f[g]]
    BY <1>f
  <2> QED BY <1>0, <1>1, <2>1, NewSessions
<1>m. PICK m : m = Msg("cleared", 0)
  OBVIOUS
<1>3. m \in Messages /\ m \in MessagesFor(Len(al.ses)) /\ m.id = "cleared"
  <2>1. 0 \in 0 .. MaxSessions
    BY AllocatorAssumption
  <2> QED BY <1>m, <2>1 DEF Msg, Messages, MessagesFor, SessionIds
<1>q. PICK q : q = [k \in DOMAIN al.q |-> IF al.q[k].id = "ALLOCATE" /\ al.q[k].gen \in G
                                          THEN m ELSE al.q[k]]
  OBVIOUS
<1>4. q \in Seq(Messages) /\ q \in Seq(MessagesFor(Len(al.ses))) /\ DOMAIN q = DOMAIN al.q
  <2>1. Len(al.q) \in Nat /\ DOMAIN al.q = 1 .. Len(al.q)
    BY <1>0
  <2>2. q \in [1 .. Len(al.q) -> Messages]
    BY <1>0, <1>3, <1>q, <2>1
  <2>3. q \in [1 .. Len(al.q) -> MessagesFor(Len(al.ses))]
    BY <1>0, <1>3, <1>q, <2>1, SMTT(40)
  <2> QED BY <2>1, <2>2, <2>3
<1>5. al' = [al EXCEPT !.ses = f, !.q = q, !.writable = TRUE]
  BY <1>g, <1>f, <1>m, <1>q DEF HandleWritable, StopGetAllPorts, Update
<1>6. /\ al' \in States /\ al'.ses = f /\ al'.port = al.port /\ al'.current = al.current
      /\ al'.q = q /\ al'.known = al.known /\ al'.first = al.first
      /\ al'.updating = al.updating /\ al'.poll = al.poll /\ al'.pinging = al.pinging
  BY <1>0, <1>2, <1>4, <1>5 DEF States
<1>7. ASSUME NEW P, \A x \in P : x.id # "cleared" /\ ~(x.id = "ALLOCATE" /\ x.gen \in G)
      PROVE  CountOf(q, P) = CountOf(al.q, P)
  <2>1. \A k \in DOMAIN al.q : q[k] \in P <=> al.q[k] \in P
    <3> TAKE k \in DOMAIN al.q
    <3>1. CASE al.q[k].id = "ALLOCATE" /\ al.q[k].gen \in G
      <4>1. q[k] = m
        BY <1>q, <3>1
      <4> QED BY <1>3, <1>7, <3>1, <4>1
    <3>2. CASE ~(al.q[k].id = "ALLOCATE" /\ al.q[k].gen \in G)
      BY <1>q, <3>2
    <3> QED BY <3>1, <3>2
  <2>2. Places(q, P) = Places(al.q, P)
    BY <1>4, <2>1 DEF Places
  <2> QED BY <2>2 DEF CountOf
<1>8. ASSUME NEW g
      PROVE  /\ CountOf(q, Configs(g)) = CountOf(al.q, Configs(g))
             /\ g \notin G => CountOf(q, Allocs(g)) = CountOf(al.q, Allocs(g))
  <2>1. \A x \in Configs(g) : x.id # "cleared" /\ ~(x.id = "ALLOCATE" /\ x.gen \in G)
    BY DEF Configs
  <2>2. g \notin G =>
          \A x \in Allocs(g) : x.id # "cleared" /\ ~(x.id = "ALLOCATE" /\ x.gen \in G)
    BY DEF Allocs
  <2> QED BY <1>7, <2>1, <2>2
<1>9. ASSUME NEW g \in G PROVE CountOf(q, Allocs(g)) = 0
  <2>1. \A k \in DOMAIN q : q[k] \notin Allocs(g)
    <3> TAKE k \in DOMAIN q
    <3>1. CASE al.q[k].id = "ALLOCATE" /\ al.q[k].gen \in G
      <4>1. q[k] = m
        BY <1>q, <1>4, <3>1
      <4> QED BY <1>3, <4>1 DEF Allocs
    <3>2. CASE ~(al.q[k].id = "ALLOCATE" /\ al.q[k].gen \in G)
      <4>1. q[k] = al.q[k]
        BY <1>q, <1>4, <3>2
      <4> QED BY <3>2, <4>1 DEF Allocs
    <3> QED BY <3>1, <3>2
  <2> QED BY <1>4, <2>1, CountZero
<1>10. /\ CountOf(q, Signals) = CountOf(al.q, Signals)
       /\ CountOf(q, Updates) = CountOf(al.q, Updates)
  <2>1. \A x \in Signals : x.id # "cleared" /\ ~(x.id = "ALLOCATE" /\ x.gen \in G)
    BY DEF Signals
  <2>2. \A x \in Updates : x.id # "cleared" /\ ~(x.id = "ALLOCATE" /\ x.gen \in G)
    BY DEF Updates
  <2> QED BY <1>7, <2>1, <2>2
<1>11. ManagerInv(al')
  BY <1>6, <1>10, InvFacts, ManagerKept
<1>12. ASSUME NEW g \in DOMAIN al'.ses PROVE SessionInv(al', g)
  <2>1. SessionInv(al, g) /\ g \in DOMAIN al.ses /\ al.ses[g] \in SessionRecords
    BY <1>2, <1>6, InvFacts
  <2>2. CASE g \notin G
    <3>1. al'.ses[g] = al.ses[g]
      BY <1>1, <1>6, <2>1, <2>2
    <3>2. /\ CountOf(al'.q, Configs(g)) = CountOf(al.q, Configs(g))
          /\ CountOf(al'.q, Allocs(g)) = CountOf(al.q, Allocs(g))
          /\ CountOf(al'.q, Signals) = CountOf(al.q, Signals)
      BY <1>6, <1>8, <1>10, <2>2
    <3> QED BY <1>6, <2>1, <3>1, <3>2, SessionKept
  <2>3. CASE g \in G
    <3>1. /\ CountOf(al'.q, Configs(g)) = CountOf(al.q, Configs(g))
          /\ CountOf(al'.q, Allocs(g)) = 0
          /\ CountOf(al'.q, Signals) = CountOf(al.q, Signals)
          /\ CountOf(al.q, Configs(g)) \in Nat /\ CountOf(al.q, Allocs(g)) \in Nat
      BY <1>0, <1>6, <1>8, <1>9, <1>10, <2>3, CountsTyped
    <3>2. /\ al'.ses[g].networks = al.ses[g].networks
          /\ al'.ses[g].allocated = al.ses[g].allocated
          /\ al'.ses[g].seqs = al.ses[g].seqs
          /\ ~al'.ses[g].running /\ al'.ses[g].delayed = 0
      BY <1>1, <1>6, <2>1, <2>3
    <3>3. al.ses[g].delayed \in Nat /\ al.ses[g].running
      BY <1>g, <2>1, <2>3 DEF SessionRecords
    <3>4. al'.pinging /\ al'.known = al.known
      BY <1>6, <2>1, <3>3 DEF SessionInv
    <3> QED BY <2>1, <3>1, <3>2, <3>3, <3>4 DEF SessionInv
  <2> QED BY <2>2, <2>3
<1>13. PortsInv(al')
  <2>1. \A g \in DOMAIN al.ses : al.ses[g].seqs \subseteq al'.ses[g].seqs
    BY <1>1, <1>6
  <2> QED BY <1>2, <1>6, <2>1, InvFacts, PortsKept
<1> QED BY <1>2, <1>4, <1>6, <1>11, <1>12, <1>13, InvFacts DEF WorkerInv, QueueInv

\* The channel is no longer writable.
LEMMA NotWritableStep ==
    ASSUME WorkerInv(al), HandleNotWritable PROVE WorkerInv(al')
<1>1. al \in States /\ al' = [al EXCEPT !.writable = FALSE]
  BY InvFacts DEF HandleNotWritable
<1>2. /\ al' \in States /\ al'.ses = al.ses /\ al'.port = al.port
      /\ al'.current = al.current /\ al'.q = al.q /\ al'.known = al.known
      /\ al'.first = al.first /\ al'.updating = al.updating /\ al'.poll = al.poll
      /\ al'.pinging = al.pinging
  BY <1>1 DEF States
<1>3. ManagerInv(al')
  BY <1>2, InvFacts, ManagerKept
<1>4. \A g \in DOMAIN al'.ses : SessionInv(al', g)
  BY <1>2, InvFacts, SessionKept
<1>5. PortsInv(al')
  BY <1>2, InvFacts, PortsKept
<1> QED BY <1>2, <1>3, <1>4, <1>5, InvFacts DEF WorkerInv, QueueInv

\* What a session that is added finds: the network manager starts to poll, or
\* tells it of the networks, or is about to.
Joined(s, t) ==
    /\ t \in States
    /\ t.known = s.known /\ t.ses = s.ses /\ t.port = s.port
    /\ t.current = s.current /\ t.pinging = s.pinging
    /\ \A g : /\ CountOf(t.q, Configs(g)) = CountOf(s.q, Configs(g))
              /\ CountOf(t.q, Allocs(g)) = CountOf(s.q, Allocs(g))
    /\ CountOf(s.q, Signals) # 0 => CountOf(t.q, Signals) # 0
    /\ CountOf(t.q, Signals) # 0 \/ \A n \in Nets : t.known[n] = NoIp
    /\ ManagerInv(t)

\* The effect of posting a message of the network manager.
LEMMA ManagerPosts ==
    ASSUME NEW s \in States, NEW n, s.q \in Seq(MessagesFor(n)),
           NEW id \in {"SIGNALNETWORKS", "UPDATENETWORKS"},
           NEW t, t = Post(s, Msg(id, 0))
    PROVE  /\ t \in States /\ QueueChange(s, t) /\ t.q \in Seq(MessagesFor(n))
           /\ \A g : /\ CountOf(t.q, Configs(g)) = CountOf(s.q, Configs(g))
                     /\ CountOf(t.q, Allocs(g)) = CountOf(s.q, Allocs(g))
           /\ CountOf(t.q, Signals)
                 = CountOf(s.q, Signals) + (IF id = "SIGNALNETWORKS" THEN 1 ELSE 0)
           /\ CountOf(t.q, Updates)
                 = CountOf(s.q, Updates) + (IF id = "UPDATENETWORKS" THEN 1 ELSE 0)
           /\ CountOf(s.q, Signals) \in Nat /\ CountOf(s.q, Updates) \in Nat
<1>m. PICK m : m = Msg(id, 0)
  OBVIOUS
<1>1. s.q \in Seq(Messages)
  BY DEF States
<1>2. /\ t \in States /\ QueueChange(s, t) /\ t.q = Append(s.q, m)
      /\ t.q \in Seq(MessagesFor(n)) /\ m \in Messages /\ m.id = id /\ m.gen = 0
  <2>1. PICK g \in 0 .. MaxSessions : g = 0
    BY AllocatorAssumption
  <2>2. id \in Ids /\ id \notin SessionIds
    BY DEF Ids, SessionIds
  <2>3. t = Post(s, Msg(id, g)) /\ m = Msg(id, g)
    BY <1>m, <2>1
  <2>4. /\ t \in States /\ QueueChange(s, t) /\ t.q = Append(s.q, Msg(id, g))
        /\ t.q \in Seq(MessagesFor(n)) /\ Msg(id, g) \in Messages
        /\ Msg(id, g).id = id /\ Msg(id, g).gen = g
    BY <2>2, <2>3, PostedState
  <2> QED BY <2>1, <2>3, <2>4
<1>3. m.id \notin {"CONFIG_START", "CONFIG_READY"} /\ m.id # "ALLOCATE"
  BY <1>2
<1>4. ASSUME NEW g
      PROVE  /\ CountOf(t.q, Configs(g)) = CountOf(s.q, Configs(g)) + 0
             /\ CountOf(t.q, Allocs(g)) = CountOf(s.q, Allocs(g)) + 0
             /\ CountOf(t.q, Signals) = CountOf(s.q, Signals) +
                   (IF m.id = "SIGNALNETWORKS" THEN 1 ELSE 0)
             /\ CountOf(t.q, Updates) = CountOf(s.q, Updates) +
                   (IF m.id = "UPDATENETWORKS" THEN 1 ELSE 0)
  <2>1. t.q = Append(s.q, m) /\ m \in Messages /\ m.gen = 0
    BY <1>2
  <2>2. /\ CountOf(t.q, Configs(g)) = CountOf(s.q, Configs(g)) +
              (IF m.id \in {"CONFIG_START", "CONFIG_READY"} /\ m.gen = g THEN 1 ELSE 0)
        /\ CountOf(t.q, Allocs(g)) = CountOf(s.q, Allocs(g)) +
              (IF m.id = "ALLOCATE" /\ m.gen = g THEN 1 ELSE 0)
        /\ CountOf(t.q, Signals) = CountOf(s.q, Signals) +
              (IF m.id = "SIGNALNETWORKS" /\ m.gen = 0 THEN 1 ELSE 0)
        /\ CountOf(t.q, Updates) = CountOf(s.q, Updates) +
              (IF m.id = "UPDATENETWORKS" THEN 1 ELSE 0)
    <3>q. PICK q : q = s.q
      OBVIOUS
    <3>1. q \in Seq(Messages) /\ m \in Messages
      BY <1>1, <2>1, <3>q
    <3>2. /\ CountOf(Append(q, m), Configs(g)) = CountOf(q, Configs(g)) +
                (IF m.id \in {"CONFIG_START", "CONFIG_READY"} /\ m.gen = g THEN 1 ELSE 0)
          /\ CountOf(Append(q, m), Allocs(g)) = CountOf(q, Allocs(g)) +
                (IF m.id = "ALLOCATE" /\ m.gen = g THEN 1 ELSE 0)
          /\ CountOf(Append(q, m), Signals) = CountOf(q, Signals) +
                (IF m.id = "SIGNALNETWORKS" /\ m.gen = 0 THEN 1 ELSE 0)
          /\ CountOf(Append(q, m), Updates) = CountOf(q, Updates) +
                (IF m.id = "UPDATENETWORKS" THEN 1 ELSE 0)
      BY <3>1, Posted
    <3> QED BY <2>1, <3>q, <3>2
  <2> QED BY <1>3, <2>1, <2>2
<1>5. ASSUME NEW g
      PROVE  /\ CountOf(s.q, Configs(g)) \in Nat /\ CountOf(s.q, Allocs(g)) \in Nat
             /\ CountOf(s.q, Signals) \in Nat /\ CountOf(s.q, Updates) \in Nat
  BY <1>1, CountsTyped
<1> QED BY <1>2, <1>4, <1>5

\* BasicNetworkManager::StartUpdating.
LEMMA UpdatingStarted ==
    ASSUME NEW s \in States, NEW n, s.q \in Seq(MessagesFor(n)), ManagerInv(s),
           NEW t, t = StartUpdating(s)
    PROVE  Joined(s, t) /\ t.q \in Seq(MessagesFor(n))
<1>0. /\ s.q \in Seq(Messages) /\ s.updating \in BOOLEAN /\ s.first \in BOOLEAN
      /\ s.poll \in BOOLEAN /\ CountOf(s.q, Updates) \in Nat
  BY CountsTyped DEF States
<1>1. CASE ~s.updating
  <2>u. PICK u : u = [s EXCEPT !.updating = TRUE, !.first = FALSE]
    OBVIOUS
  <2>1. /\ u \in States /\ u.updating = TRUE /\ u.first = FALSE /\ u.q = s.q
        /\ u.known = s.known /\ u.poll = s.poll /\ u.ses = s.ses /\ u.port = s.port
        /\ u.current = s.current /\ u.pinging = s.pinging
    BY <2>u DEF States
  <2>2. t = Post(u, Msg("UPDATENETWORKS", 0))
    BY <1>1, <2>u DEF StartUpdating
  <2>3. PICK id \in {"SIGNALNETWORKS", "UPDATENETWORKS"} : id = "UPDATENETWORKS"
    OBVIOUS
  <2>4. /\ t \in States /\ QueueChange(u, t) /\ t.q \in Seq(MessagesFor(n))
        /\ \A g : /\ CountOf(t.q, Configs(g)) = CountOf(u.q, Configs(g))
                  /\ CountOf(t.q, Allocs(g)) = CountOf(u.q, Allocs(g))
        /\ CountOf(t.q, Signals)
              = CountOf(u.q, Signals) + (IF id = "SIGNALNETWORKS" THEN 1 ELSE 0)
        /\ CountOf(t.q, Updates)
              = CountOf(u.q, Updates) + (IF id = "UPDATENETWORKS" THEN 1 ELSE 0)
        /\ CountOf(u.q, Signals) \in Nat /\ CountOf(u.q, Updates) \in Nat
    <3>1. u.q \in Seq(MessagesFor(n)) /\ t = Post(u, Msg(id, 0))
      BY <2>1, <2>2, <2>3
    <3> QED BY <2>1, <3>1, ManagerPosts
  <2>5. CountOf(t.q, Signals) = CountOf(s.q, Signals)
        /\ CountOf(t.q, Updates) = CountOf(s.q, Updates) + 1
    <3>1. id # "SIGNALNETWORKS"
      BY <2>3
    <3> QED BY <2>1, <2>3, <2>4, <3>1
  <2>6. /\ t.updating = TRUE /\ t.first = FALSE /\ t.known = s.known /\ t.poll = s.poll
        /\ t.ses = s.ses /\ t.port = s.port /\ t.current = s.current
        /\ t.pinging = s.pinging
    BY <2>1, <2>4 DEF QueueChange
  <2>7. CountOf(s.q, Updates) = 0 /\ s.poll = FALSE /\ \A k \in Nets : s.known[k] = NoIp
    BY <1>0, <1>1 DEF ManagerInv
  <2>8. ManagerInv(t)
    BY <2>5, <2>6, <2>7 DEF ManagerInv
  <2> QED BY <2>1, <2>4, <2>5, <2>6, <2>7, <2>8 DEF Joined
<1>2. CASE s.updating /\ s.first
  <2>2. t = Post(s, Msg("SIGNALNETWORKS", 0))
    BY <1>2 DEF StartUpdating
  <2>3. PICK id \in {"SIGNALNETWORKS", "UPDATENETWORKS"} : id = "SIGNALNETWORKS"
    OBVIOUS
  <2>4. /\ t \in States /\ QueueChange(s, t) /\ t.q \in Seq(MessagesFor(n))
        /\ \A g : /\ CountOf(t.q, Configs(g)) = CountOf(s.q, Configs(g))
                  /\ CountOf(t.q, Allocs(g)) = CountOf(s.q, Allocs(g))
        /\ CountOf(t.q, Signals)
              = CountOf(s.q, Signals) + (IF id = "SIGNALNETWORKS" THEN 1 ELSE 0)
        /\ CountOf(t.q, Updates)
              = CountOf(s.q, Updates) + (IF id = "UPDATENETWORKS" THEN 1 ELSE 0)
        /\ CountOf(s.q, Signals) \in Nat /\ CountOf(s.q, Updates) \in Nat
    <3>1. t = Post(s, Msg(id, 0))
      BY <2>2, <2>3
    <3> QED BY <3>1, ManagerPosts
  <2>5. CountOf(t.q, Signals) # 0 /\ CountOf(t.q, Updates) = CountOf(s.q, Updates)
    <3>1. id # "UPDATENETWORKS"
      BY <2>3
    <3> QED BY <2>3, <2>4, <3>1
  <2>8. ManagerInv(t)
    BY <2>4, <2>5, ManagerKept DEF QueueChange
  <2> QED BY <2>4, <2>5, <2>8 DEF Joined, QueueChange
<1>3. CASE s.updating /\ ~s.first
  <2>1. t = s /\ \A k \in Nets : s.known[k] = NoIp
    BY <1>3 DEF StartUpdating, ManagerInv
  <2> QED BY <2>1 DEF Joined
<1> QED BY <1>0, <1>1, <1>2, <1>3

\* The state with the session added, before the network manager is asked.
Added(s, t, e) ==
    /\ t \in States /\ t.q = s.q /\ t.known = s.known /\ t.first = s.first
    /\ t.updating = s.updating /\ t.poll = s.poll /\ t.port = s.port
    /\ t.current = {} /\ t.pinging = s.pinging
    /\ DOMAIN t.ses = DOMAIN s.ses \cup {Len(s.ses) + 1}
    /\ Len(t.ses) = Len(s.ses) + 1
    /\ \A k \in DOMAIN s.ses : t.ses[k] = s.ses[k]
    /\ t.ses[Len(s.ses) + 1] = e

\* A session that has just been created.
Fresh(e) ==
    /\ e \in SessionRecords
    /\ ~e.running /\ ~e.networks /\ ~e.allocated /\ e.delayed = 0

\* AddAllocatorSession, up to CONFIG_START.
LEMMA SessionAdded ==
    ASSUME NEW s, WorkerInv(s), NEW g, g = Len(s.ses) + 1, g <= MaxSessions,
           NEW e, Fresh(e),
           NEW u, Added(s, u, e), NEW t, t = Post(StartUpdating(u), Msg("CONFIG_START", g))
    PROVE  /\ WorkerInv(t) /\ t.ses = u.ses /\ t.pinging = s.pinging
           /\ CountOf(t.q, Configs(g)) = 1 /\ CountOf(t.q, Allocs(g)) = 0
<1>0. /\ s \in States /\ s.q \in Seq(MessagesFor(Len(s.ses))) /\ s.q \in Seq(Messages)
      /\ Len(s.ses) \in 0 .. MaxSessions /\ DOMAIN s.ses = 1 .. Len(s.ses)
      /\ \A k \in DOMAIN s.ses : SessionInv(s, k)
      /\ ManagerInv(s) /\ PortsInv(s)
  BY InvFacts
<1>1. g \in 0 .. MaxSessions /\ g \in 1 .. g /\ g \notin DOMAIN s.ses
  BY <1>0
<1>2. s.q \in Seq(MessagesFor(g))
  <2>1. \A m \in MessagesFor(Len(s.ses)) : m \in MessagesFor(g)
    BY <1>0 DEF MessagesFor
  <2> QED BY <1>0, <2>1
<1>3. CountOf(s.q, Configs(g)) = 0 /\ CountOf(s.q, Allocs(g)) = 0
  <2>1. \A k \in DOMAIN s.q : s.q[k] \in MessagesFor(Len(s.ses))
    BY <1>0
  <2>2. \A m \in MessagesFor(Len(s.ses)) : m \notin Configs(g) /\ m \notin Allocs(g)
    BY <1>0 DEF MessagesFor, Configs, Allocs, SessionIds
  <2> QED BY <1>0, <2>1, <2>2, CountZero
<1>v. PICK v : v = StartUpdating(u)
  OBVIOUS
<1>4. Joined(u, v) /\ v.q \in Seq(MessagesFor(g))
  <2>1. u \in States /\ u.q \in Seq(MessagesFor(g)) /\ ManagerInv(u)
    BY <1>0, <1>2, ManagerKept DEF Added
  <2> QED BY <1>v, <2>1, UpdatingStarted
<1>m. PICK m : m = Msg("CONFIG_START", g)
  OBVIOUS
<1>5. /\ t \in States /\ QueueChange(v, t) /\ t.q = Append(v.q, m)
      /\ t.q \in Seq(MessagesFor(g)) /\ m \in Messages
      /\ m.id = "CONFIG_START" /\ m.gen = g /\ v.q \in Seq(Messages)
  <2>1. PICK id \in Ids : id = "CONFIG_START"
    BY DEF Ids
  <2>2. v \in States /\ v.q \in Seq(MessagesFor(g)) /\ v.q \in Seq(Messages)
    BY <1>4 DEF Joined, States
  <2>3. t = Post(v, Msg(id, g)) /\ m = Msg(id, g)
    BY <1>v, <1>m, <2>1
  <2>4. id \in SessionIds => g \in 1 .. g
    BY <1>1
  <2>5. /\ t \in States /\ QueueChange(v, t) /\ t.q = Append(v.q, Msg(id, g))
        /\ t.q \in Seq(MessagesFor(g)) /\ Msg(id, g) \in Messages
        /\ Msg(id, g).id = id /\ Msg(id, g).gen = g
    BY <1>1, <2>2, <2>3, <2>4, PostedState
  <2> QED BY <2>1, <2>2, <2>3, <2>5
<1>6. ASSUME NEW k
      PROVE  /\ CountOf(t.q, Configs(k)) = CountOf(s.q, Configs(k)) + (IF g = k THEN 1 ELSE 0)
             /\ CountOf(t.q, Allocs(k)) = CountOf(s.q, Allocs(k))
             /\ CountOf(t.q, Signals) = CountOf(v.q, Signals)
             /\ CountOf(t.q, Updates) = CountOf(v.q, Updates)
             /\ CountOf(s.q, Configs(k)) \in Nat
  <2>1. /\ CountOf(t.q, Configs(k)) = CountOf(v.q, Configs(k)) +
              (IF m.id \in {"CONFIG_START", "CONFIG_READY"} /\ m.gen = k THEN 1 ELSE 0)
        /\ CountOf(t.q, Allocs(k)) = CountOf(v.q, Allocs(k)) +
              (IF m.id = "ALLOCATE" /\ m.gen = k THEN 1 ELSE 0)
        /\ CountOf(t.q, Signals) = CountOf(v.q, Signals) +
              (IF m.id = "SIGNALNETWORKS" /\ m.gen = 0 THEN 1 ELSE 0)
        /\ CountOf(t.q, Updates) = CountOf(v.q, Updates) +
              (IF m.id = "UPDATENETWORKS" THEN 1 ELSE 0)
    <3>q. PICK q : q = v.q
      OBVIOUS
    <3>1. q \in Seq(Messages) /\ m \in Messages /\ t.q = Append(q, m)
      BY <1>5, <3>q
    <3>2. /\ CountOf(Append(q, m), Configs(k)) = CountOf(q, Configs(k)) +
                (IF m.id \in {"CONFIG_START", "CONFIG_READY"} /\ m.gen = k THEN 1 ELSE 0)
          /\ CountOf(Append(q, m), Allocs(k)) = CountOf(q, Allocs(k)) +
                (IF m.id = "ALLOCATE" /\ m.gen = k THEN 1 ELSE 0)
          /\ CountOf(Append(q, m), Signals) = CountOf(q, Signals) +
                (IF m.id = "SIGNALNETWORKS" /\ m.gen = 0 THEN 1 ELSE 0)
          /\ CountOf(Append(q, m), Updates) = CountOf(q, Updates) +
                (IF m.id = "UPDATENETWORKS" THEN 1 ELSE 0)
      BY <3>1, Posted
    <3> QED BY <3>q, <3>1, <3>2
  <2>2. m.id \in {"CONFIG_START", "CONFIG_READY"} /\ m.id # "ALLOCATE" /\ m.gen = g
        /\ m.id # "SIGNALNETWORKS" /\ m.id # "UPDATENETWORKS"
    BY <1>5
  <2>3. /\ CountOf(v.q, Configs(k)) \in Nat /\ CountOf(v.q, Allocs(k)) \in Nat
        /\ CountOf(v.q, Signals) \in Nat /\ CountOf(v.q, Updates) \in Nat
    BY <1>5, CountsTyped
  <2>4. /\ CountOf(t.q, Configs(k)) = CountOf(v.q, Configs(k)) + (IF g = k THEN 1 ELSE 0)
        /\ CountOf(t.q, Allocs(k)) = CountOf(v.q, Allocs(k))
        /\ CountOf(t.q, Signals) = CountOf(v.q, Signals)
        /\ CountOf(t.q, Updates) = CountOf(v.q, Updates)
    BY <2>1, <2>2, <2>3
  <2>5. CountOf(v.q, Configs(k)) = CountOf(s.q, Configs(k))
        /\ CountOf(v.q, Allocs(k)) = CountOf(s.q, Allocs(k))
    BY <1>4 DEF Joined, Added
  <2> QED BY <2>3, <2>4, <2>5
<1>7. /\ t.ses = u.ses /\ t.pinging = s.pinging /\ t.known = s.known
      /\ t.port = s.port /\ t.current = {}
      /\ DOMAIN t.ses = DOMAIN s.ses \cup {g} /\ Len(t.ses) = g
      /\ \A k \in DOMAIN s.ses : t.ses[k] = s.ses[k]
      /\ t.ses[g] = e
  BY <1>4, <1>5 DEF Joined, Added, QueueChange
<1>8. CountOf(t.q, Configs(g)) = 1 /\ CountOf(t.q, Allocs(g)) = 0
  BY <1>3, <1>6
<1>9. ManagerInv(t)
  <2>1. CountOf(t.q, Updates) = CountOf(v.q, Updates) /\ ManagerInv(v)
    BY <1>4, <1>6 DEF Joined
  <2> QED BY <1>5, <2>1, ManagerKept DEF QueueChange
<1>10. /\ CountOf(s.q, Signals) # 0 => CountOf(t.q, Signals) # 0
       /\ CountOf(t.q, Signals) # 0 \/ \A n \in Nets : t.known[n] = NoIp
  <2>1. CountOf(t.q, Signals) = CountOf(v.q, Signals)
    BY <1>6
  <2> QED BY <1>4, <1>5, <2>1 DEF Joined, Added, QueueChange
<1>11. ASSUME NEW k \in DOMAIN t.ses PROVE SessionInv(t, k)
  <2>1. CASE k = g
    BY <1>7, <1>8, <1>10, <2>1 DEF SessionInv, Fresh
  <2>2. CASE k # g
    <3>1. SessionInv(s, k) /\ t.ses[k] = s.ses[k]
      BY <1>0, <1>7, <2>2
    <3>2. CountOf(t.q, Configs(k)) = CountOf(s.q, Configs(k))
          /\ CountOf(t.q, Allocs(k)) = CountOf(s.q, Allocs(k))
      BY <1>6, <2>2
    <3> QED BY <1>7, <1>10, <3>1, <3>2, SessionKept
  <2> QED BY <2>1, <2>2
<1>12. PortsInv(t)
  BY <1>0, <1>7, PortsKept
<1> QED BY <1>5, <1>7, <1>8, <1>9, <1>11, <1>12 DEF WorkerInv, QueueInv

\* A session is added, and started if the remote has sent a candidate.
LEMMA AddSessionStep ==
    ASSUME WorkerInv(al), AddAllocatorSession PROVE WorkerInv(al')
<1>g. PICK g : g = Len(al.ses) + 1
  OBVIOUS
<1>e. PICK e : e = [running |-> FALSE, delayed |-> 0, networks |-> FALSE,
                    allocated |-> FALSE, seqs |-> {}]
  OBVIOUS
<1>u. PICK u : u = [al EXCEPT !.current = {}, !.ses = Append(@, e)]
  OBVIOUS
<1>t. PICK t : t = Post(StartUpdating(u), Msg("CONFIG_START", g))
  OBVIOUS
<1>1. g <= MaxSessions /\ al' = IF al.pinging THEN StartGetAllPorts(t, {g}) ELSE t
  BY <1>g, <1>e, <1>u, <1>t DEF AddAllocatorSession
<1>2. Fresh(e) /\ e \in SessionRecords
  BY <1>e DEF SessionRecords, Fresh
<1>3. Added(al, u, e)
  <2>1. al \in States /\ al.ses \in Seq(SessionRecords)
    BY InvFacts
  <2>f. PICK f : f = Append(al.ses, e)
    OBVIOUS
  <2>2. /\ f \in Seq(SessionRecords) /\ Len(f) = Len(al.ses) + 1
        /\ DOMAIN f = DOMAIN al.ses \cup {Len(al.ses) + 1}
        /\ f[Len(al.ses) + 1] = e /\ \A k \in DOMAIN al.ses : f[k] = al.ses[k]
    BY <1>2, <2>1, <2>f
  <2>3. u = [al EXCEPT !.current = {}, !.ses = f]
    BY <1>u, <2>f
  <2>4. /\ u \in States /\ u.q = al.q /\ u.known = al.known /\ u.first = al.first
        /\ u.updating = al.updating /\ u.poll = al.poll /\ u.port = al.port
        /\ u.current = {} /\ u.pinging = al.pinging /\ u.ses = f
    BY <2>1, <2>2, <2>3 DEF States
  <2> QED BY <2>2, <2>4 DEF Added
<1>4. /\ WorkerInv(t) /\ t.ses = u.ses /\ t.pinging = al.pinging
      /\ CountOf(t.q, Configs(g)) = 1 /\ CountOf(t.q, Allocs(g)) = 0
  <2>1. g <= MaxSessions
    BY <1>1
  <2> QED BY <1>g, <1>t, <1>2, <1>3, <2>1, SessionAdded
<1>5. CASE ~al.pinging
  BY <1>1, <1>4, <1>5
<1>6. CASE al.pinging
  <2>1. g \in DOMAIN t.ses /\ t.ses[g] = e
    BY <1>g, <1>3, <1>4 DEF Added
  <2>2. /\ AllocateChange(t, al') /\ PortsInv(al')
        /\ \A k \in DOMAIN t.ses :
              IF k \in {g} THEN StartedFrom(al'.ses[k], t.ses[k])
                           ELSE al'.ses[k] = t.ses[k]
    <3>1. t \in States /\ PortsInv(t)
      BY <1>4, InvFacts
    <3>2. \A k \in DOMAIN t.ses : k \in {g} => t.ses[k].delayed = 0
      BY <1>2, <2>1 DEF Fresh
    <3>3. al' = StartGetAllPorts(t, {g})
      BY <1>1, <1>6
    <3> QED BY <3>1, <3>2, <3>3, StartIs
  <2>3. /\ al' \in States /\ al'.q = t.q /\ al'.known = t.known
        /\ al'.first = t.first /\ al'.updating = t.updating /\ al'.poll = t.poll
        /\ al'.pinging = t.pinging /\ Len(al'.ses) = Len(t.ses)
        /\ DOMAIN al'.ses = DOMAIN t.ses
    BY <2>2 DEF AllocateChange
  <2>4. ManagerInv(al')
    BY <1>4, <2>3, InvFacts, ManagerKept
  <2>5. ASSUME NEW k \in DOMAIN al'.ses PROVE SessionInv(al', k)
    <3>1. SessionInv(t, k) /\ k \in DOMAIN t.ses /\ t.q \in Seq(Messages)
      BY <1>4, <2>3, InvFacts
    <3>2. CASE k = g
      <4>1. /\ StartedFrom(al'.ses[g], t.ses[g]) /\ ~t.ses[g].running
            /\ t.ses[g].delayed = 0 /\ t.ses[g].allocated \in BOOLEAN
        BY <1>2, <2>1, <2>2 DEF Fresh, SessionRecords
      <4>2. CountOf(t.q, Configs(g)) + CountOf(t.q, Allocs(g)) = 1
        BY <1>4
      <4>3. al'.pinging
        BY <1>4, <1>6, <2>3
      <4> QED BY <2>3, <3>1, <3>2, <4>1, <4>2, <4>3, SessionStarted
    <3>3. CASE k # g
      <4>1. al'.ses[k] = t.ses[k]
        BY <2>2, <3>1, <3>3
      <4> QED BY <2>3, <3>1, <4>1, SessionKept
    <3> QED BY <3>2, <3>3
  <2>6. Len(t.ses) <= MaxSessions /\ t.q \in Seq(MessagesFor(Len(t.ses)))
    BY <1>4 DEF WorkerInv, QueueInv
  <2> QED BY <2>2, <2>3, <2>4, <2>5, <2>6 DEF WorkerInv, QueueInv
<1> QED BY <1>5, <1>6

-----------------------------------------------------------------------------
(* Events of a port.                                                       *)

\* They leave queue and sessions alone.
LEMMA PortStep ==
    ASSUME NEW s, WorkerInv(s), NEW t, PortChange(s, t), PortsInv(t) PROVE WorkerInv(t)
<1>1. /\ t \in States /\ t.ses = s.ses /\ t.q = s.q /\ t.known = s.known
      /\ t.first = s.first /\ t.updating = s.updating /\ t.poll = s.poll
      /\ t.pinging = s.pinging
  BY DEF PortChange
<1>2. ManagerInv(t)
  BY <1>1, InvFacts, ManagerKept
<1>3. \A g \in DOMAIN t.ses : SessionInv(t, g)
  BY <1>1, InvFacts, SessionKept
<1> QED BY <1>1, <1>2, <1>3, InvFacts DEF WorkerInv, QueueInv

\* A later record of a port that exists.
Later(r, o) ==
    /\ r \in PortRecords
    /\ r.signalled = o.signalled /\ r.ready = o.ready /\ r.copies = o.copies
    /\ o.life # "none" /\ r.life # "none"

\* A new record for one port.
LEMMA OnePort ==
    ASSUME NEW s \in States, PortsInv(s), NEW i \in PortIds, NEW r,
           NEW C \in SUBSET s.current, NEW t,
           t = [s EXCEPT !.port = [s.port EXCEPT ![i] = r], !.current = C],
           Later(r, s.port[i]), r.life = "destroyed" => i \notin C /\ ~r.busy
    PROVE  PortChange(s, t) /\ PortsInv(t)
<1>f. PICK f : f = [s.port EXCEPT ![i] = r]
  OBVIOUS
<1>1. /\ f \in [PortIds -> PortRecords] /\ f[i] = r
      /\ \A k \in PortIds : k # i => f[k] = s.port[k]
  BY <1>f DEF States, Later
<1>2. C \in SUBSET PortIds
  BY DEF States
<1>3. PortChange(s, t) /\ t.port = f /\ t.current = C /\ t.ses = s.ses
  <2>1. t = [s EXCEPT !.port = f, !.current = C]
    BY <1>f
  <2> QED BY <1>1, <1>2, <2>1 DEF PortChange, States
<1>4. ASSUME NEW k \in PortIds PROVE PortInv(t, k)
  <2>1. PortInv(s, k) /\ PortInv(s, i)
    BY DEF PortsInv
  <2>2. CASE k # i
    <3>1. t.port[k] = s.port[k]
      BY <1>1, <1>3, <2>2
    <3> QED BY <1>3, <2>1, <3>1 DEF PortInv
  <2>3. CASE k = i
    <3>1. t.port[i] = r
      BY <1>1, <1>3
    <3> QED BY <1>3, <2>1, <2>3, <3>1 DEF PortInv, Later
  <2> QED BY <2>2, <2>3
<1> QED BY <1>3, <1>4 DEF PortsInv

\* CheckTimeout destroys the port or leaves it.
LEMMA TimeoutInv ==
    ASSUME NEW s \in States, PortsInv(s), NEW i \in PortIds,
           NEW t, t = CheckTimeout(s, i)
    PROVE  PortChange(s, t) /\ PortsInv(t)
<1>1. CASE ~(s.port[i].life = "POSTTIMEOUT" /\ ~s.port[i].busy)
  BY <1>1 DEF CheckTimeout, PortChange
<1>2. CASE s.port[i].life = "POSTTIMEOUT" /\ ~s.port[i].busy
  <2>0. s.port \in [PortIds -> PortRecords] /\ s.port[i] \in PortRecords
    BY DEF States
  <2>c. PICK C : C = s.current \ {i}
    OBVIOUS
  <2>r. PICK r : r = [s.port[i] EXCEPT !.life = "destroyed"]
    OBVIOUS
  <2>1. /\ r \in PortRecords /\ r.life = "destroyed" /\ ~r.busy
        /\ r.signalled = s.port[i].signalled /\ r.ready = s.port[i].ready
        /\ r.copies = s.port[i].copies
    BY <1>2, <2>0, <2>r DEF PortRecords
  <2>2. t = [s EXCEPT !.port = [s.port EXCEPT ![i] = r], !.current = C]
    BY <1>2, <2>c, <2>r DEF CheckTimeout, Destroy
  <2>3. C \in SUBSET s.current /\ i \notin C
    BY <2>c
  <2>4. Later(r, s.port[i])
    BY <1>2, <2>1 DEF Later
  <2>5. r.life = "destroyed" => i \notin C /\ ~r.busy
    BY <2>1, <2>3
  <2> QED BY <2>2, <2>3, <2>4, <2>5, OnePort
<1> QED BY <1>1, <1>2

\* An answer to a STUN request.
LEMMA ResponseStep ==
    ASSUME WorkerInv(al), NEW i \in PortIds, OnResponse(i) PROVE WorkerInv(al')
<1>0. al \in States /\ PortsInv(al) /\ {i} \in SUBSET PortIds
  BY InvFacts
<1>1. al.port[i].life \notin {"none", "destroyed"} /\ al' = OnAddressReady(al, {i}, TRUE)
  BY DEF OnResponse, Exists, OfPort
<1>e. PICK e \in BOOLEAN : e = TRUE
  OBVIOUS
<1>2. /\ PortChange(al, al')
      /\ al'.current = al.current \cup MadeReady(al, {i})
      /\ \A k \in PortIds :
            IF k \in MadeReady(al, {i}) THEN MadeReadyFrom(al.port[k], al'.port[k], e)
            ELSE al'.port[k] = al.port[k]
  <2>1. al' = OnAddressReady(al, {i}, e)
    BY <1>1, <1>e
  <2> QED BY <1>0, <2>1, AddressReadyPorts, SMTT(40)
<1>3. al'.ses = al.ses
  BY <1>2 DEF PortChange
<1>4. ASSUME NEW k \in PortIds PROVE PortInv(al', k)
  <2>1. PortInv(al, k)
    BY <1>0 DEF PortsInv
  <2>2. CASE k \in MadeReady(al, {i})
    <3>1. k = i /\ ~al.port[i].ready
      BY <2>2 DEF MadeReady
    <3>2. /\ al'.port[k].life = al.port[k].life /\ al'.port[k].ready = TRUE
          /\ al'.port[k].copies = al.port[k].copies
          /\ al'.port[k].signalled = al.port[k].signalled + 1
      BY <1>e, <1>2, <2>2 DEF MadeReadyFrom
    <3>3. al.port[k].signalled = 0 /\ al.port[k].life \notin {"none", "destroyed"}
      BY <1>1, <2>1, <3>1 DEF PortInv
    <3>4. al'.port[k].signalled = 1 /\ al'.port[k].life \notin {"none", "destroyed"}
      BY <3>2, <3>3
    <3> QED BY <1>3, <2>1, <3>2, <3>3, <3>4 DEF PortInv
  <2>3. CASE k \notin MadeReady(al, {i})
    <3>1. al'.port[k] = al.port[k]
      BY <1>2, <2>3
    <3>2. al.port[k].life \in {"none", "destroyed"} => k # i
      BY <1>1
    <3>3. k # i => k \notin MadeReady(al, {i})
      BY DEF MadeReady
    <3> QED BY <1>2, <1>3, <2>1, <2>3, <3>1 DEF PortInv
  <2> QED BY <2>2, <2>3
<1> QED BY <1>2, <1>4, PortStep DEF PortsInv

\* A connection for a ping from an unknown address.
LEMMA UnknownStep ==
    ASSUME WorkerInv(al), NEW i \in PortIds, OnUnknownAddress(i) PROVE WorkerInv(al')
<1>0. al \in States /\ PortsInv(al) /\ al.port[i] \in PortRecords
  BY InvFacts DEF States
<1>1. /\ al.port[i].life \notin {"none", "destroyed"}
      /\ al' = [al EXCEPT !.port[i].busy = TRUE]
  BY DEF OnUnknownAddress, Exists, OfPort
<1>r. PICK r : r = [al.port[i] EXCEPT !.busy = TRUE]
  OBVIOUS
<1>2. /\ r \in PortRecords /\ r.life = al.port[i].life
      /\ r.signalled = al.port[i].signalled /\ r.ready = al.port[i].ready
      /\ r.copies = al.port[i].copies
  BY <1>0, <1>r DEF PortRecords
<1>c. PICK C : C = al.current
  OBVIOUS
<1>3. al' = [al EXCEPT !.port = [al.port EXCEPT ![i] = r], !.current = C]
  BY <1>0, <1>1, <1>r, <1>c DEF States
<1>4. C \in SUBSET al.current /\ Later(r, al.port[i]) /\ r.life # "destroyed"
  BY <1>1, <1>2, <1>c DEF Later
<1>5. PortChange(al, al') /\ PortsInv(al')
  BY <1>0, <1>3, <1>4, OnePort
<1> QED BY <1>5, PortStep

\* The last connection goes, or the port's timeout comes: it may be destroyed.
LEMMA TimeoutStep ==
    ASSUME WorkerInv(al), NEW i \in PortIds,
           OnConnectionDestroyed(i) \/ OnCheckTimeout(i)
    PROVE  WorkerInv(al')
<1>0. al \in States /\ PortsInv(al) /\ al.port[i] \in PortRecords
  BY InvFacts DEF States
<1>1. al.port[i].life \notin {"none", "destroyed"}
  <2>1. CASE OnConnectionDestroyed(i)
    <3>1. al.port[i].busy /\ PortInv(al, i)
      BY <1>0, <2>1 DEF OnConnectionDestroyed, PortsInv
    <3> QED BY <3>1 DEF PortInv
  <2>2. CASE OnCheckTimeout(i)
    BY <2>2 DEF OnCheckTimeout
  <2> QED BY <2>1, <2>2
<1>r. PICK r : /\ r \in PortRecords /\ r.life \notin {"none", "destroyed"}
               /\ r.signalled = al.port[i].signalled /\ r.ready = al.port[i].ready
               /\ r.copies = al.port[i].copies
               /\ al' = CheckTimeout([al EXCEPT !.port[i] = r], i)
  <2>1. CASE OnConnectionDestroyed(i)
    <3>b. PICK b : b = [al.port[i] EXCEPT !.busy = FALSE]
      OBVIOUS
    <3>1. /\ b \in PortRecords /\ b.life = al.port[i].life
          /\ b.signalled = al.port[i].signalled /\ b.ready = al.port[i].ready
          /\ b.copies = al.port[i].copies
      BY <1>0, <3>b DEF PortRecords
    <3>2. al' = CheckTimeout([al EXCEPT !.port[i] = b], i)
      BY <2>1, <3>b DEF OnConnectionDestroyed, OfPort
    <3> QED BY <1>1, <3>1, <3>2
  <2>2. CASE OnCheckTimeout(i)
    <3>b. PICK b : b = [al.port[i] EXCEPT !.life = "POSTTIMEOUT"]
      OBVIOUS
    <3>1. /\ b \in PortRecords /\ b.life = "POSTTIMEOUT"
          /\ b.signalled = al.port[i].signalled /\ b.ready = al.port[i].ready
          /\ b.copies = al.port[i].copies
      BY <1>0, <3>b DEF PortRecords
    <3>2. al' = CheckTimeout([al EXCEPT !.port[i] = b], i)
      BY <2>2, <3>b DEF OnCheckTimeout, OfPort
    <3> QED BY <3>1, <3>2
  <2> QED BY <2>1, <2>2
<1>s. PICK s : s = [al EXCEPT !.port[i] = r]
  OBVIOUS
<1>2. PortChange(al, s) /\ PortsInv(s)
  <2>c. PICK C : C = al.current
    OBVIOUS
  <2>1. s = [al EXCEPT !.port = [al.port EXCEPT ![i] = r], !.current = C]
    BY <1>0, <1>s, <2>c DEF States
  <2>2. C \in SUBSET al.current /\ Later(r, al.port[i]) /\ r.life # "destroyed"
    BY <1>1, <1>r, <2>c DEF Later
  <2> QED BY <1>0, <2>1, <2>2, OnePort
<1>3. PortChange(s, al') /\ PortsInv(al')
  <2>1. s \in States /\ al' = CheckTimeout(s, i)
    BY <1>r, <1>s, <1>2 DEF PortChange
  <2> QED BY <1>2, <2>1, TimeoutInv
<1>4. PortChange(al, al')
  BY <1>2, <1>3 DEF PortChange
<1> QED BY <1>3, <1>4, PortStep

-----------------------------------------------------------------------------
(* The theorems.                                                           *)

\* In the initial state there is no session, no message and no port.
LEMMA AllocatorInit == ASSUME Init PROVE AllocatorInv
<1>p. PICK p : p = [life |-> "none", ready |-> FALSE, busy |-> FALSE,
                    signalled |-> 0, copies |-> 0]
  OBVIOUS
<1>0. /\ p \in PortRecords /\ p.life = "none" /\ ~p.ready /\ ~p.busy
      /\ p.signalled = 0 /\ p.copies = 0
  BY <1>p DEF PortRecords
<1>f. PICK f : f = [i \in PortIds |-> p]
  OBVIOUS
<1>k. PICK known : known = [n \in Nets |-> NoIp]
  OBVIOUS
<1>1. al = [q |-> <<>>, known |-> known, first |-> FALSE, updating |-> FALSE,
            poll |-> FALSE, ses |-> <<>>, port |-> f, current |-> {},
            pinging |-> FALSE, writable |-> FALSE]
  BY <1>p, <1>f, <1>k DEF Init
<1>2. f \in [PortIds -> PortRecords] /\ known \in [Nets -> Ips \cup {NoIp}]
      /\ <<>> \in Seq(Messages) /\ <<>> \in Seq(SessionRecords)
  BY <1>0, <1>f, <1>k
<1>3. /\ al \in States /\ al.q = <<>> /\ al.ses = <<>> /\ al.port = f
      /\ al.known = known /\ ~al.first /\ ~al.updating /\ ~al.poll /\ al.current = {}
  BY <1>1, <1>2 DEF States
<1>4. PortsInv(al)
  BY <1>0, <1>f, <1>3 DEF PortsInv, PortInv
<1>5. ManagerInv(al)
  <2>1. CountOf(al.q, Updates) = 0
    BY <1>3, CountEmpty
  <2> QED BY <1>k, <1>3, <2>1 DEF ManagerInv
<1>6. /\ Len(al.ses) <= MaxSessions /\ al.q \in Seq(MessagesFor(Len(al.ses)))
      /\ \A g \in DOMAIN al.ses : SessionInv(al, g)
  BY <1>3, AllocatorAssumption
<1>7. ip \in [Nets -> Ips \cup {NoIp}] /\ changes \in 0 .. MaxChanges
  BY AllocatorAssumption DEF Init
<1> QED BY <1>3, <1>4, <1>5, <1>6, <1>7 DEF AllocatorInv, WorkerInv, QueueInv

\* Every step keeps the invariant.
LEMMA AllocatorStep ==
    ASSUME AllocatorInv, [Next]_vars PROVE AllocatorInv'
<1>0. WorkerInv(al) /\ ip \in [Nets -> Ips \cup {NoIp}] /\ changes \in 0 .. MaxChanges
  BY DEF AllocatorInv
<1>1. CASE UNCHANGED <<ip, changes>> /\ WorkerInv(al')
  BY <1>0, <1>1 DEF AllocatorInv
<1>2. CASE OnCleared
  BY <1>0, <1>1, <1>2, ClearedStep DEF OnCleared, Dispatch
<1>3. CASE OnConfigStart
  BY <1>0, <1>1, <1>3, ConfigStep DEF OnConfigStart, Dispatch
<1>4. CASE OnConfigReady
  BY <1>0, <1>1, <1>4, ConfigStep, SMTT(40) DEF OnConfigReady, Dispatch
<1>5. CASE OnAllocate
  BY <1>0, <1>1, <1>5, AllocateStep DEF OnAllocate, Dispatch
<1>6. CASE OnSignalNetworks
  BY <1>0, <1>1, <1>6, SignalStep DEF OnSignalNetworks, Dispatch
<1>7. CASE DoUpdateNetworks
  BY <1>1, <1>7, UpdateStep DEF DoUpdateNetworks, Dispatch
<1>8. CASE UpdateFails
  <2>1. WorkerInv(al')
    BY <1>0, <1>8, UpdateFailsStep
  <2>2. changes' \in 0 .. MaxChanges /\ ip' = ip
    BY <1>0, <1>8, AllocatorAssumption DEF UpdateFails
  <2> QED BY <1>0, <2>1, <2>2 DEF AllocatorInv
<1>9. CASE UpdateDue
  BY <1>0, <1>1, <1>9, UpdateDueStep DEF UpdateDue
<1>10. ASSUME NEW g \in Gens, AllocateDue(g) PROVE AllocatorInv'
  BY <1>0, <1>1, <1>10, AllocateDueStep DEF AllocateDue
<1>11. CASE AddAllocatorSession
  BY <1>0, <1>1, <1>11, AddSessionStep DEF AddAllocatorSession
<1>12. CASE OnCandidate
  BY <1>0, <1>1, <1>12, CandidateStep DEF OnCandidate
<1>13. CASE HandleWritable
  BY <1>0, <1>1, <1>13, WritableStep DEF HandleWritable
<1>14. CASE HandleNotWritable
  BY <1>0, <1>1, <1>14, NotWritableStep DEF HandleNotWritable
<1>15. ASSUME NEW i \in PortIds, OnResponse(i) PROVE AllocatorInv'
  BY <1>0, <1>1, <1>15, ResponseStep DEF OnResponse, OfPort
<1>16. ASSUME NEW i \in PortIds, OnUnknownAddress(i) PROVE AllocatorInv'
  BY <1>0, <1>1, <1>16, UnknownStep DEF OnUnknownAddress, OfPort
<1>17. ASSUME NEW i \in PortIds, OnConnectionDestroyed(i) \/ OnCheckTimeout(i)
       PROVE  AllocatorInv'
  BY <1>0, <1>1, <1>17, TimeoutStep DEF OnConnectionDestroyed, OnCheckTimeout, OfPort
<1>18. CASE ChangeAddress
  <2>1. ip' \in [Nets -> Ips \cup {NoIp}]
    BY <1>0, <1>18 DEF ChangeAddress
  <2>2. changes' \in 0 .. MaxChanges /\ al' = al
    BY <1>0, <1>18, AllocatorAssumption DEF ChangeAddress
  <2> QED BY <1>0, <2>1, <2>2 DEF AllocatorInv
<1>19. CASE UNCHANGED vars
  BY <1>0, <1>1, <1>19 DEF vars
<1> QED BY <1>2, <1>3, <1>4, <1>5, <1>6, <1>7, <1>8, <1>9, <1>10, <1>11, <1>12, <1>13,
           <1>14, <1>15, <1>16, <1>17, <1>18, <1>19 DEF Next, WorkerStep

\* The invariant holds of every behaviour of the allocator.
THEOREM AllocatorInvariant == Spec => []AllocatorInv
<1>1. Init => AllocatorInv
  BY AllocatorInit
<1>2. AllocatorInv /\ [Next]_vars => AllocatorInv'
  BY AllocatorStep
<1> QED BY <1>1, <1>2, PTL DEF Spec

\* Every member of the network manager, the sessions and the ports has its
\* type, and a session never has two MSG_ALLOCATE delayed.
THEOREM AllocatorTypes == Spec => []TypeOK
<1>1. AllocatorInv => TypeOK
  BY DEF AllocatorInv, WorkerInv, TypeOK, States, SessionRecords, PortRecords
<1> QED BY <1>1, AllocatorInvariant, PTL

\* The candidate of a port is signalled once, when the port is ready.
THEOREM CandidateSignalledOnce == Spec => []SignalledOnce
<1>1. AllocatorInv => SignalledOnce
  BY DEF AllocatorInv, WorkerInv, PortsInv, PortInv, SignalledOnce
<1> QED BY <1>1, AllocatorInvariant, PTL

\* No port is opened twice for one session, address and kind.
THEOREM PortOpenedOnce == Spec => []NoPortTwice
<1>1. ASSUME AllocatorInv, NEW i \in PortIds PROVE al.port[i].copies <= 1
  <2>1. PortInv(al, i)
    BY <1>1 DEF AllocatorInv, WorkerInv, PortsInv
  <2> QED BY <2>1 DEF PortInv
<1>2. AllocatorInv => NoPortTwice
  BY <1>1 DEF NoPortTwice
<1> QED BY <1>2, AllocatorInvariant, PTL

\* A port that was destroyed has no connection and is not in ports_.
THEOREM PortsNotDangling == Spec => []NoDanglingPort
<1>1. AllocatorInv => NoDanglingPort
  BY DEF AllocatorInv, WorkerInv, PortsInv, PortInv, NoDanglingPort
<1> QED BY <1>1, AllocatorInvariant, PTL

\* A message is known by its id and session.
LEMMA MessageIs == ASSUME NEW m \in Messages PROVE m = Msg(m.id, m.gen)
BY DEF Messages, Msg

\* No session is left waiting for a message that will not come.
THEOREM SessionsRemembered == Spec => []NoSessionForgotten
<1> DEFINE Has(m) == \E k \in DOMAIN al.q : al.q[k] = m
<1>1. ASSUME AllocatorInv, al.updating
      PROVE  Cardinality({k \in DOMAIN al.q : al.q[k].id = "UPDATENETWORKS"})
                + (IF al.poll THEN 1 ELSE 0) = 1
  <2>1. al.q \in Seq(Messages) /\ ManagerInv(al)
    BY <1>1, InvFacts DEF AllocatorInv
  <2>2. {k \in DOMAIN al.q : al.q[k].id = "UPDATENETWORKS"} = Places(al.q, Updates)
    BY <2>1 DEF Places, Updates
  <2> QED BY <1>1, <2>1, <2>2 DEF ManagerInv, CountOf
<1>2. ASSUME AllocatorInv, NEW P, CountOf(al.q, P) # 0
      PROVE  \E k \in DOMAIN al.q : al.q[k] \in P /\ al.q[k] = Msg(al.q[k].id, al.q[k].gen)
  <2>1. al.q \in Seq(Messages)
    BY <1>1, <1>2, InvFacts DEF AllocatorInv
  <2>2. PICK k \in DOMAIN al.q : al.q[k] \in P
    BY <1>2, <2>1, CountZero
  <2>3. al.q[k] \in Messages
    BY <2>1
  <2> QED BY <2>2, <2>3, MessageIs
<1>3. ASSUME AllocatorInv, NEW g \in Sessions(al)
      PROVE  LET r == al.ses[g] IN
             /\ \/ r.allocated
                \/ al.pinging /\ ~r.running
                \/ \E id \in {"CONFIG_START", "CONFIG_READY", "ALLOCATE"} : Has(Msg(id, g))
             /\ \/ r.networks
                \/ Has(Msg("SIGNALNETWORKS", 0))
                \/ \A n \in Nets : al.known[n] = NoIp
             /\ r.allocated /\ r.networks =>
                   \A n \in Nets : al.known[n] # NoIp => <<n, al.known[n]>> \in r.seqs
  <2>1. SessionInv(al, g) /\ al.q \in Seq(Messages)
    BY <1>3, InvFacts DEF AllocatorInv, Sessions
  <2>2. CountOf(al.q, Configs(g)) \in Nat /\ CountOf(al.q, Allocs(g)) \in Nat
    BY <2>1, CountsTyped
  <2>3. CountOf(al.q, Configs(g)) # 0 =>
           \E id \in {"CONFIG_START", "CONFIG_READY", "ALLOCATE"} : Has(Msg(id, g))
    BY <1>2, <1>3 DEF Configs
  <2>4. CountOf(al.q, Allocs(g)) # 0 =>
           \E id \in {"CONFIG_START", "CONFIG_READY", "ALLOCATE"} : Has(Msg(id, g))
    BY <1>2, <1>3 DEF Allocs
  <2>5. CountOf(al.q, Signals) # 0 => Has(Msg("SIGNALNETWORKS", 0))
    BY <1>2, <1>3 DEF Signals
  <2> HIDE DEF Has
  <2>6. CountOf(al.q, Configs(g)) + CountOf(al.q, Allocs(g)) = 1 =>
           \E id \in {"CONFIG_START", "CONFIG_READY", "ALLOCATE"} : Has(Msg(id, g))
    BY <2>2, <2>3, <2>4
  <2> QED BY <2>1, <2>5, <2>6 DEF SessionInv
<1>4. AllocatorInv => NoSessionForgotten
  BY <1>1, <1>3 DEF NoSessionForgotten
<1> QED BY <1>4, AllocatorInvariant, PTL
=============================================================================
