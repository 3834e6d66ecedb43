--------------------------- MODULE StunPortProofs ---------------------------
(***************************************************************************)
(* Proofs about StunPort: the lifetime of its resolver, and the times of   *)
(* its requests, which TLC can only follow tick by tick.                   *)
(***************************************************************************)
EXTENDS StunPort, FiniteSetTheorems, TLAPS

(***************************************************************************)
(* Constants of the code, in ticks.                                        *)
(***************************************************************************)
LEMMA Constants ==
    /\ KEEPALIVE_DELAY = 200 /\ RETRY_DELAY = 1 /\ RETRY_TIMEOUT = 1000
    /\ MAX_SENDS = 9 /\ DELAY_UNIT = 2 /\ DELAY_MAX_FACTOR = 16
    /\ MaxQuiet = 232 /\ Ms(10 * 1000) = 200
BY DEF KEEPALIVE_DELAY, RETRY_DELAY, RETRY_TIMEOUT, MAX_SENDS, DELAY_UNIT,
       DELAY_MAX_FACTOR, MaxQuiet, Ms

\* The time from the first packet of a request to the end of the wait after
\* packet c.
Waits(c) ==
    CASE c = 0 -> 0 [] c = 1 -> 2 [] c = 2 -> 6 [] c = 3 -> 14 [] c = 4 -> 30
      [] c = 5 -> 62 [] c = 6 -> 94 [] c = 7 -> 126 [] c = 8 -> 158 [] c = 9 -> 190

\* Waits adds up what GetNextDelay returns; no single wait is longer than 32
\* ticks.
LEMMA WaitsAddUp ==
    ASSUME NEW c \in 0 .. 8
    PROVE  /\ Waits(c + 1) = Waits(c) + GetNextDelay(c)
           /\ GetNextDelay(c) \in 0 .. 32
           /\ Waits(c) \in 0 .. 158
<1>1. GetNextDelay(0) = 2 /\ GetNextDelay(1) = 4 /\ GetNextDelay(2) = 8
  <2>1. 2^0 = 1 /\ 2^1 = 2 /\ 2^2 = 4
    OBVIOUS
  <2> QED BY <2>1, Constants DEF GetNextDelay
<1>2. GetNextDelay(3) = 16 /\ GetNextDelay(4) = 32 /\ GetNextDelay(5) = 32
  <2>1. 2^3 = 8 /\ 2^4 = 16 /\ 2^5 = 32
    OBVIOUS
  <2> QED BY <2>1, Constants DEF GetNextDelay
<1>3. GetNextDelay(6) = 32 /\ GetNextDelay(7) = 32 /\ GetNextDelay(8) = 32
  <2>1. 2^6 = 64 /\ 2^7 = 128 /\ 2^8 = 256
    OBVIOUS
  <2> QED BY <2>1, Constants DEF GetNextDelay
<1>4. /\ Waits(0) = 0 /\ Waits(1) = 2 /\ Waits(2) = 6 /\ Waits(3) = 14
      /\ Waits(4) = 30 /\ Waits(5) = 62 /\ Waits(6) = 94 /\ Waits(7) = 126
      /\ Waits(8) = 158 /\ Waits(9) = 190
  BY DEF Waits
<1>5. CASE c = 0 \/ c = 1 \/ c = 2
  BY <1>1, <1>4, <1>5
<1>6. CASE c = 3 \/ c = 4 \/ c = 5
  BY <1>2, <1>4, <1>6
<1>7. CASE c = 6 \/ c = 7 \/ c = 8
  BY <1>3, <1>4, <1>7
<1> QED BY <1>5, <1>6, <1>7

\* All waits are over after 190 ticks.
LEMMA WaitsBound ==
    ASSUME NEW c \in 0 .. 9 PROVE Waits(c) \in 0 .. 190
BY DEF Waits

-----------------------------------------------------------------------------
(* The inductive invariant.                                                *)

\* The resolver: who holds a reference, where the worker and its message are,
\* and whether the port that owns it is there.
ThrInv ==
    /\ thr.state = "none" => thr = NoThread /\ port.addr = "ip"
    /\ thr.state = "kRunning" =>
          /\ thr.ref = 1 /\ thr.waits = "no" /\ thr.alive
          /\ thr.work # "none" /\ (thr.posted <=> thr.work # "DoWork")
          /\ port.open /\ port.addr = "name"
    /\ thr.state = "kComplete" =>
          /\ ~thr.posted
          /\ \/ /\ thr.ref = 2 /\ thr.waits = "OnMessage" /\ thr.alive
                /\ thr.work \in {"leaving", "ended"}
                /\ port.open /\ port.addr = "name"
             \/ /\ thr.ref = 1 /\ thr.waits = "no" /\ thr.alive
                /\ thr.work = "ended" /\ port.open
             \/ /\ thr.ref = 0 /\ thr.work = "ended" /\ ~port.open
                /\ thr.waits = IF thr.alive THEN "destructor" ELSE "no"
    /\ thr.state = "kStopping" =>
          /\ ~port.open
          /\ \/ /\ thr.ref = 1 /\ thr.waits = "no" /\ thr.alive
                /\ thr.work # "none" /\ (thr.posted <=> thr.work # "DoWork")
             \/ /\ thr.ref = 0 /\ thr.waits = "destructor" /\ thr.alive
                /\ thr.work \in {"leaving", "ended"} /\ ~thr.posted
             \/ /\ thr.ref = 0 /\ thr.waits = "no" /\ ~thr.alive
                /\ thr.work = "ended" /\ ~thr.posted
    /\ thr.state # "kInit"

\* A request that has not been sent is not asked for and its time is short;
\* one that has been sent is due when the waits so far are over.
RequestInv(r, p) ==
    /\ r \in [id : Ids, count : 0 .. 9, due : Nat, age : Nat, life : Nat]
    /\ r.count = 0 => /\ r.age = 0
                      /\ r.life + r.due <= 200
                      /\ p.quiet + r.due <= 232
                      /\ r.id \notin p.asked
    /\ r.count # 0 => /\ r.age + r.due = Waits(r.count)
                      /\ r.due <= 32
                      /\ r.life <= r.age + 200
                      /\ p.quiet + r.due <= 32

Ports == [open : BOOLEAN, addr : {"name", "ip"}, requests : SUBSET Requests,
          asked : SUBSET Ids, quiet : 0 .. MaxQuiet + 1,
          told : {"nothing", "address", "error"}]

Resolvers == [state : {"none", "kInit", "kRunning", "kComplete", "kStopping"},
              ref : 0 .. 2, work : {"none", "DoWork", "leaving", "ended"},
              posted : BOOLEAN, waits : {"no", "OnMessage", "destructor"},
              alive : BOOLEAN]

\* An open port whose server is known has one request; any other has none.
PortInv(p) ==
    /\ p \in Ports
    /\ p.open /\ p.addr = "ip" => \E r : p.requests = {r} /\ RequestInv(r, p)
    /\ ~(p.open /\ p.addr = "ip") => p.requests = {}
    /\ p.addr = "name" => p.quiet = 0

StunInv == PortInv(port) /\ thr \in Resolvers /\ ThrInv

-----------------------------------------------------------------------------
(* What the operations do to the port.                                     *)

\* A request within its times is typed: it dies long before RETRY_TIMEOUT.
LEMMA RequestTyped ==
    ASSUME NEW r, NEW p \in Ports, RequestInv(r, p)
    PROVE  r \in Requests /\ r.life <= 390 /\ r.age <= 190 /\ p.quiet <= 232
<1>1. r.id \in Ids /\ r.count \in 0 .. 9 /\ r.due \in Nat /\ r.age \in Nat
      /\ r.life \in Nat /\ p.quiet \in Nat
  BY DEF RequestInv, Ports
<1>2. Waits(r.count) \in 0 .. 190
  BY <1>1, WaitsBound
<1>3. r.due <= 200 /\ r.life <= 390 /\ r.age <= 190 /\ p.quiet <= 232
  <2>1. CASE r.count = 0
    BY <1>1, <2>1 DEF RequestInv
  <2>2. CASE r.count # 0
    BY <1>1, <1>2, <2>2 DEF RequestInv
  <2> QED BY <2>1, <2>2
<1>4. r = [id |-> r.id, count |-> r.count, due |-> r.due, age |-> r.age, life |-> r.life]
  BY DEF RequestInv
<1>5. r.count \in 0 .. MAX_SENDS /\ r.due \in 0 .. KEEPALIVE_DELAY
      /\ r.life \in 0 .. RETRY_TIMEOUT
  BY <1>1, <1>3, Constants, SMTT(30)
<1> QED BY <1>1, <1>3, <1>4, <1>5 DEF Requests

\* The one request replaced by a new one, after a packet was sent at most
\* 32 ticks ago.
LEMMA Replaced ==
    ASSUME NEW p \in Ports, p.open, p.addr = "ip", NEW i \in Ids,
           NEW delay \in 0 .. 200, p.quiet <= 32, p.requests = {}
    PROVE  PortInv(SendDelayed(p, i, delay))
<1> DEFINE n == [id |-> i, count |-> 0, due |-> delay, age |-> 0, life |-> 0]
           q == SendDelayed(p, i, delay)
<1>1. n \in Requests
  BY Constants DEF Requests
<1>2. q = [p EXCEPT !.requests = {n}, !.asked = @ \ {i}]
  BY DEF SendDelayed
<1>3. /\ q.requests = {n} /\ q.asked = p.asked \ {i}
      /\ q.open = p.open /\ q.addr = p.addr /\ q.quiet = p.quiet
  BY <1>2 DEF Ports
<1>4. q \in Ports
  <2>1. {n} \in SUBSET Requests /\ p.asked \ {i} \in SUBSET Ids
    BY <1>1 DEF Ports
  <2> HIDE DEF n, q
  <2> QED BY <1>2, <2>1 DEF Ports
<1>5. RequestInv(n, q)
  <2>1. p.quiet \in Nat
    BY Constants DEF Ports
  <2> QED BY <1>3, <2>1 DEF RequestInv
<1> QED BY <1>3, <1>4, <1>5 DEF PortInv

\* Removing the one request, with or without a signal, keeps the rest of the
\* port.
LEMMA Removed ==
    ASSUME NEW p \in Ports, NEW r, p.requests = {r}, NEW w \in {"address", "error"}
    PROVE  /\ Remove(p, r) \in Ports
           /\ Remove(p, r).requests = {}
           /\ Remove(p, r).open = p.open /\ Remove(p, r).addr = p.addr
           /\ Remove(p, r).quiet = p.quiet
           /\ Tell(Remove(p, r), w) \in Ports
           /\ Tell(Remove(p, r), w).requests = {}
           /\ Tell(Remove(p, r), w).open = p.open /\ Tell(Remove(p, r), w).addr = p.addr
           /\ Tell(Remove(p, r), w).quiet = p.quiet
<1>1. Remove(p, r) = [p EXCEPT !.requests = {}]
  BY DEF Remove
<1>2. {} \in SUBSET Requests
  OBVIOUS
<1>3. Remove(p, r) \in Ports /\ Remove(p, r).requests = {}
      /\ Remove(p, r).open = p.open /\ Remove(p, r).addr = p.addr
      /\ Remove(p, r).quiet = p.quiet
  BY <1>1, <1>2 DEF Ports
<1> QED BY <1>3 DEF Tell, Ports

\* StunRequest::OnMessage keeps one request within its times, whether it
\* sends the next packet or gives up and starts again.
LEMMA SendKeeps ==
    ASSUME NEW p, PortInv(p), NEW r \in p.requests, r.due = 0
    PROVE  PortInv(OnStunSend(p, r))
           /\ OnStunSend(p, r).open = p.open /\ OnStunSend(p, r).addr = p.addr
<1>1. p \in Ports /\ p.open /\ p.addr = "ip" /\ p.requests = {r} /\ RequestInv(r, p)
  BY DEF PortInv
<1>2. /\ r.id \in Ids /\ r.count \in 0 .. 9 /\ r.age \in Nat /\ r.life \in Nat
      /\ p.quiet \in Nat /\ p.quiet <= 232 /\ r.life <= 390 /\ 1 - r.id \in Ids
  BY <1>1, RequestTyped, Constants DEF RequestInv, Ids, Ports
<1>3. CASE r.count = 9
  <2> DEFINE q == Tell(Remove(p, r), "error")
  <2>1. OnStunSend(p, r) = SendDelayed(q, 1 - r.id, 1)
    BY <1>2, <1>3, Constants DEF OnStunSend, timeout
  <2>2. q \in Ports /\ q.requests = {} /\ q.open /\ q.addr = "ip" /\ q.quiet <= 32
    BY <1>1, <1>2, <1>3, Removed DEF RequestInv
  <2>3. PortInv(SendDelayed(q, 1 - r.id, 1))
    BY <1>2, <2>2, Replaced
  <2>4. SendDelayed(q, 1 - r.id, 1).open = q.open /\ SendDelayed(q, 1 - r.id, 1).addr = q.addr
    BY <2>2 DEF SendDelayed, Ports
  <2>5. q.open = p.open /\ q.addr = p.addr
    BY <1>1, Removed
  <2> QED BY <2>1, <2>3, <2>4, <2>5
<1>4. CASE r.count # 9
  <2>d. PICK d : d = GetNextDelay(r.count)
    OBVIOUS
  <2>n. PICK n : n = [r EXCEPT !.count = @ + 1, !.due = d]
    OBVIOUS
  <2>q. PICK q : q = OnStunSend(p, r)
    OBVIOUS
  <2>1. r.count \in 0 .. 8
    BY <1>2, <1>4
  <2>2. Waits(r.count + 1) = Waits(r.count) + d /\ d \in 0 .. 32 /\ Waits(r.count) \in 0 .. 158
    BY <2>1, <2>d, WaitsAddUp
  <2>3. /\ n \in [id : Ids, count : 0 .. 9, due : Nat, age : Nat, life : Nat]
        /\ n.id = r.id /\ n.count = r.count + 1 /\ n.due = d /\ n.age = r.age
        /\ n.life = r.life
    <3>1. r.count + 1 \in 0 .. 9 /\ d \in Nat
      BY <2>1, <2>2
    <3>2. r \in [id : Ids, count : 0 .. 9, due : Nat, age : Nat, life : Nat]
      BY <1>1 DEF RequestInv
    <3> QED BY <2>n, <3>1, <3>2
  <2>4. q = [p EXCEPT !.requests = {n}, !.asked = @ \cup {r.id}, !.quiet = 0]
    <3>1. ~timeout(r)
      BY <1>4, Constants DEF timeout
    <3>2. (p.requests \ {r}) \cup {n} = {n}
      BY <1>1
    <3> QED BY <2>d, <2>n, <2>q, <3>1, <3>2 DEF OnStunSend
  <2>5. /\ q.requests = {n} /\ q.asked = p.asked \cup {r.id} /\ q.quiet = 0
        /\ q.open = p.open /\ q.addr = p.addr
    BY <1>1, <2>4 DEF Ports
  <2>6. r.age = Waits(r.count) /\ r.life <= r.age + 200
    <3>1. CASE r.count = 0
      <4>1. Waits(0) = 0
        BY DEF Waits
      <4> QED BY <1>1, <1>2, <3>1, <4>1 DEF RequestInv
    <3>2. CASE r.count # 0
      BY <1>1, <1>2, <2>2, <3>2 DEF RequestInv
    <3> QED BY <3>1, <3>2
  <2>7. RequestInv(n, q)
    <3>1. n.count # 0 /\ n.age + n.due = Waits(n.count) /\ n.due <= 32
          /\ n.life <= n.age + 200 /\ q.quiet + n.due <= 32
      BY <1>2, <2>1, <2>2, <2>3, <2>5, <2>6
    <3> QED BY <2>3, <3>1 DEF RequestInv
  <2>8. q \in Ports
    <3>1. n \in Requests
      <4>1. n.age <= 190 /\ n.life <= 390
        BY <1>2, <2>2, <2>3, <2>6
      <4>2. n.count \in 0 .. MAX_SENDS /\ n.due \in 0 .. KEEPALIVE_DELAY
            /\ n.life \in 0 .. RETRY_TIMEOUT
        BY <1>2, <2>1, <2>2, <2>3, <4>1, Constants, SMTT(30)
      <4>3. n.id \in Ids /\ n.age \in Nat
        BY <2>3
      <4> QED BY <2>3, <4>2, <4>3 DEF Requests
    <3>2. {n} \in SUBSET Requests /\ p.asked \cup {r.id} \in SUBSET Ids
          /\ 0 \in 0 .. MaxQuiet + 1
      BY <1>1, <1>2, <3>1, Constants DEF Ports
    <3> QED BY <1>1, <2>4, <3>2 DEF Ports
  <2> QED BY <1>1, <2>q, <2>5, <2>7, <2>8 DEF PortInv
<1> QED BY <1>3, <1>4

\* CheckResponse ends the request that was asked for and starts the next one
\* after KEEPALIVE_DELAY, whatever the answer is.
LEMMA ResponseKeeps ==
    ASSUME NEW p, PortInv(p), NEW i \in p.asked, NEW r \in Matching(p, i),
           NEW kind \in {"response", "noaddress", "error", "other"}
    PROVE  PortInv(CheckResponse(p, r, kind))
           /\ CheckResponse(p, r, kind).open = p.open
           /\ CheckResponse(p, r, kind).addr = p.addr
<1>0. r \in p.requests /\ r.id = i
  BY DEF Matching
<1>1. p \in Ports /\ p.open /\ p.addr = "ip" /\ p.requests = {r} /\ RequestInv(r, p)
  BY <1>0 DEF PortInv
<1>2. /\ r.id \in Ids /\ r.count \in 0 .. 9 /\ r.due \in Nat /\ r.life \in Nat
      /\ p.quiet \in Nat /\ r.life <= 390 /\ 1 - r.id \in Ids
  BY <1>1, RequestTyped, Constants DEF RequestInv, Ids, Ports
<1>3. p.quiet <= 32
  <2>1. r.count # 0
    BY <1>0, <1>1 DEF RequestInv
  <2> QED BY <1>1, <1>2, <2>1 DEF RequestInv
<1>4. ASSUME NEW q \in Ports, q.requests = {}, q.open = p.open, q.addr = p.addr,
             q.quiet = p.quiet
      PROVE  /\ PortInv(SendDelayed(q, 1 - r.id, KEEPALIVE_DELAY))
             /\ SendDelayed(q, 1 - r.id, KEEPALIVE_DELAY).open = p.open
             /\ SendDelayed(q, 1 - r.id, KEEPALIVE_DELAY).addr = p.addr
  <2>1. PortInv(SendDelayed(q, 1 - r.id, KEEPALIVE_DELAY))
    <3>1. q.open /\ q.addr = "ip" /\ q.quiet <= 32 /\ KEEPALIVE_DELAY \in 0 .. 200
      BY <1>1, <1>3, <1>4, Constants
    <3> QED BY <1>2, <1>4, <3>1, Replaced
  <2>2. /\ SendDelayed(q, 1 - r.id, KEEPALIVE_DELAY).open = q.open
        /\ SendDelayed(q, 1 - r.id, KEEPALIVE_DELAY).addr = q.addr
    BY DEF SendDelayed, Ports
  <2> QED BY <1>4, <2>1, <2>2
<1>5. CASE kind = "response"
  <2>1. CheckResponse(p, r, kind)
          = SendDelayed(Tell(Remove(p, r), "address"), 1 - r.id, KEEPALIVE_DELAY)
    BY <1>5 DEF CheckResponse
  <2>q. PICK q : q = Tell(Remove(p, r), "address")
    OBVIOUS
  <2>r. q \in Ports /\ q.requests = {} /\ q.open = p.open /\ q.addr = p.addr
        /\ q.quiet = p.quiet
    BY <1>1, <2>q, Removed
  <2> QED BY <1>4, <2>1, <2>q, <2>r
<1>6. CASE kind = "noaddress"
  <2>1. CheckResponse(p, r, kind) = SendDelayed(Remove(p, r), 1 - r.id, KEEPALIVE_DELAY)
    BY <1>6 DEF CheckResponse
  <2>q. PICK q : q = Remove(p, r)
    OBVIOUS
  <2>r. q \in Ports /\ q.requests = {} /\ q.open = p.open /\ q.addr = p.addr
        /\ q.quiet = p.quiet
    BY <1>1, <2>q, Removed
  <2> QED BY <1>4, <2>1, <2>q, <2>r
<1>7. CASE kind = "error"
  <2>1. r.life <= RETRY_TIMEOUT
    BY <1>2, Constants
  <2>2. CheckResponse(p, r, kind)
          = SendDelayed(Tell(Remove(p, r), "error"), 1 - r.id, KEEPALIVE_DELAY)
    BY <1>7, <2>1 DEF CheckResponse
  <2>q. PICK q : q = Tell(Remove(p, r), "error")
    OBVIOUS
  <2>r. q \in Ports /\ q.requests = {} /\ q.open = p.open /\ q.addr = p.addr
        /\ q.quiet = p.quiet
    BY <1>1, <2>q, Removed
  <2> QED BY <1>4, <2>2, <2>q, <2>r
<1>8. CASE kind = "other"
  <2>1. CheckResponse(p, r, kind) = p
    BY <1>8 DEF CheckResponse
  <2> QED BY <2>1
<1> QED BY <1>5, <1>6, <1>7, <1>8

\* A tick brings the request nearer to its due time and the port no further
\* from its last packet than it may be.
LEMMA TickKeeps ==
    ASSUME NEW p, PortInv(p), \A r \in p.requests : r.due > 0
    PROVE  PortInv(Passed(p)) /\ Passed(p).open = p.open /\ Passed(p).addr = p.addr
<1> DEFINE Aged(r) == [r EXCEPT !.due = @ - 1, !.life = @ + 1,
                                !.age = IF r.count = 0 THEN 0 ELSE @ + 1]
<1>q. PICK q : q = Passed(p)
  OBVIOUS
<1>w. PICK w : w = IF p.addr = "ip" /\ p.quiet <= MaxQuiet THEN p.quiet + 1 ELSE p.quiet
  OBVIOUS
<1>1. p \in Ports
  BY DEF PortInv
<1>2. q = [p EXCEPT !.requests = {Aged(r) : r \in p.requests}, !.quiet = w]
  BY <1>q, <1>w DEF Passed
<1>3. w \in 0 .. MaxQuiet + 1 /\ p.quiet \in 0 .. 233 /\ w <= p.quiet + 1
      /\ (p.addr = "name" => w = p.quiet)
  BY <1>1, <1>w, Constants DEF Ports
<1>4. CASE p.open /\ p.addr = "ip"
  <2>1. PICK r : p.requests = {r} /\ RequestInv(r, p)
    BY <1>4 DEF PortInv
  <2>n. PICK n : n = Aged(r)
    OBVIOUS
  <2>2. /\ r \in [id : Ids, count : 0 .. 9, due : Nat, age : Nat, life : Nat]
        /\ r.due > 0
    BY <2>1 DEF RequestInv
  <2>3. /\ r.due - 1 \in Nat /\ r.life + 1 \in Nat
        /\ (IF r.count = 0 THEN 0 ELSE r.age + 1) \in Nat
    BY <2>2
  <2>4. /\ n \in [id : Ids, count : 0 .. 9, due : Nat, age : Nat, life : Nat]
        /\ n.id = r.id /\ n.count = r.count /\ n.due = r.due - 1
        /\ n.life = r.life + 1 /\ n.age = IF r.count = 0 THEN 0 ELSE r.age + 1
    BY <2>n, <2>2, <2>3
  <2>5. {Aged(s) : s \in p.requests} = {n}
    BY <2>1, <2>n
  <2>6. /\ q.requests = {n} /\ q.asked = p.asked /\ q.open = p.open
        /\ q.addr = p.addr /\ q.quiet = w
    BY <1>1, <1>2, <2>5 DEF Ports
  <2>7. RequestInv(n, q)
    <3>1. CASE r.count = 0
      <4>1. n.count = 0 /\ n.age = 0 /\ n.id \notin q.asked
        BY <2>1, <2>4, <2>6, <3>1 DEF RequestInv
      <4>2. n.life + n.due <= 200 /\ q.quiet + n.due <= 232
        BY <1>3, <2>1, <2>2, <2>4, <2>6, <3>1 DEF RequestInv
      <4> QED BY <2>4, <4>1, <4>2 DEF RequestInv
    <3>2. CASE r.count # 0
      <4>1. r.age + r.due = Waits(r.count) /\ r.due <= 32 /\ r.life <= r.age + 200
            /\ p.quiet + r.due <= 32
        BY <2>1, <3>2 DEF RequestInv
      <4>2. n.count # 0 /\ n.age + n.due = Waits(n.count) /\ n.due <= 32
            /\ n.life <= n.age + 200 /\ q.quiet + n.due <= 32
        BY <1>3, <2>2, <2>4, <2>6, <3>2, <4>1, SMTT(30)
      <4> QED BY <2>4, <4>2 DEF RequestInv
    <3> QED BY <3>1, <3>2
  <2>8. q \in Ports
    <3>1. [p EXCEPT !.quiet = w] \in Ports
      BY <1>1, <1>3 DEF Ports
    <3>2. [p EXCEPT !.quiet = w].quiet = w /\ [p EXCEPT !.quiet = w].asked = p.asked
      BY <1>1 DEF Ports
    <3>3. RequestInv(n, [p EXCEPT !.quiet = w])
      BY <2>6, <2>7, <3>2 DEF RequestInv
    <3>4. n \in Requests
      BY <3>1, <3>3, RequestTyped
    <3>5. {n} \in SUBSET Requests
      BY <3>4
    <3> QED BY <1>1, <1>2, <1>3, <2>5, <3>5 DEF Ports
  <2> QED BY <1>q, <1>4, <2>6, <2>7, <2>8 DEF PortInv
<1>5. CASE ~(p.open /\ p.addr = "ip")
  <2>1. p.requests = {} /\ {Aged(s) : s \in p.requests} = {}
    BY <1>5 DEF PortInv
  <2>2. q = [p EXCEPT !.requests = {}, !.quiet = w] /\ {} \in SUBSET Requests
    BY <1>2, <2>1
  <2>3. q \in Ports /\ q.requests = {} /\ q.open = p.open /\ q.addr = p.addr /\ q.quiet = w
    BY <1>1, <1>3, <2>2 DEF Ports
  <2> QED BY <1>q, <1>3, <1>5, <2>3 DEF PortInv
<1> QED BY <1>4, <1>5

\* PrepareAddress on a port without requests, whose server was not known or
\* that is new.
LEMMA PreparedKeeps ==
    ASSUME NEW p \in Ports, p.open, p.requests = {}, p.quiet = 0
    PROVE  PortInv(Prepared(p)) /\ Prepared(p).open /\ Prepared(p).addr = p.addr
<1>1. CASE p.addr = "ip"
  <2>1. Prepared(p) = SendDelayed(p, 0, 0)
    BY <1>1 DEF Prepared
  <2>2. PortInv(SendDelayed(p, 0, 0))
    BY <1>1, Replaced DEF Ids
  <2>3. SendDelayed(p, 0, 0).open = p.open /\ SendDelayed(p, 0, 0).addr = p.addr
    BY DEF SendDelayed, Ports
  <2> QED BY <2>1, <2>2, <2>3
<1>2. CASE p.addr # "ip"
  <2>1. Prepared(p) = p
    BY <1>2 DEF Prepared
  <2> QED BY <1>2, <2>1 DEF PortInv
<1> QED BY <1>1, <1>2

-----------------------------------------------------------------------------
(* What the operations do to the resolver.                                 *)

\* The members of a resolver, one by one.
Is(t, s, n, w, p, x, a) ==
    /\ t \in [state : {"none", "kInit", "kRunning", "kComplete", "kStopping"},
              ref : Nat, work : {"none", "DoWork", "leaving", "ended"},
              posted : BOOLEAN, waits : {"no", "OnMessage", "destructor"},
              alive : BOOLEAN]
    /\ t.state = s /\ t.ref = n /\ t.work = w /\ t.posted = p /\ t.waits = x
    /\ t.alive = a

\* EnterExit around a method counts up and down.
LEMMA EnterExitIs ==
    ASSUME NEW t, NEW s, NEW n, NEW w, NEW p, NEW x, NEW a, Is(t, s, n, w, p, x, a)
    PROVE  /\ Is(Enter(t), s, n + 1, w, p, x, a)
           /\ n = 1 => Is(Exit(t), s, 0, w, p, "destructor", a)
           /\ n = 2 => Is(Exit(t), s, 1, w, p, "no", a)
<1>1. n \in Nat /\ n + 1 \in Nat /\ (n = 1 => n - 1 = 0) /\ (n = 2 => n - 1 = 1)
  BY DEF Is
<1>2. Is(Enter(t), s, n + 1, w, p, x, a)
  BY <1>1 DEF Is, Enter
<1>3. ASSUME n = 1 PROVE Is(Exit(t), s, 0, w, p, "destructor", a)
  <2>1. t.ref - 1 = 0 /\ t.ref = 1
    BY <1>1, <1>3 DEF Is
  <2>2. PICK e : e = [t EXCEPT !.ref = 0, !.waits = "destructor"]
    OBVIOUS
  <2>3. Exit(t) = e
    BY <2>1, <2>2 DEF Exit
  <2>4. Is(e, s, 0, w, p, "destructor", a)
    BY <2>2 DEF Is
  <2> QED BY <2>3, <2>4
<1>4. ASSUME n = 2 PROVE Is(Exit(t), s, 1, w, p, "no", a)
  <2>1. t.ref - 1 = 1 /\ t.ref # 1
    BY <1>1, <1>4 DEF Is
  <2>2. PICK e : e = [t EXCEPT !.ref = 1, !.waits = "no"]
    OBVIOUS
  <2>3. Exit(t) = e
    BY <2>1, <2>2 DEF Exit
  <2>4. Is(e, s, 1, w, p, "no", a)
    BY <2>2 DEF Is
  <2> QED BY <2>3, <2>4
<1> QED BY <1>2, <1>3, <1>4

\* A resolver that has been started.
LEMMA StartIs == Is(Start(SignalThread), "kRunning", 1, "DoWork", FALSE, "no", TRUE)
<1>t. PICK t : t = SignalThread
  OBVIOUS
<1>f. PICK f, y : f = FALSE /\ y = TRUE
  OBVIOUS
<1>1. Is(t, "kInit", 1, "none", f, "no", y)
  BY <1>t, <1>f DEF SignalThread, NoThread, Is
<1>u. PICK u : u = Enter(t)
  OBVIOUS
<1>2. Is(u, "kInit", 2, "none", f, "no", y)
  <2>1. Is(u, "kInit", 1 + 1, "none", f, "no", y)
    BY <1>1, <1>u, EnterExitIs
  <2> QED BY <2>1
<1>v. PICK v : v = [u EXCEPT !.state = "kRunning", !.work = "DoWork"]
  OBVIOUS
<1>3. Is(v, "kRunning", 2, "DoWork", f, "no", y)
  BY <1>2, <1>v DEF Is
<1>4. Is(Exit(v), "kRunning", 1, "DoWork", f, "no", y)
  BY <1>3, EnterExitIs
<1> QED BY <1>t, <1>f, <1>u, <1>v, <1>4 DEF Start

\* ST_MSG_WORKER_DONE: the result is taken, or the last reference goes.
LEMMA OnMessageIs ==
    ASSUME NEW t, NEW s \in {"kRunning", "kStopping"}, NEW w, NEW p, NEW x, NEW a,
           Is(t, s, 1, w, p, x, a)
    PROVE  /\ s = "kRunning" => Is(OnMessage(t), "kComplete", 2, w, FALSE, "OnMessage", a)
           /\ s = "kStopping" => Is(OnMessage(t), "kStopping", 0, w, FALSE, "destructor", a)
<1>o. PICK o : o = [t EXCEPT !.posted = FALSE]
  OBVIOUS
<1>f. PICK f : f = FALSE
  OBVIOUS
<1>1. Is(o, s, 1, w, f, x, a)
  BY <1>o, <1>f DEF Is
<1>u. PICK u : u = Enter(o)
  OBVIOUS
<1>2. Is(u, s, 2, w, f, x, a)
  <2>1. Is(u, s, 1 + 1, w, f, x, a)
    BY <1>1, <1>u, EnterExitIs
  <2> QED BY <2>1
<1>3. CASE s = "kRunning"
  <2>1. OnMessage(t) = [u EXCEPT !.state = "kComplete", !.waits = "OnMessage"]
    BY <1>3, <1>o, <1>u DEF OnMessage, Is
  <2> QED BY <1>2, <1>3, <1>f, <2>1 DEF Is
<1>4. CASE s = "kStopping"
  <2>v. PICK v : v = [u EXCEPT !.ref = @ - 1]
    OBVIOUS
  <2>1. OnMessage(t) = Exit(v)
    BY <1>4, <1>o, <1>u, <2>v DEF OnMessage, Is
  <2>2. Is(v, s, 1, w, f, x, a)
    BY <1>2, <2>v DEF Is
  <2>3. Is(Exit(v), s, 0, w, f, "destructor", a)
    BY <2>2, EnterExitIs
  <2> QED BY <1>4, <1>f, <2>1, <2>3
<1> QED BY <1>3, <1>4

\* Destroy: the worker keeps the object, or nothing does.
LEMMA DestroyIs ==
    ASSUME NEW t, NEW s \in {"kRunning", "kComplete"}, NEW w, NEW p, NEW x, NEW a,
           Is(t, s, 1, w, p, x, a)
    PROVE  /\ s = "kRunning" => Is(Destroy(t), "kStopping", 1, w, p, "no", a)
           /\ s = "kComplete" => Is(Destroy(t), "kComplete", 0, w, p, "destructor", a)
<1>u. PICK u : u = Enter(t)
  OBVIOUS
<1>1. Is(u, s, 2, w, p, x, a)
  <2>1. Is(u, s, 1 + 1, w, p, x, a)
    BY <1>u, EnterExitIs
  <2> QED BY <2>1
<1>2. CASE s = "kRunning"
  <2>v. PICK v : v = [u EXCEPT !.state = "kStopping"]
    OBVIOUS
  <2>1. Destroy(t) = Exit(v)
    BY <1>2, <1>u, <2>v DEF Destroy, Is
  <2>2. Is(v, "kStopping", 2, w, p, x, a)
    BY <1>1, <2>v DEF Is
  <2>3. Is(Exit(v), "kStopping", 1, w, p, "no", a)
    BY <2>2, EnterExitIs
  <2> QED BY <1>2, <2>1, <2>3
<1>3. CASE s = "kComplete"
  <2>v. PICK v : v = [u EXCEPT !.ref = @ - 1]
    OBVIOUS
  <2>1. Destroy(t) = Exit(v)
    BY <1>3, <1>u, <2>v DEF Destroy, Is
  <2>2. Is(v, s, 1, w, p, x, a)
    BY <1>1, <2>v DEF Is
  <2>3. Is(Exit(v), s, 0, w, p, "destructor", a)
    BY <2>2, EnterExitIs
  <2> QED BY <1>3, <2>1, <2>3
<1> QED BY <1>2, <1>3

\* A typed resolver has its own members.
LEMMA ResolverIs ==
    ASSUME NEW t \in Resolvers
    PROVE  Is(t, t.state, t.ref, t.work, t.posted, t.waits, t.alive)
BY DEF Resolvers, Is

\* A resolver with few references is typed.
LEMMA IsTyped ==
    ASSUME NEW t, NEW s, NEW n \in 0 .. 2, NEW w, NEW p, NEW x, NEW a,
           Is(t, s, n, w, p, x, a)
    PROVE  t \in Resolvers
BY DEF Is, Resolvers

-----------------------------------------------------------------------------
(* The invariant holds.                                                    *)

\* A new port, with or without a lookup, has the invariant.
LEMMA StunInit == ASSUME Init PROVE StunInv
<1>1. PICK a \in {"name", "ip"} :
         port = Prepared(NewPort(a)) /\ thr = Resolver(NewPort(a), NoThread)
  BY DEF Init
<1>p. PICK p : p = NewPort(a)
  OBVIOUS
<1>2. p \in Ports /\ p.open /\ p.requests = {} /\ p.quiet = 0 /\ p.addr = a
  <2>1. 0 \in 0 .. MaxQuiet + 1
    BY Constants
  <2> QED BY <1>p, <2>1 DEF NewPort, Ports
<1>3. PortInv(port) /\ port.open /\ port.addr = a
  BY <1>1, <1>p, <1>2, PreparedKeeps
<1>4. thr \in Resolvers /\ ThrInv
  <2>1. CASE a = "ip"
    <3>1. thr = NoThread
      BY <1>1, <1>p, <1>2, <2>1 DEF Resolver
    <3> QED BY <1>3, <2>1, <3>1 DEF NoThread, Resolvers, ThrInv
  <2>2. CASE a = "name"
    <3>1. thr = Start(SignalThread)
      BY <1>1, <1>p, <1>2, <2>2 DEF Resolver, NoThread
    <3>2. Is(thr, "kRunning", 1, "DoWork", FALSE, "no", TRUE)
      BY <3>1, StartIs
    <3> QED BY <1>3, <2>2, <3>2, IsTyped DEF ThrInv, Is
  <2> QED BY <2>1, <2>2
<1> QED BY <1>3, <1>4 DEF StunInv

\* The steps of the requests leave the resolver and what it needs to know of
\* the port alone.
LEMMA RequestStep ==
    ASSUME StunInv, OnMessageSend \/ OnReadPacket \/ Tick PROVE StunInv'
<1>1. PortInv(port') /\ port'.open = port.open /\ port'.addr = port.addr
  <2>1. CASE OnMessageSend
    BY <2>1, SendKeeps DEF OnMessageSend, StunInv
  <2>2. CASE OnReadPacket
    BY <2>2, ResponseKeeps DEF OnReadPacket, StunInv
  <2>3. CASE Tick
    BY <2>3, TickKeeps DEF Tick, StunInv
  <2> QED BY <2>1, <2>2, <2>3
<1>2. thr' = thr
  BY DEF OnMessageSend, OnReadPacket, Tick
<1> QED BY <1>1, <1>2 DEF StunInv, ThrInv, PortInv

\* The steps of the resolver alone.
LEMMA ThreadStep ==
    ASSUME StunInv, OnWorkerDone \/ ResolverDeleted \/ ResolverStep PROVE StunInv'
<1>1. port' = port /\ PortInv(port) /\ thr \in Resolvers /\ ThrInv
  BY DEF OnWorkerDone, ResolverDeleted, ResolverStep, StunInv
<1>2. CASE OnWorkerDone
  <2>1. /\ thr.state \in {"kRunning", "kStopping"} /\ thr.ref = 1 /\ thr.alive
        /\ thr.work \in {"leaving", "ended"} /\ thr.waits = "no" /\ thr.posted
    BY <1>1, <1>2 DEF OnWorkerDone, ThrInv, Resolvers, NoThread
  <2>2. CASE thr.state = "kRunning"
    <3>1. Is(thr, "kRunning", 1, thr.work, TRUE, "no", TRUE)
      BY <1>1, <2>1, <2>2, ResolverIs DEF Resolvers
    <3>2. Is(thr', "kComplete", 2, thr.work, FALSE, "OnMessage", TRUE)
      BY <1>2, <3>1, OnMessageIs DEF OnWorkerDone
    <3>3. port.open /\ port.addr = "name"
      BY <1>1, <2>2 DEF ThrInv
    <3>4. thr' \in Resolvers /\ ThrInv'
      BY <1>1, <2>1, <3>2, <3>3, IsTyped DEF ThrInv, Is
    <3> QED BY <1>1, <3>4 DEF StunInv, PortInv
  <2>3. CASE thr.state = "kStopping"
    <3>1. Is(thr, "kStopping", 1, thr.work, TRUE, "no", TRUE)
      BY <1>1, <2>1, <2>3, ResolverIs DEF Resolvers
    <3>2. Is(thr', "kStopping", 0, thr.work, FALSE, "destructor", TRUE)
      BY <1>2, <3>1, OnMessageIs DEF OnWorkerDone
    <3>3. ~port.open
      BY <1>1, <2>3 DEF ThrInv
    <3>4. thr' \in Resolvers /\ ThrInv'
      BY <1>1, <2>1, <3>2, <3>3, IsTyped DEF ThrInv, Is
    <3> QED BY <1>1, <3>4 DEF StunInv, PortInv
  <2> QED BY <2>1, <2>2, <2>3
<1>3. CASE ResolverDeleted
  <2>1. thr' = [thr EXCEPT !.alive = FALSE, !.posted = FALSE, !.waits = "no"]
    BY <1>3 DEF ResolverDeleted, Deleted
  <2>2. /\ thr.state \in {"kComplete", "kStopping"} /\ thr.ref = 0 /\ thr.work = "ended"
        /\ ~port.open
    BY <1>1, <1>3 DEF ResolverDeleted, ThrInv, Resolvers, NoThread
  <2> QED BY <1>1, <2>1, <2>2 DEF StunInv, ThrInv, Resolvers
<1>4. CASE ResolverStep
  <2>1. CASE thr.work = "DoWork"
    <3>1. thr' = [thr EXCEPT !.work = "leaving", !.posted = TRUE]
      BY <1>4, <2>1 DEF ResolverStep, Run
    <3>2. /\ thr.state \in {"kRunning", "kStopping"} /\ thr.ref = 1 /\ thr.alive
          /\ thr.waits = "no"
      BY <1>1, <2>1 DEF ThrInv, Resolvers, NoThread
    <3>3. /\ thr' \in Resolvers /\ thr'.work = "leaving" /\ thr'.posted = TRUE
          /\ thr'.state = thr.state /\ thr'.ref = 1 /\ thr'.alive = thr.alive
          /\ thr'.waits = "no"
      BY <1>1, <3>1, <3>2 DEF Resolvers
    <3>4. ThrInv'
      BY <1>1, <3>2, <3>3 DEF ThrInv
    <3> QED BY <1>1, <3>3, <3>4 DEF StunInv, PortInv
  <2>2. CASE thr.work = "leaving"
    <3>1. thr' = [thr EXCEPT !.work = "ended"]
      BY <1>4, <2>2 DEF ResolverStep, Run
    <3> QED BY <1>1, <2>2, <3>1 DEF StunInv, ThrInv, Resolvers, NoThread
  <2> QED BY <1>4, <2>1, <2>2 DEF ResolverStep, RunEnabled
<1> QED BY <1>2, <1>3, <1>4

\* The worker joined, SignalWorkDone reaches the port.
LEMMA WorkDoneStep ==
    ASSUME StunInv, WorkDone PROVE StunInv'
<1>0. thr \in Resolvers /\ ThrInv /\ thr.waits = "OnMessage" /\ thr.work = "ended"
  BY DEF WorkDone, StunInv
<1>1. /\ thr.state = "kComplete" /\ thr.ref = 2 /\ thr.alive /\ thr.work = "ended"
      /\ ~thr.posted /\ port.open /\ port.addr = "name" /\ thr \in Resolvers
      /\ PortInv(port)
  <2>1. thr.state = "kComplete"
    BY <1>0 DEF ThrInv, Resolvers, NoThread
  <2> QED BY <1>0, <2>1 DEF ThrInv, StunInv
<1>2. port \in Ports /\ port.requests = {} /\ port.quiet = 0
  BY <1>1 DEF PortInv
<1>3. PICK found \in BOOLEAN : port' = OnResolveResult(port, found)
  BY DEF WorkDone
<1>4. PortInv(port') /\ port'.open
  <2>1. CASE found
    <3>p. PICK p : p = [port EXCEPT !.addr = "ip"]
      OBVIOUS
    <3>1. p \in Ports /\ p.open /\ p.requests = {} /\ p.quiet = 0
      BY <1>1, <1>2, <3>p DEF Ports
    <3> QED BY <1>3, <2>1, <3>p, <3>1, PreparedKeeps DEF OnResolveResult
  <2>2. CASE ~found
    <3>p. PICK p : p = Tell(port, "error")
      OBVIOUS
    <3>1. p \in Ports /\ p.open /\ p.requests = {} /\ p.quiet = 0
      BY <1>1, <1>2, <3>p DEF Ports, Tell
    <3> QED BY <1>3, <2>2, <3>p, <3>1, PreparedKeeps DEF OnResolveResult
  <2> QED BY <2>1, <2>2
<1>5. Is(thr', "kComplete", 1, "ended", FALSE, "no", TRUE)
  <2>1. Is(thr, "kComplete", 2, "ended", FALSE, "OnMessage", TRUE)
    BY <1>0, <1>1, ResolverIs DEF Resolvers
  <2>2. Is(Exit(thr), "kComplete", 1, "ended", FALSE, "no", TRUE)
    BY <2>1, EnterExitIs
  <2>3. Exit(thr).state # "none"
    BY <2>2 DEF Is
  <2> QED BY <2>2, <2>3 DEF WorkDone, Resolver
<1>6. thr' \in Resolvers /\ ThrInv'
  BY <1>4, <1>5, IsTyped DEF ThrInv, Is
<1> QED BY <1>4, <1>6 DEF StunInv, PortInv

\* ~StunPort, whatever the resolver is doing.
LEMMA DestroyedStep ==
    ASSUME StunInv, PortDestroyed PROVE StunInv'
<1>1. /\ port.open /\ thr.waits = "no" /\ PortInv(port) /\ thr \in Resolvers
      /\ ThrInv /\ port \in Ports
  BY DEF PortDestroyed, Free, StunInv, PortInv
<1>2. PortInv(port') /\ ~port'.open /\ port'.addr = port.addr
  <2>1. port' = [port EXCEPT !.open = FALSE, !.requests = {}, !.asked = {}, !.quiet = 0]
    BY DEF PortDestroyed
  <2>2. {} \in SUBSET Requests /\ {} \in SUBSET Ids /\ 0 \in 0 .. MaxQuiet + 1
    BY Constants
  <2>3. /\ port' \in Ports /\ port'.requests = {} /\ ~port'.open
        /\ port'.addr = port.addr /\ port'.quiet = 0
    BY <1>1, <2>1, <2>2 DEF Ports
  <2> QED BY <2>3 DEF PortInv
<1>3. CASE ~thr.alive
  <2>1. thr' = thr
    BY <1>3 DEF PortDestroyed
  <2>2. thr.state = "none"
    BY <1>1, <1>3 DEF ThrInv, Resolvers
  <2> QED BY <1>1, <1>2, <2>1, <2>2 DEF StunInv, ThrInv
<1>4. CASE thr.alive /\ thr.state = "kRunning"
  <2>1. thr.ref = 1 /\ thr.work # "none" /\ (thr.posted <=> thr.work # "DoWork")
    BY <1>1, <1>4 DEF ThrInv
  <2>2. Is(thr, "kRunning", 1, thr.work, thr.posted, "no", TRUE)
    BY <1>1, <1>4, <2>1, ResolverIs DEF Resolvers
  <2>3. Is(thr', "kStopping", 1, thr.work, thr.posted, "no", TRUE)
    BY <1>4, <2>2, DestroyIs DEF PortDestroyed
  <2>4. thr' \in Resolvers /\ ThrInv'
    BY <1>1, <1>2, <2>1, <2>3, IsTyped DEF ThrInv, Is
  <2> QED BY <1>2, <2>4 DEF StunInv, PortInv
<1>5. CASE thr.alive /\ thr.state = "kComplete"
  <2>1. thr.ref = 1 /\ thr.work = "ended" /\ ~thr.posted
    BY <1>1, <1>5 DEF ThrInv
  <2>2. Is(thr, "kComplete", 1, "ended", FALSE, "no", TRUE)
    BY <1>1, <1>5, <2>1, ResolverIs DEF Resolvers
  <2>3. Is(thr', "kComplete", 0, "ended", FALSE, "destructor", TRUE)
    BY <1>5, <2>2, DestroyIs DEF PortDestroyed
  <2>4. thr' \in Resolvers /\ ThrInv'
    BY <1>1, <1>2, <2>3, IsTyped DEF ThrInv, Is
  <2> QED BY <1>2, <2>4 DEF StunInv, PortInv
<1>6. thr.alive => thr.state \in {"kRunning", "kComplete"}
  BY <1>1 DEF ThrInv, Resolvers, NoThread
<1> QED BY <1>3, <1>4, <1>5, <1>6

\* Every step of the port, its requests and its lookup keeps it.
LEMMA StunStep ==
    ASSUME StunInv, [Next]_vars PROVE StunInv'
<1>1. CASE UNCHANGED vars
  BY <1>1 DEF vars, StunInv, PortInv, ThrInv
<1>2. CASE Next
  BY <1>2, RequestStep, ThreadStep, WorkDoneStep, DestroyedStep DEF Next
<1> QED BY <1>1, <1>2

\* The invariant of port and resolver holds in every reachable state.
THEOREM StunInvariant == Spec => []StunInv
<1>1. Init => StunInv
  BY StunInit
<1>2. StunInv /\ [Next]_vars => StunInv'
  BY StunStep
<1> QED BY <1>1, <1>2, PTL DEF Spec

-----------------------------------------------------------------------------
(* What the runs check.                                                    *)

\* The request of an open port, when there is one.
LEMMA RequestsKept ==
    ASSUME StunInv, NEW r \in port.requests
    PROVE  port.requests = {r} /\ RequestInv(r, port) /\ port \in Ports
BY DEF StunInv, PortInv

\* Types, and with them that every request is far from RETRY_TIMEOUT: the
\* tests of start_time_ in OnTimeout and OnErrorResponse of stunport.cc
\* always retry.
THEOREM StunTypes == Spec => []TypeOK
<1>1. StunInv => TypeOK
  BY DEF StunInv, PortInv, Ports, Resolvers, TypeOK
<1> QED BY <1>1, StunInvariant, PTL

\* "We will keep pinging the stun server to make sure our NAT pin-hole stays
\* open" (stunport.cc:160): exactly one request at any time and a packet at
\* least every 11.6 s, however answers, refusals and silences alternate.
THEOREM PinholeStaysOpen == Spec => []PinholeOpen
<1>1. StunInv => PinholeOpen
  <2> SUFFICES ASSUME StunInv, port.open, port.addr = "ip"
               PROVE  Cardinality(port.requests) = 1 /\ port.quiet <= MaxQuiet
    BY DEF PinholeOpen
  <2>1. PICK r : port.requests = {r} /\ RequestInv(r, port) /\ port \in Ports
    BY DEF StunInv, PortInv
  <2>2. Cardinality({r}) = 1
    BY FS_Singleton
  <2>3. port.quiet <= 232
    BY <2>1, RequestTyped
  <2> QED BY <2>1, <2>2, <2>3, Constants
<1> QED BY <1>1, StunInvariant, PTL

\* The nine packets of a request and the waits of GetNextDelay after them
\* (stunrequest.cc) take at most 9.5 s, within the 10 s of the unit tests.
THEOREM RequestsFailInTime == Spec => []FailsInTime
<1>1. StunInv => FailsInTime
  <2> SUFFICES ASSUME StunInv, NEW r \in port.requests PROVE r.age <= Ms(10 * 1000)
    BY DEF FailsInTime
  <2>1. RequestInv(r, port) /\ port \in Ports
    BY RequestsKept
  <2>2. r.age <= 190 /\ r.age \in Nat
    BY <2>1, RequestTyped DEF RequestInv
  <2> QED BY <2>2, Constants
<1> QED BY <1>1, StunInvariant, PTL

\* No order of the lookup's end, its message, SignalWorkDone and ~StunPort
\* deletes the resolver too early, blocks the port's thread for a lookup or
\* signals a port that is gone (signalthread.cc).
THEOREM ResolverIsSafe == Spec => []ResolverSafe
<1>1. StunInv => ResolverSafe
  BY DEF StunInv, ThrInv, Resolvers, ResolverSafe, NoThread
<1> QED BY <1>1, StunInvariant, PTL
=============================================================================
