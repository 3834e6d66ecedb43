------------------------------ MODULE StunPort ------------------------------
(***************************************************************************)
(* One StunPort on the worker thread of the session (stunport.cc), with    *)
(* the retransmissions of its StunRequestManager (stunrequest.cc), the     *)
(* lookup of the server's name on a SignalThread, and a server and network *)
(* that answer, refuse, lose, delay and duplicate.                         *)
(*                                                                         *)
(* Time passes in steps of 50 ms, the smallest delay of the code.  The     *)
(* thread is prompt: a message that is due runs before time goes on.       *)
(***************************************************************************)
EXTENDS SignalThread, FiniteSets

VARIABLES
    port,     \* the StunPort
    thr       \* its resolver_

vars == <<port, thr>>

Ms(n) == n \div 50

KEEPALIVE_DELAY  == Ms(10 * 1000)
RETRY_DELAY      == Ms(50)
RETRY_TIMEOUT    == Ms(50 * 1000)
MAX_SENDS        == 9
DELAY_UNIT       == Ms(100)
DELAY_MAX_FACTOR == 16

\* The longest time between two packets to the server: an answer that comes
\* just before the last wait ends, then KEEPALIVE_DELAY.
MaxQuiet == KEEPALIVE_DELAY + DELAY_UNIT * DELAY_MAX_FACTOR

Ids == {0, 1}

\*   open      the port exists
\*   addr      server_addr_: "name" while it is unresolved, "ip"
\*   requests  requests_: id (only the last two are told apart), count,
\*             due (time until MSG_STUN_SEND), age (time since the first
\*             packet) and life (time since the constructor)
\*   asked     ids that an answer may still arrive for
\*   quiet     time since the last packet, counted to MaxQuiet + 1
\*   told      the last thing the port has signalled
NewPort(a) ==
    [open |-> TRUE, addr |-> a, requests |-> {}, asked |-> {}, quiet |-> 0,
     told |-> "nothing"]

-----------------------------------------------------------------------------
(* Requests.                                                               *)

\* new StunPortBindingRequest, SendDelayed.
SendDelayed(p, id, delay) ==
    [p EXCEPT !.requests = @ \cup {[id |-> id, count |-> 0, due |-> delay,
                                    age |-> 0, life |-> 0]},
              !.asked = @ \ {id}]

Remove(p, r) == [p EXCEPT !.requests = @ \ {r}]

Tell(p, what) == [p EXCEPT !.told = what]

\* Mutation: the factor is not limited.
GetNextDelayUnlimited(count) == DELAY_UNIT * 2 ^ count

GetNextDelay(count) ==
    DELAY_UNIT * (IF 2 ^ count < DELAY_MAX_FACTOR THEN 2 ^ count ELSE DELAY_MAX_FACTOR)

\* Mutation: the number of packets is tested before the last is counted.
timeoutLate(r) == r.count > MAX_SENDS

\* timeout_.
timeout(r) == r.count = MAX_SENDS

\* StunRequest::OnMessage.  OnTimeout retries unless it has done so for
\* RETRY_TIMEOUT.
OnStunSend(p, r) ==
    IF timeout(r)
    THEN LET q == Tell(Remove(p, r), "error") IN
         IF r.life <= RETRY_TIMEOUT THEN SendDelayed(q, 1 - r.id, RETRY_DELAY) ELSE q
    ELSE [p EXCEPT !.requests = (@ \ {r}) \cup
                       {[r EXCEPT !.count = @ + 1, !.due = GetNextDelay(r.count)]},
                   !.asked = @ \cup {r.id},
                   !.quiet = 0]

\* Mutation: any answer of the server is taken for one to the request.
MatchingAny(p, id) == p.requests

\* requests_.find(msg->transaction_id()).
Matching(p, id) == {r \in p.requests : r.id = id}

\* CheckResponse, with OnResponse (whose address may be missing),
\* OnErrorResponse, or a message of another type.
CheckResponse(p, r, kind) ==
    CASE kind = "response"  -> SendDelayed(Tell(Remove(p, r), "address"),
                                           1 - r.id, KEEPALIVE_DELAY)
      [] kind = "noaddress" -> SendDelayed(Remove(p, r), 1 - r.id, KEEPALIVE_DELAY)
      [] kind = "error"     ->
            LET q == Tell(Remove(p, r), "error") IN
            IF r.life <= RETRY_TIMEOUT
            THEN SendDelayed(q, 1 - r.id, KEEPALIVE_DELAY) ELSE q
      [] kind = "other"     -> p

-----------------------------------------------------------------------------
(* The server's address.                                                   *)

\* PrepareAddress, ResolveStunAddress: a lookup is started once.
Prepared(p) == IF p.addr = "ip" THEN SendDelayed(p, 0, 0) ELSE p
Resolver(p, t) ==
    IF p.addr = "name" /\ t.state = "none" THEN Start(SignalThread) ELSE t

\* OnResolveResult.
OnResolveResult(p, found) ==
    IF found THEN Prepared([p EXCEPT !.addr = "ip"])
             ELSE Prepared(Tell(p, "error"))

Init ==
    \E a \in {"name", "ip"} :
        /\ port = Prepared(NewPort(a))
        /\ thr = Resolver(NewPort(a), NoThread)

-----------------------------------------------------------------------------
(* Steps of the port's thread, which a wait for the resolver blocks.       *)

Free == thr.waits = "no"

OnMessageSend ==
    /\ Free
    /\ \E r \in port.requests : r.due = 0 /\ port' = OnStunSend(port, r)
    /\ UNCHANGED thr

OnReadPacket ==
    /\ Free
    /\ \E id \in port.asked, kind \in {"response", "noaddress", "error", "other"} :
          \E r \in Matching(port, id) : port' = CheckResponse(port, r, kind)
    /\ UNCHANGED thr

OnWorkerDone ==
    /\ Free
    /\ thr.posted
    /\ thr' = OnMessage(thr)
    /\ UNCHANGED port

\* The worker has been joined: SignalWorkDone.
WorkDone ==
    /\ thr.waits = "OnMessage"
    /\ thr.work = "ended"
    /\ \E found \in BOOLEAN : port' = OnResolveResult(port, found)
    /\ thr' = Resolver(port', Exit(thr))

ResolverDeleted ==
    /\ thr.waits = "destructor"
    /\ thr.work \in {"none", "ended"}
    /\ thr' = Deleted(thr)
    /\ UNCHANGED port

\* ~StunPort, when Port::CheckTimeout destroys the port: the manager's
\* destructor deletes the requests with their messages.
PortDestroyed ==
    /\ Free
    /\ port.open
    /\ port' = [port EXCEPT !.open = FALSE, !.requests = {}, !.asked = {}, !.quiet = 0]
    /\ thr' = IF thr.alive THEN Destroy(thr) ELSE thr

-----------------------------------------------------------------------------
\* The lookup returns; its thread ends.
ResolverStep == RunEnabled(thr) /\ thr' = Run(thr) /\ UNCHANGED port

\* 50 ms pass.
Passed(p) ==
    [p EXCEPT !.requests = {[r EXCEPT !.due = @ - 1, !.life = @ + 1,
                                      !.age = IF r.count = 0 THEN 0 ELSE @ + 1] : r \in @},
              !.quiet = IF p.addr = "ip" /\ @ <= MaxQuiet THEN @ + 1 ELSE @]

Tick ==
    /\ Free
    /\ \A r \in port.requests : r.due > 0
    /\ port' = Passed(port)
    /\ UNCHANGED thr

Next ==
    \/ OnMessageSend \/ OnReadPacket \/ OnWorkerDone \/ WorkDone
    \/ ResolverDeleted \/ PortDestroyed \/ ResolverStep \/ Tick

\* A lookup ends, the port's thread runs, and time passes.
Spec ==
    /\ Init
    /\ [][Next]_vars
    /\ WF_vars(ResolverStep)
    /\ WF_vars(OnMessageSend \/ OnWorkerDone \/ WorkDone \/ ResolverDeleted)
    /\ WF_vars(Tick)

-----------------------------------------------------------------------------
(* Properties.                                                             *)

Requests == [id : Ids, count : 0 .. MAX_SENDS, due : 0 .. KEEPALIVE_DELAY,
             age : Nat, life : 0 .. RETRY_TIMEOUT]

\* Every member has its type; no request lives for RETRY_TIMEOUT, so that
\* the tests of start_time_ in OnTimeout and OnErrorResponse always retry.
TypeOK ==
    /\ port \in [open : BOOLEAN, addr : {"name", "ip"},
                 requests : SUBSET Requests, asked : SUBSET Ids,
                 quiet : 0 .. MaxQuiet + 1, told : {"nothing", "address", "error"}]
    /\ thr \in [state : {"none", "kInit", "kRunning", "kComplete", "kStopping"},
                ref : 0 .. 2, work : {"none", "DoWork", "leaving", "ended"},
                posted : BOOLEAN, waits : {"no", "OnMessage", "destructor"},
                alive : BOOLEAN]

\* "We will keep pinging the stun server to make sure our NAT pin-hole stays
\* open during the call" (stunport.cc:160), once its address is known: there
\* is always one request, never two, whether the last was answered, refused,
\* timed out or answered twice, and the server hears from the port every
\* 11.6 s, also when the answer to an earlier request is late.
PinholeOpen ==
    port.open /\ port.addr = "ip" =>
        Cardinality(port.requests) = 1 /\ port.quiet <= MaxQuiet

\* A request that gets no answer ends in SignalAddressError within the 10 s
\* that the unit tests wait for it (stunport_unittest.cc:42): the waits of
\* GetNextDelay for MAX_SENDS packets add up to less.
FailsInTime == \A r \in port.requests : r.age <= Ms(10 * 1000)

\* The port's thread never waits for a lookup, only for a worker that is
\* about to end; SignalWorkDone never reaches a port that is gone; and the
\* resolver is deleted neither under its worker or a message to it nor
\* under a port that still has resolver_ (SignalThread, ~StunPort).
ResolverSafe ==
    /\ thr.waits # "no" => thr.work # "DoWork"
    /\ thr.waits = "OnMessage" => port.open
    /\ thr.state # "none" /\ ~thr.alive =>
          thr.work = "ended" /\ ~thr.posted /\ ~port.open

\* The resolver of a port that is destroyed during the lookup, between its
\* end and the message, or after it, is deleted in the end (SignalThread::
\* Destroy and OnMessage leave no reference behind).
ResolverFreed == ~port.open ~> ~thr.alive
=============================================================================
