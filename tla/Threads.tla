------------------------------ MODULE Threads -------------------------------
(***************************************************************************)
(* Thread and MessageQueue (talk/base/thread.cc, messagequeue.cc) with the *)
(* wake-up pipe of PhysicalSocketServer: how threads call each other with  *)
(* Send and hand each other messages with Post, and how they sleep.        *)
(*                                                                         *)
(* A thread is a stack of frames.  The lowest is the loop of Run, in Get;  *)
(* above it stands a frame for each Send that a handler of the frame below *)
(* has made.  One step is one critical section, or one access to a flag    *)
(* that is read or written without the lock (ready, has_sends_, fStop_,    *)
(* the pipe).                                                              *)
(***************************************************************************)
EXTENDS Naturals, FiniteSets, Queue, SequencesExt

CONSTANTS
    Threads,
    Stops,       \* threads that may be stopped and deleted
    Calls,       \* bound: the calls of Send that are made
    To,          \* the thread each call is sent to
    Obj,         \* the object whose handler serves it
    Mortal,      \* the objects that may be destroyed meanwhile
    MaxEvents,   \* bound: posted messages and socket events
    None         \* NULL

ASSUME ThreadsAssumption ==
    /\ Stops \subseteq Threads
    /\ To \in [Calls -> Threads]
    /\ DOMAIN Obj = Calls
    /\ MaxEvents \in Nat
    /\ None \notin Calls

VARIABLES
    th,          \* the Thread of each thread
    st,          \* of each call: "new", "open", then *ready is set because the
                 \* call is "done" or "cleared"; "returned", or "refused"
    destroyed,   \* objects that were destroyed
    events       \* events within the bound

vars == <<th, st, destroyed, events>>

Frame(call, pc) == [call |-> call, pc |-> pc, waited |-> FALSE, smsg |-> None]

\* The constructors; a loop starts with Get.
Init ==
    /\ th = [t \in Threads |->
               [stack |-> <<Frame(None, "recv")>>,
                sendlist |-> <<>>, has_sends |-> FALSE, fStop |-> FALSE,
                signaled |-> FALSE, fWait |-> FALSE, msgq |-> 0]]
    /\ st = [c \in Calls |-> "new"]
    /\ destroyed = {}
    /\ events = 0

Top(t)      == Last(th[t].stack)
At(t, pc)   == Top(t).pc = pc
InLoop(t)   == Top(t).call = None
Gone(t)     == At(t, "gone")
Executes(t) == Top(t).pc \in {"serve", "dispatch", "io"}
Ready(c)    == st[c] \in {"done", "cleared"}
Opened(c)   == st[c] = "open" \/ Ready(c)

\* ReceiveSends holds crit_ from *ready = true to the end of its loop's test.
Locked(t) == Top(t).pc \in {"ready", "next"}

\* s with its top frame at pc; serving m there; with the new frame f; without
\* its top frame.
Goes(s, pc)  == [s EXCEPT !.stack[Len(s.stack)].pc = pc]
Holds(s, m)  == [s EXCEPT !.stack[Len(s.stack)].smsg = m]
Enter(s, f)  == [s EXCEPT !.stack = Append(@, f)]
Leave(s)     == [s EXCEPT !.stack = Front(@)]

Step(t, s) == th' = [th EXCEPT ![t] = s]

\* Signaler::Signal: the pipe keeps at most one byte until Wait reads it.
WakeUp(s) == [s EXCEPT !.signaled = TRUE]

-----------------------------------------------------------------------------
(* Send.                                                                   *)

\* A handler calls Send for another thread; fStop_ is read without the lock.
\* (For the own thread the handler is called directly: no step of its own.)
Send(t, c) ==
    /\ Executes(t)
    /\ st[c] = "new"
    /\ To[c] # t
    /\ ~Gone(To[c])
    /\ Obj[c] \notin destroyed
    /\ IF th[To[c]].fStop
       THEN st' = [st EXCEPT ![c] = "refused"] /\ UNCHANGED th
       ELSE /\ st' = [st EXCEPT ![c] = "open"]
            /\ Step(t, Enter(th[t], Frame(c, "push")))
    /\ UNCHANGED <<destroyed, events>>

\* sendlist_ and has_sends_ change under the lock of the target.
Push(t) ==
    LET c == Top(t).call
        u == To[c]
    IN  /\ At(t, "push")
        /\ ~Locked(u)
        /\ th' = [th EXCEPT ![t] = Goes(@, "wake"),
                            ![u].sendlist = Append(@, <<c, t>>),
                            ![u].has_sends = TRUE]
        /\ UNCHANGED <<st, destroyed, events>>

WakeTarget(t) ==
    /\ At(t, "wake")
    /\ th' = [th EXCEPT ![t] = Goes(@, "test"), ![To[Top(t).call]] = WakeUp(@)]
    /\ UNCHANGED <<st, destroyed, events>>

\* Mutation: the wake-ups that the wait has consumed are lost.
TestReadyQuiet(t) ==
    LET c == Top(t).call IN
    /\ At(t, "test")
    /\ IF Ready(c)
       THEN Step(t, Leave(th[t])) /\ st' = [st EXCEPT ![c] = "returned"]
       ELSE Step(t, Goes(th[t], "recv")) /\ UNCHANGED st
    /\ UNCHANGED <<destroyed, events>>

\* Mutation: if (!ready) instead of while (!ready).
TestReadyOnce(t) ==
    LET f == Top(t) IN
    /\ At(t, "test")
    /\ IF Ready(f.call) \/ f.waited
       THEN /\ Step(t, Leave(IF f.waited THEN WakeUp(th[t]) ELSE th[t]))
            /\ st' = [st EXCEPT ![f.call] = "returned"]
       ELSE Step(t, Goes(th[t], "recv")) /\ UNCHANGED st
    /\ UNCHANGED <<destroyed, events>>

\* while (!ready); behind the loop the thread wakes itself up if it waited.
TestReady(t) ==
    LET f == Top(t) IN
    /\ At(t, "test")
    /\ IF Ready(f.call)
       THEN /\ Step(t, Leave(IF f.waited THEN WakeUp(th[t]) ELSE th[t]))
            /\ st' = [st EXCEPT ![f.call] = "returned"]
       ELSE Step(t, Goes(th[t], "recv")) /\ UNCHANGED st
    /\ UNCHANGED <<destroyed, events>>

-----------------------------------------------------------------------------
(* ReceiveSends, called by Get and by Send.                                *)

\* Where the caller goes on: Get looks at its queue, Send waits.
Received(t) ==
    IF InLoop(t) THEN Goes(th[t], "queue")
    ELSE [Goes(th[t], "wait") EXCEPT !.fWait = TRUE]

\* The test of has_sends_, without the lock.
TestSends(t) ==
    /\ At(t, "recv")
    /\ Step(t, IF th[t].has_sends THEN Goes(th[t], "pop") ELSE Received(t))
    /\ UNCHANGED <<st, destroyed, events>>

PopSend(t) ==
    /\ At(t, "pop") \/ At(t, "next")
    /\ Step(t, IF th[t].sendlist = <<>>
               THEN [Received(t) EXCEPT !.has_sends = FALSE]
               ELSE [Holds(Goes(th[t], "serve"), Head(th[t].sendlist))
                       EXCEPT !.sendlist = Tail(@)])
    /\ UNCHANGED <<st, destroyed, events>>

\* The handler has returned: *smsg.ready = true.
EndServe(t) ==
    /\ At(t, "serve")
    /\ Step(t, Goes(th[t], "ready"))
    /\ st' = [st EXCEPT ![Top(t).smsg[1]] = "done"]
    /\ UNCHANGED <<destroyed, events>>

\* smsg.thread->socketserver()->WakeUp().
WakeSender(t) ==
    /\ At(t, "ready")
    /\ th' = [th EXCEPT ![t] = Holds(Goes(@, "next"), None),
                        ![Top(t).smsg[2]] = WakeUp(@)]
    /\ UNCHANGED <<st, destroyed, events>>

-----------------------------------------------------------------------------
(* The loop: Get, Dispatch and Wait.                                       *)

\* Get takes a message off msgq_; without one it stops or waits.
GetMessage(t) ==
    /\ At(t, "queue")
    /\ Step(t, IF th[t].msgq > 0 THEN [Goes(th[t], "dispatch") EXCEPT !.msgq = @ - 1]
               ELSE IF th[t].fStop THEN Goes(th[t], "ended")
               ELSE [Goes(th[t], "wait") EXCEPT !.fWait = TRUE])
    /\ UNCHANGED <<st, destroyed, events>>

EndDispatch(t) ==
    /\ At(t, "dispatch")
    /\ Step(t, Goes(th[t], "recv"))
    /\ UNCHANGED <<st, destroyed, events>>

\* Wait reads the pipe: Signaler::OnEvent ends it.
EndWait(t) ==
    /\ At(t, "wait")
    /\ th[t].signaled
    /\ Step(t, [Goes(th[t], IF InLoop(t) THEN "recv" ELSE "test") EXCEPT
                  !.signaled = FALSE, !.fWait = FALSE,
                  !.stack[Len(th[t].stack)].waited = ~InLoop(t)])
    /\ UNCHANGED <<st, destroyed, events>>

\* In the loop's wait a socket is served; a Send of its handler that waits
\* leaves fWait_ false, and the wait below it ends too.
ServeSocket(t) ==
    /\ At(t, "wait")
    /\ InLoop(t)
    /\ events < MaxEvents
    /\ Step(t, Goes(th[t], "io"))
    /\ events' = events + 1
    /\ UNCHANGED <<st, destroyed>>

EndSocket(t) ==
    /\ At(t, "io")
    /\ Step(t, Goes(th[t], IF th[t].fWait THEN "wait" ELSE "recv"))
    /\ UNCHANGED <<st, destroyed, events>>

-----------------------------------------------------------------------------
(* Post, Quit and Clear, called by handlers.                               *)

Post(t, u) ==
    /\ Executes(t)
    /\ ~Gone(u)
    /\ ~Locked(u)
    /\ events < MaxEvents
    /\ events' = events + 1
    /\ th' = IF th[u].fStop THEN th
             ELSE [th EXCEPT ![u] = WakeUp([th[u] EXCEPT !.msgq = @ + 1])]
    /\ UNCHANGED <<st, destroyed>>

Quit(t, u) ==
    /\ Executes(t)
    /\ u \in Stops \ {t}
    /\ ~th[u].fStop
    /\ th' = [th EXCEPT ![u] = WakeUp([@ EXCEPT !.fStop = TRUE])]
    /\ UNCHANGED <<st, destroyed, events>>

\* Thread::Clear for the calls in S, on every thread: they are ready without
\* having been served, and their senders are woken.
Clear(S) ==
    LET Listed(u) == ToSet(th[u].sendlist)
        woken == {m[2] : m \in {n \in UNION {Listed(u) : u \in Threads} : n[1] \in S}}
    IN  /\ st' = [c \in Calls |-> IF c \in S THEN "cleared" ELSE st[c]]
        /\ th' = [u \in Threads |->
                    [th[u] EXCEPT
                        !.sendlist = Without(@, S \X Threads),
                        !.signaled = @ \/ u \in woken]]

ListedCalls(u) == {m[1] : m \in ToSet(th[u].sendlist)}
Unserved == UNION {ListedCalls(u) : u \in Threads}

\* ~MessageHandler.  Nobody destroys an object while its handler runs or
\* while somebody is about to call it.
DestroyObject(t, o) ==
    LET S == {c \in Calls : Obj[c] = o /\ st[c] = "open"} IN
    /\ Executes(t)
    /\ o \in Mortal \ destroyed
    /\ S \subseteq Unserved
    /\ \A u \in Threads : ~Locked(u)
    /\ destroyed' = destroyed \cup {o}
    /\ Clear(S)
    /\ UNCHANGED events

\* ~Thread, after Join: Clear(NULL).  Nobody is on the way into its list.
DeleteThread(u) ==
    /\ At(u, "ended")
    /\ \A c \in Calls : To[c] = u /\ st[c] = "open" => c \in ListedCalls(u)
    /\ \A t \in Threads : At(t, "wake") => To[Top(t).call] # u
    /\ LET S == ListedCalls(u)
           woken == {m[2] : m \in ToSet(th[u].sendlist)}
       IN  /\ st' = [c \in Calls |-> IF c \in S THEN "cleared" ELSE st[c]]
           /\ th' = [t \in Threads |->
                       IF t = u THEN [Goes(th[u], "gone") EXCEPT !.sendlist = <<>>,
                                                                 !.msgq = 0]
                       ELSE IF t \in woken THEN WakeUp(th[t]) ELSE th[t]]
    /\ UNCHANGED <<destroyed, events>>

-----------------------------------------------------------------------------
Run(t) ==
    \/ Push(t) \/ WakeTarget(t) \/ TestReady(t)
    \/ TestSends(t) \/ PopSend(t) \/ EndServe(t) \/ WakeSender(t)
    \/ GetMessage(t) \/ EndDispatch(t) \/ EndWait(t) \/ EndSocket(t)
    \/ DeleteThread(t)

Next ==
    \/ \E t \in Threads : Run(t) \/ ServeSocket(t)
    \/ \E t \in Threads, c \in Calls : Send(t, c)
    \/ \E t, u \in Threads : Post(t, u) \/ Quit(t, u)
    \/ \E t \in Threads, o \in Mortal : DestroyObject(t, o)

\* Every thread keeps running, handlers end, and a thread that was stopped
\* is deleted.  Nobody need call or post anything.
Spec == Init /\ [][Next]_vars /\ \A t \in Threads : WF_vars(Run(t))

-----------------------------------------------------------------------------
(* Properties.                                                             *)

\* Nobody sleeps while there is something to do: a thread that waits with an
\* empty pipe has no calls to serve (but one whose caller is just about to
\* wake it), in the loop no message and no request to stop, and in Send no
\* answer (but one whose server is just about to wake it).  Nested Sends read
\* each other's wake-ups out of the one pipe.
NobodyOversleeps ==
    \A t \in Threads : At(t, "wait") /\ ~th[t].signaled =>
        /\ \A c \in ListedCalls(t) :
              \E u \in Threads : At(u, "wake") /\ Top(u).call = c
        /\ IF InLoop(t) THEN th[t].msgq = 0 /\ ~th[t].fStop
           ELSE Ready(Top(t).call) =>
                    \E u \in Threads : At(u, "ready") /\ Top(u).smsg = <<Top(t).call, t>>

-----------------------------------------------------------------------------
(* The refinement: Send is a synchronous call.                             *)

\* The abstract nesting of a frame.
FrameNest(f) ==
    (IF f.call = None THEN <<>> ELSE << <<"made", f.call>> >>) \o
    (IF f.pc = "serve" THEN << <<"served", f.smsg[1]>> >> ELSE <<>>)

Serving(c) ==
    \E t \in Threads : \E i \in DOMAIN th[t].stack :
        th[t].stack[i].pc = "serve" /\ th[t].stack[i].smsg[1] = c

Phase(c) ==
    CASE st[c] \in {"new", "refused"} -> "new"
      [] st[c] = "open"    -> IF Serving(c) THEN "serving" ELSE "called"
      [] st[c] = "cleared" -> "lost"
      [] OTHER             -> st[c]

Nest(k) == Concat([i \in DOMAIN k |-> FrameNest(k[i])])

SyncPhase == [c \in Calls |-> Phase(c)]
SyncNest  == [t \in Threads |-> Nest(th[t].stack)]
SyncGone  == destroyed \cup {t \in Threads : Gone(t)}

Sync == INSTANCE SyncCall WITH
            phase <- SyncPhase, nest <- SyncNest, gone <- SyncGone

\* Thread::Send is the synchronous call of SyncCall: served exactly once,
\* innermost first, or lost with its object or thread, and always returning.
SendIsSyncCall == Sync!Spec
=============================================================================
