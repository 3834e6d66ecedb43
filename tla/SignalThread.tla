---------------------------- MODULE SignalThread ----------------------------
(***************************************************************************)
(* SignalThread (signalthread.h, signalthread.cc): an object with a worker *)
(* of its own that does one piece of work, posts ST_MSG_WORKER_DONE to the *)
(* thread of its owner, and deletes itself when its owner has destroyed it *)
(* and nothing of it is running.                                           *)
(*                                                                         *)
(* The owner's thread runs each method under cs_, so a method is one step, *)
(* except where it waits for the worker: in OnMessage, which holds cs_     *)
(* meanwhile, and in the destructor, which does not.  Release and the      *)
(* waiting form of Destroy have no caller in the prober.                   *)
(***************************************************************************)
EXTENDS Naturals

\*   state     state_, or "none" before there is an object
\*   ref       refcount_
\*   work      the worker: "none", "DoWork", "leaving" (ST_MSG_WORKER_DONE is
\*             posted, the system's thread has not ended) or "ended"
\*   posted    ST_MSG_WORKER_DONE is in the owner's queue
\*   waits     what the owner's thread waits for the worker's end in: "no",
\*             "OnMessage" or "destructor"
\*   alive     the object exists
NoThread ==
    [state |-> "none", ref |-> 0, work |-> "none", posted |-> FALSE,
     waits |-> "no", alive |-> FALSE]

SignalThread == [NoThread EXCEPT !.state = "kInit", !.ref = 1, !.alive = TRUE]

\* class EnterExit.
Enter(t) == [t EXCEPT !.ref = @ + 1]
Exit(t) ==
    [t EXCEPT !.ref = @ - 1, !.waits = IF t.ref = 1 THEN "destructor" ELSE "no"]

Start(t) == Exit([Enter(t) EXCEPT !.state = "kRunning", !.work = "DoWork"])

\* Mutation: the object is released at once, whatever the worker does.
DestroyNow(t) == Exit([Enter(t) EXCEPT !.ref = @ - 1])

\* Destroy(false).
Destroy(t) ==
    IF t.state \in {"kInit", "kComplete"}
    THEN Exit([Enter(t) EXCEPT !.ref = @ - 1])
    ELSE Exit([Enter(t) EXCEPT !.state = "kStopping"])

\* Mutation: a worker that was told to stop is not the last to release.
OnMessageKeeps(t) ==
    LET u == Enter([t EXCEPT !.posted = FALSE]) IN
    IF t.state = "kRunning"
    THEN [u EXCEPT !.state = "kComplete", !.waits = "OnMessage"]
    ELSE Exit(u)

\* OnMessage, ST_MSG_WORKER_DONE: while the owner wants the result, it joins
\* the worker before SignalWorkDone; else it drops the worker's reference.
OnMessage(t) ==
    LET u == Enter([t EXCEPT !.posted = FALSE]) IN
    IF t.state = "kRunning"
    THEN [u EXCEPT !.state = "kComplete", !.waits = "OnMessage"]
    ELSE Exit([u EXCEPT !.ref = @ - 1])

\* The worker ends, and the system's thread with it.
Run(t) ==
    IF t.work = "DoWork" THEN [t EXCEPT !.work = "leaving", !.posted = TRUE]
                         ELSE [t EXCEPT !.work = "ended"]

\* Run needs cs_ to post.
RunEnabled(t) ==
    \/ t.work = "DoWork" /\ t.waits # "OnMessage"
    \/ t.work = "leaving"

\* ~SignalThread, once ~Thread has joined the worker; ~MessageHandler takes
\* the object's messages out of every queue.
Deleted(t) == [t EXCEPT !.alive = FALSE, !.posted = FALSE, !.waits = "no"]
=============================================================================
