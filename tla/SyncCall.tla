------------------------------ MODULE SyncCall ------------------------------
(***************************************************************************)
(* What Thread::Send (talk/base/thread.h) promises: a call of another      *)
(* thread, "like Win32 SendMessage".  A thread that waits for a call of    *)
(* its own goes on serving the calls of others and does nothing else; a    *)
(* call is served exactly once, by its target and before it returns,       *)
(* unless its object or its target is gone; and every call returns.        *)
(***************************************************************************)
EXTENDS Naturals, Sequences

CONSTANTS
    Threads, Calls,
    To,          \* the thread each call is sent to
    Obj          \* the object whose handler serves it

VARIABLES
    phase,       \* of each call
    nest,        \* of each thread: the calls it makes and serves, innermost last
    gone         \* objects and threads that do not exist any more

vars == <<phase, nest, gone>>

Made(c)   == <<"made", c>>
Served(c) == <<"served", c>>

Init ==
    /\ phase = [c \in Calls |-> "new"]
    /\ nest = [t \in Threads |-> <<>>]
    /\ gone = {}

Innermost(t) == nest[t][Len(nest[t])]
Waits(t)     == nest[t] # <<>> /\ Innermost(t)[1] = "made"
Serves(t)    == nest[t] # <<>> /\ Innermost(t)[1] = "served"
Leave(t)     == [nest EXCEPT ![t] = SubSeq(@, 1, Len(@) - 1)]

Call(t, c) ==
    /\ phase[c] = "new"
    /\ t # To[c]
    /\ ~Waits(t)
    /\ phase' = [phase EXCEPT ![c] = "called"]
    /\ nest' = [nest EXCEPT ![t] = Append(@, Made(c))]
    /\ UNCHANGED gone

Begin(c) ==
    /\ phase[c] = "called"
    /\ ~Serves(To[c])
    /\ phase' = [phase EXCEPT ![c] = "serving"]
    /\ nest' = [nest EXCEPT ![To[c]] = Append(@, Served(c))]
    /\ UNCHANGED gone

End(c) ==
    /\ phase[c] = "serving"
    /\ Innermost(To[c]) = Served(c)
    /\ phase' = [phase EXCEPT ![c] = "done"]
    /\ nest' = Leave(To[c])
    /\ UNCHANGED gone

\* An object or a thread goes away, and with it the calls that wait for it.
Vanish(x) ==
    /\ x \notin gone
    /\ gone' = gone \cup {x}
    /\ phase' = [c \in Calls |-> IF phase[c] = "called" /\ x \in {Obj[c], To[c]}
                                 THEN "lost" ELSE phase[c]]
    /\ UNCHANGED nest

Return(t, c) ==
    /\ Waits(t)
    /\ Innermost(t) = Made(c)
    /\ phase[c] \in {"done", "lost"}
    /\ phase' = [phase EXCEPT ![c] = "returned"]
    /\ nest' = Leave(t)
    /\ UNCHANGED gone

Next ==
    \/ \E t \in Threads, c \in Calls : Call(t, c) \/ Return(t, c)
    \/ \E c \in Calls : Begin(c) \/ End(c)
    \/ \E x \in Threads \cup {Obj[c] : c \in Calls} : Vanish(x)

\* Threads serve, handlers end, and who may return does.
Fairness ==
    /\ \A c \in Calls : WF_vars(Begin(c)) /\ WF_vars(End(c))
    /\ \A t \in Threads, c \in Calls : WF_vars(Return(t, c))

\* What may never happen, and with it what must.
Safe == Init /\ [][Next]_vars

Spec == Safe /\ Fairness
=============================================================================
