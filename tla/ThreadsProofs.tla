--------------------------- MODULE ThreadsProofs ----------------------------
(***************************************************************************)
(* Proofs about Threads, for any threads, calls and objects.               *)
(***************************************************************************)
EXTENDS Threads, QueueLemmas

\* What the loop's frame may be at, and a frame of Send; all but the top
\* frame are in a handler.
LoopPcs == {"recv", "pop", "serve", "ready", "next", "queue", "dispatch", "wait",
            "io", "ended", "gone"}
SendPcs == {"push", "wake", "test", "recv", "pop", "serve", "ready", "next", "wait"}
Below   == {"serve", "dispatch", "io"}

Entries == Calls \X Threads
Frames  == [call : Calls \cup {None}, pc : LoopPcs \cup SendPcs, waited : BOOLEAN,
            smsg : Entries \cup {None}]
States  == [stack : Seq(Frames), sendlist : Seq(Entries), has_sends : BOOLEAN,
            fStop : BOOLEAN, signaled : BOOLEAN, fWait : BOOLEAN, msgq : Nat]
Phases  == {"new", "open", "done", "cleared", "returned", "refused"}

\* A stack of t: the loop, and above it the Sends to other threads.
StackInv(s, t) ==
    /\ s \in Seq(Frames) /\ s # <<>>
    /\ s[1].call = None /\ ~s[1].waited /\ s[1].pc \in LoopPcs
    /\ \A i \in DOMAIN s : i > 1 => /\ s[i].call \in Calls /\ To[s[i].call] # t
                                    /\ s[i].pc \in SendPcs
    /\ \A i \in DOMAIN s : i < Len(s) => s[i].pc \in Below
    /\ \A i \in DOMAIN s : s[i].pc \in {"serve", "ready"} => s[i].smsg \in Entries

TypeInv(T, S) ==
    /\ T \in [Threads -> States]
    /\ S \in [Calls -> Phases]
    /\ \A t \in Threads : StackInv(T[t].stack, t)

\* Of a thread in state s: it waits in Send(c), at any depth; it has the entry
\* m in its list; it serves the call of entry m.
Makes(s, c) == \E i \in DOMAIN s.stack : s.stack[i].call = c
Lists(s, m) == \E k \in DOMAIN s.sendlist : s.sendlist[k] = m
Keeps(s, m) == \E i \in DOMAIN s.stack :
                  s.stack[i].pc \in {"serve", "ready"} /\ s.stack[i].smsg = m
Has(s, m)   == Lists(s, m) \/ Keeps(s, m)

\* A call is made by one thread, the one that its entry names; its entry is
\* in the list of its target, which is another thread.
CallInv(T, S) ==
    /\ \A c \in Calls, t, u \in Threads : Makes(T[t], c) /\ Makes(T[u], c) => t = u
    /\ \A c \in Calls, t \in Threads : Makes(T[t], c) => S[c] # "new"
    /\ \A c \in Calls, t, v \in Threads : Has(T[t], <<c, v>>) => S[c] # "new"
    /\ \A c \in Calls, t, u, v \in Threads :
          Has(T[t], <<c, v>>) /\ Makes(T[u], c) => u = v
    /\ \A c \in Calls, t, v \in Threads : Lists(T[t], <<c, v>>) => To[c] = t
    /\ \A c \in Calls, t, v \in Threads : Has(T[t], <<c, v>>) => v # t
    /\ \A t \in Threads : T[t].has_sends \/ T[t].sendlist = <<>>

\* There is a wake-up in the pipe, or there will be before frame i runs
\* again: a frame above it has read one and will put it back.
Awake(s, i) == s.signaled \/ \E j \in DOMAIN s.stack : j > i /\ s.stack[j].waited

Topmost(s)      == s.stack[Len(s.stack)]
Waker(T, c)     == \E u \in Threads : Topmost(T[u]).pc = "wake" /\ Topmost(T[u]).call = c
Server(T, t, c) == \E u \in Threads :
                      Topmost(T[u]).pc = "ready" /\ Topmost(T[u]).smsg = <<c, t>>
IsReady(S, c)   == S[c] \in {"done", "cleared"}

\* Frame i of t has overlooked nothing since it looked: no call, no message,
\* no answer, unless somebody is about to wake it.
Alert(T, S, t, i) ==
    LET f == T[t].stack[i] IN
    /\ f.pc \in {"queue", "wait", "io"} =>
          \A c \in Calls, v \in Threads : Lists(T[t], <<c, v>>) => Waker(T, c)
    /\ i = 1 /\ f.pc \in {"wait", "io"} => T[t].msgq = 0 /\ ~T[t].fStop
    /\ i > 1 /\ f.pc \notin {"push", "wake", "test"} /\ IsReady(S, f.call) =>
          Server(T, t, f.call)

RestInv(T, S, t) ==
    \A i \in DOMAIN T[t].stack : Awake(T[t], i) \/ Alert(T, S, t, i)

Inv(T, S)  == TypeInv(T, S) /\ CallInv(T, S) /\ \A t \in Threads : RestInv(T, S, t)
ThreadsInv == Inv(th, st)

-----------------------------------------------------------------------------
(* Changes of a thread.                                                    *)

\* The frame f in place of the top one.
TopTo(s, f) == [s EXCEPT ![Len(s)] = f]

\* A frame that may take the place of the top one, g.
Replaces(f, g, n) ==
    /\ f \in Frames /\ f.call = g.call
    /\ IF n = 1 THEN f.pc \in LoopPcs /\ ~f.waited ELSE f.pc \in SendPcs
    /\ f.pc \in {"serve", "ready"} => f.smsg \in Entries

\* It leaves a stack.
LEMMA TopKeepsStack ==
    ASSUME NEW t, NEW s, StackInv(s, t), NEW f, Replaces(f, s[Len(s)], Len(s)),
           NEW r, r = TopTo(s, f)
    PROVE  /\ StackInv(r, t) /\ Len(r) = Len(s) /\ DOMAIN r = DOMAIN s
           /\ \A i \in DOMAIN s : i # Len(s) => r[i] = s[i]
           /\ r[Len(s)] = f
<1>1. s \in Seq(Frames) /\ s # <<>> /\ f \in Frames
  BY DEF StackInv, Replaces
<1>2. /\ r \in Seq(Frames) /\ Len(r) = Len(s) /\ DOMAIN r = DOMAIN s /\ r # <<>>
      /\ \A i \in DOMAIN s : i # Len(s) => r[i] = s[i]
      /\ r[Len(s)] = f /\ Len(s) \in DOMAIN s /\ 1 \in DOMAIN s
  BY <1>1 DEF TopTo
<1>3. r[1].call = None /\ ~r[1].waited /\ r[1].pc \in LoopPcs
  BY <1>2 DEF StackInv, Replaces
<1>4. \A i \in DOMAIN r : i > 1 => /\ r[i].call \in Calls /\ To[r[i].call] # t
                                   /\ r[i].pc \in SendPcs
  BY <1>1, <1>2 DEF StackInv, Replaces
<1>5. \A i \in DOMAIN r : i < Len(r) => r[i].pc \in Below
  BY <1>1, <1>2 DEF StackInv
<1>6. \A i \in DOMAIN r : r[i].pc \in {"serve", "ready"} => r[i].smsg \in Entries
  BY <1>1, <1>2 DEF StackInv, Replaces
<1> QED BY <1>2, <1>3, <1>4, <1>5, <1>6 DEF StackInv

\* Everything but the stack.
Frame7(s, r) ==
    /\ r.sendlist = s.sendlist /\ r.has_sends = s.has_sends /\ r.fStop = s.fStop
    /\ r.signaled = s.signaled /\ r.fWait = s.fWait /\ r.msgq = s.msgq

\* Goes and Holds change the top frame.
LEMMA GoesIs ==
    ASSUME NEW s \in States, s.stack # <<>>, NEW p \in LoopPcs \cup SendPcs,
           NEW r, r = Goes(s, p)
    PROVE  /\ r \in States /\ Frame7(s, r)
           /\ r.stack = TopTo(s.stack, [Topmost(s) EXCEPT !.pc = p])
<1>1. s.stack \in Seq(Frames) /\ Len(s.stack) \in DOMAIN s.stack
  BY DEF States
<1>f. PICK f : f = [Topmost(s) EXCEPT !.pc = p]
  OBVIOUS
<1>2. Topmost(s) \in Frames
  BY <1>1 DEF Topmost
<1>3. f \in Frames
  BY <1>f, <1>2 DEF Frames
<1>k. PICK k : k = TopTo(s.stack, f)
  OBVIOUS
<1>4. k \in Seq(Frames)
  BY <1>1, <1>3, <1>k DEF TopTo
<1>5. r = [s EXCEPT !.stack = k]
  BY <1>k, <1>f DEF Goes, TopTo, Topmost
<1>6. r \in States /\ r.stack = k
  BY <1>4, <1>5 DEF States
<1>7. Frame7(s, r)
  BY <1>5 DEF Frame7, States
<1> QED BY <1>6, <1>7, <1>k, <1>f

LEMMA HoldsIs ==
    ASSUME NEW s \in States, s.stack # <<>>, NEW m \in Entries \cup {None},
           NEW r, r = Holds(s, m)
    PROVE  /\ r \in States /\ Frame7(s, r)
           /\ r.stack = TopTo(s.stack, [Topmost(s) EXCEPT !.smsg = m])
<1>1. s.stack \in Seq(Frames) /\ Len(s.stack) \in DOMAIN s.stack
  BY DEF States
<1>f. PICK f : f = [Topmost(s) EXCEPT !.smsg = m]
  OBVIOUS
<1>2. Topmost(s) \in Frames
  BY <1>1 DEF Topmost
<1>3. f \in Frames
  BY <1>f, <1>2 DEF Frames
<1>k. PICK k : k = TopTo(s.stack, f)
  OBVIOUS
<1>4. k \in Seq(Frames)
  BY <1>1, <1>3, <1>k DEF TopTo
<1>5. r = [s EXCEPT !.stack = k]
  BY <1>k, <1>f DEF Holds, TopTo, Topmost
<1>6. r \in States /\ r.stack = k
  BY <1>4, <1>5 DEF States
<1>7. Frame7(s, r)
  BY <1>5 DEF Frame7, States
<1> QED BY <1>6, <1>7, <1>k, <1>f

-----------------------------------------------------------------------------
(* What keeps the invariant.                                               *)

\* Nobody makes or has a call that was not made or had.
Fewer(T, S, U, R) ==
    /\ \A t \in Threads, c \in Calls : Makes(U[t], c) => Makes(T[t], c)
    /\ \A t \in Threads, m \in Entries : Has(U[t], m) => Has(T[t], m)
    /\ \A t \in Threads, m \in Entries : Lists(U[t], m) => Lists(T[t], m)
    /\ \A t \in Threads : U[t].has_sends \/ U[t].sendlist = <<>>
    /\ \A c \in Calls : R[c] = "new" => S[c] = "new"

LEMMA CallsKept ==
    ASSUME NEW T, NEW S, CallInv(T, S), NEW U, NEW R, Fewer(T, S, U, R)
    PROVE  CallInv(U, R)
<1>1. \A c \in Calls, v \in Threads : <<c, v>> \in Entries
  BY DEF Entries
<1>2. \A c \in Calls, t, u \in Threads : Makes(U[t], c) /\ Makes(U[u], c) => t = u
  BY DEF CallInv, Fewer
<1>3. \A c \in Calls, t \in Threads : Makes(U[t], c) => R[c] # "new"
  BY DEF CallInv, Fewer
<1>4. \A c \in Calls, t, v \in Threads : Has(U[t], <<c, v>>) => R[c] # "new"
  BY <1>1 DEF CallInv, Fewer
<1>5. \A c \in Calls, t, u, v \in Threads : Has(U[t], <<c, v>>) /\ Makes(U[u], c) => u = v
  BY <1>1 DEF CallInv, Fewer
<1>6. \A c \in Calls, t, v \in Threads : Lists(U[t], <<c, v>>) => To[c] = t
  BY <1>1 DEF CallInv, Fewer
<1>7. \A c \in Calls, t, v \in Threads : Has(U[t], <<c, v>>) => v # t
  BY <1>1 DEF CallInv, Fewer
<1>8. \A t \in Threads : U[t].has_sends \/ U[t].sendlist = <<>>
  BY DEF Fewer
<1> QED BY <1>2, <1>3, <1>4, <1>5, <1>6, <1>7, <1>8 DEF CallInv

\* Changes around the stacks: entries go, wake-ups come; new messages, stops
\* and answers come with a wake-up.
Around(T, S, U, R) ==
    /\ TypeInv(T, S) /\ U \in [Threads -> States] /\ R \in [Calls -> Phases]
    /\ \A t \in Threads :
          /\ U[t].stack = T[t].stack
          /\ T[t].signaled => U[t].signaled
          /\ U[t].signaled \/ (U[t].msgq = T[t].msgq /\ U[t].fStop = T[t].fStop)
          /\ U[t].has_sends \/ U[t].sendlist = <<>>
          /\ \A m \in Entries : Lists(U[t], m) => Lists(T[t], m)
          /\ \A c \in Calls : IsReady(R, c) /\ Makes(T[t], c) =>
                IsReady(S, c) \/ U[t].signaled
    /\ \A c \in Calls : R[c] = "new" => S[c] = "new"

LEMMA AroundKeeps ==
    ASSUME NEW T, NEW S, NEW U, NEW R, Inv(T, S), Around(T, S, U, R)
    PROVE  Inv(U, R)
<1>1. TypeInv(U, R)
  BY DEF Around, TypeInv
<1>2. /\ \A t \in Threads : U[t].stack = T[t].stack
      /\ \A t \in Threads, c \in Calls : Makes(U[t], c) => Makes(T[t], c)
      /\ \A t \in Threads, m \in Entries : Lists(U[t], m) => Lists(T[t], m)
      /\ \A t \in Threads, m \in Entries : Keeps(U[t], m) => Keeps(T[t], m)
  <2>1. \A t \in Threads : U[t].stack = T[t].stack
    BY DEF Around
  <2>2. \A t \in Threads, m \in Entries : Lists(U[t], m) => Lists(T[t], m)
    BY DEF Around
  <2> QED BY <2>1, <2>2 DEF Makes, Keeps
<1>3. CallInv(U, R)
  <2>1. \A t \in Threads, m \in Entries : Has(U[t], m) => Has(T[t], m)
    BY <1>2 DEF Has
  <2>2. \A t \in Threads : U[t].has_sends \/ U[t].sendlist = <<>>
    BY DEF Around
  <2>3. \A c \in Calls : R[c] = "new" => S[c] = "new"
    BY DEF Around
  <2>4. CallInv(T, S)
    BY DEF Inv
  <2>5. Fewer(T, S, U, R)
    BY <1>2, <2>1, <2>2, <2>3 DEF Fewer
  <2> QED BY <2>4, <2>5, CallsKept
<1>4. /\ \A c : Waker(U, c) <=> Waker(T, c)
      /\ \A t, c : Server(U, t, c) <=> Server(T, t, c)
  BY <1>2 DEF Waker, Server, Topmost
<1>5. ASSUME NEW t \in Threads PROVE RestInv(U, R, t)
  <2>1. SUFFICES ASSUME NEW i \in DOMAIN U[t].stack, ~Awake(U[t], i) PROVE Alert(U, R, t, i)
    BY DEF RestInv
  <2>2. i \in DOMAIN T[t].stack /\ U[t].stack[i] = T[t].stack[i] /\ ~Awake(T[t], i)
        /\ ~U[t].signaled
    <3>1. T[t].signaled => U[t].signaled
      BY DEF Around
    <3> QED BY <1>2, <2>1, <3>1 DEF Awake
  <2>3. Alert(T, S, t, i)
    BY <2>2 DEF Inv, RestInv
  <2>4. U[t].msgq = T[t].msgq /\ U[t].fStop = T[t].fStop
    BY <2>2 DEF Around
  <2>5. i > 1 => T[t].stack[i].call \in Calls /\ Makes(T[t], T[t].stack[i].call)
    BY <2>2 DEF Inv, TypeInv, StackInv, Makes
  <2>6. i > 1 /\ IsReady(R, T[t].stack[i].call) => IsReady(S, T[t].stack[i].call)
    BY <2>2, <2>5 DEF Around
  <2>7. \A c \in Calls, v \in Threads : Lists(U[t], <<c, v>>) => Lists(T[t], <<c, v>>)
    BY <1>2 DEF Entries
  <2> QED BY <1>4, <2>2, <2>3, <2>4, <2>6, <2>7 DEF Alert
<1> QED BY <1>1, <1>3, <1>5 DEF Inv

\* What t knows at the pc p that it goes on with: before it looks at its
\* queue, waits or serves a socket it has emptied its list; before it waits in
\* the loop its queue, and it is not stopped; it waits in Send for a call that
\* was not ready.  A wake-up is kept until everything is looked at again.
Minds(T, S, r, t, p) ==
    LET s == T[t]
        g == Topmost(T[t])
        n == Len(T[t].stack)
    IN  /\ p \in {"queue", "wait", "io"} =>
              \/ r.sendlist = <<>>
              \/ g.pc \in {"queue", "wait", "io"} /\ r.sendlist = s.sendlist
        /\ n = 1 /\ p \in {"wait", "io"} =>
              \/ r.msgq = 0 /\ ~r.fStop
              \/ g.pc \in {"wait", "io"} /\ r.msgq = s.msgq /\ r.fStop = s.fStop
        /\ n > 1 /\ p \notin {"push", "wake", "test"} =>
              g.pc \notin {"push", "wake", "test"} \/ ~IsReady(S, g.call)
        /\ s.signaled => r.signaled \/ p = "test" \/ (n = 1 /\ p = "recv")

\* Thread t goes on with the frame f: it takes up and wakes, but overlooks
\* nothing.
Own(T, S, U, R, t, f) ==
    LET s == T[t]
        r == U[t]
        g == Topmost(T[t])
        n == Len(T[t].stack)
    IN  /\ U \in [Threads -> States] /\ R \in [Calls -> Phases]
        /\ \A u \in Threads : u # t => U[u] = T[u]
        /\ r.stack = TopTo(s.stack, f) /\ Replaces(f, g, n)
        /\ \A m \in Entries : Lists(r, m) => Lists(s, m)
        /\ f.pc \in {"serve", "ready"} => Has(s, f.smsg)
        /\ r.has_sends \/ r.sendlist = <<>>
        /\ \A c \in Calls : R[c] = "new" => S[c] = "new"
        /\ g.pc = "wake" => \A u, v \in Threads : Lists(U[u], <<g.call, v>>) => U[u].signaled
        /\ g.pc = "ready" => (f.pc = "ready" /\ f.smsg = g.smsg) \/ U[g.smsg[2]].signaled
        /\ \A c \in Calls : IsReady(R, c) =>
              \/ IsReady(S, c)
              \/ f.pc = "ready" /\ \E v \in Threads : f.smsg = <<c, v>>
        /\ s.signaled /\ n # 1 => r.signaled \/ f.waited
        /\ g.waited => f.waited
        /\ n # 1 => r.msgq = s.msgq /\ r.fStop = s.fStop
        /\ Minds(T, S, r, t, f.pc)

LEMMA OwnKeeps ==
    ASSUME NEW T, NEW S, NEW U, NEW R, Inv(T, S), NEW t \in Threads, NEW f,
           Own(T, S, U, R, t, f)
    PROVE  Inv(U, R)
<1>n. PICK n : n = Len(T[t].stack)
  OBVIOUS
<1>g. PICK g : g = Topmost(T[t])
  OBVIOUS
<1>0. /\ StackInv(T[t].stack, t) /\ T[t].stack \in Seq(Frames) /\ n \in Nat \ {0}
      /\ n \in DOMAIN T[t].stack /\ g = T[t].stack[n] /\ DOMAIN T[t].stack = 1 .. n
  BY <1>n, <1>g DEF Inv, TypeInv, StackInv, Topmost
<1>1. /\ StackInv(U[t].stack, t) /\ Len(U[t].stack) = n
      /\ DOMAIN U[t].stack = DOMAIN T[t].stack
      /\ \A i \in DOMAIN T[t].stack : i # n => U[t].stack[i] = T[t].stack[i]
      /\ U[t].stack[n] = f
  <2>1. U[t].stack = TopTo(T[t].stack, f) /\ Replaces(f, g, n)
    BY <1>n, <1>g DEF Own
  <2> QED BY <1>0, <1>n, <2>1, TopKeepsStack
<1>2. \A u \in Threads : u # t => U[u] = T[u]
  BY DEF Own
<1>3. TypeInv(U, R)
  <2>1. \A u \in Threads : StackInv(U[u].stack, u)
    BY <1>1, <1>2 DEF Inv, TypeInv
  <2> QED BY <2>1 DEF TypeInv, Own
<1>4. Topmost(U[t]) = f
  BY <1>1 DEF Topmost
<1>5. f.call = g.call /\ (f.pc \in {"serve", "ready"} => Has(T[t], f.smsg))
  BY <1>g DEF Own, Replaces
<1>6. \A u \in Threads, c \in Calls : Makes(U[u], c) => Makes(T[u], c)
  <2>1. \A c \in Calls : Makes(U[t], c) => Makes(T[t], c)
    BY <1>0, <1>1, <1>5 DEF Makes
  <2> QED BY <1>2, <2>1
<1>7. \A u \in Threads, m \in Entries : Lists(U[u], m) => Lists(T[u], m)
  BY <1>2 DEF Own
<1>8. \A u \in Threads, m \in Entries : Has(U[u], m) => Has(T[u], m)
  <2>1. ASSUME NEW m \in Entries, Has(U[t], m) PROVE Has(T[t], m)
    <3>1. CASE Lists(U[t], m)
      BY <1>7, <3>1 DEF Has
    <3>2. CASE Keeps(U[t], m)
      <4>1. PICK i \in DOMAIN U[t].stack :
                U[t].stack[i].pc \in {"serve", "ready"} /\ U[t].stack[i].smsg = m
        BY <3>2 DEF Keeps
      <4>2. CASE i = n
        BY <1>1, <1>5, <4>1, <4>2
      <4>3. CASE i # n
        BY <1>1, <4>1, <4>3 DEF Has, Keeps
      <4> QED BY <4>2, <4>3
    <3> QED BY <2>1, <3>1, <3>2 DEF Has
  <2> QED BY <1>2, <2>1
<1>9. CallInv(U, R)
  <2>2. \A u \in Threads : U[u].has_sends \/ U[u].sendlist = <<>>
    BY <1>2 DEF Own, Inv, CallInv
  <2>3. \A c \in Calls : R[c] = "new" => S[c] = "new"
    BY DEF Own
  <2>4. CallInv(T, S)
    BY DEF Inv
  <2>5. Fewer(T, S, U, R)
    BY <1>6, <1>7, <1>8, <2>2, <2>3 DEF Fewer
  <2> QED BY <2>4, <2>5, CallsKept
<1>10. ASSUME NEW u \in Threads, ~U[u].signaled, NEW c \in Calls, NEW v \in Threads,
              Lists(U[u], <<c, v>>), Waker(T, c)
       PROVE  Waker(U, c)
  <2>1. PICK w \in Threads : Topmost(T[w]).pc = "wake" /\ Topmost(T[w]).call = c
    BY <1>10 DEF Waker
  <2>2. w # t
    <3>1. g.pc = "wake" => \A y, z \in Threads : Lists(U[y], <<g.call, z>>) => U[y].signaled
      BY <1>g DEF Own
    <3> QED BY <1>10, <1>g, <2>1, <3>1
  <2> QED BY <1>2, <2>1, <2>2 DEF Waker
<1>11. ASSUME NEW u \in Threads, ~U[u].signaled, NEW c \in Calls, Makes(T[u], c),
              IsReady(R, c), IsReady(S, c) => Server(T, u, c)
       PROVE  Server(U, u, c)
  <2>1. CASE IsReady(S, c)
    <3>1. PICK w \in Threads : Topmost(T[w]).pc = "ready" /\ Topmost(T[w]).smsg = <<c, u>>
      BY <1>11, <2>1 DEF Server
    <3>2. CASE w # t
      BY <1>2, <3>1, <3>2 DEF Server
    <3>3. CASE w = t
      <4>1. g.pc = "ready" /\ g.smsg = <<c, u>>
        BY <1>g, <3>1, <3>3
      <4>2. (f.pc = "ready" /\ f.smsg = g.smsg) \/ U[g.smsg[2]].signaled
        BY <1>g, <4>1 DEF Own
      <4> QED BY <1>4, <1>11, <4>1, <4>2 DEF Server
    <3> QED BY <3>2, <3>3
  <2>2. CASE ~IsReady(S, c)
    <3>1. f.pc = "ready" /\ \E v \in Threads : f.smsg = <<c, v>>
      BY <1>11, <2>2 DEF Own
    <3>2. PICK v \in Threads : f.smsg = <<c, v>>
      BY <3>1
    <3>3. Has(T[t], <<c, v>>)
      BY <1>5, <3>1, <3>2
    <3>4. u = v
      BY <1>11, <3>3 DEF Inv, CallInv
    <3> QED BY <1>4, <3>1, <3>2, <3>4 DEF Server
  <2> QED BY <2>1, <2>2
<1>12. \A u \in Threads, c \in Calls, v \in Threads : Lists(U[u], <<c, v>>) => Lists(T[u], <<c, v>>)
  BY <1>7 DEF Entries
<1>13. ASSUME NEW u \in Threads, NEW i \in DOMAIN U[u].stack, ~(u = t /\ i = n), ~Awake(U[u], i)
       PROVE  Alert(U, R, u, i)
  <2>1. /\ i \in DOMAIN T[u].stack /\ U[u].stack[i] = T[u].stack[i] /\ ~U[u].signaled
    BY <1>1, <1>2, <1>13 DEF Awake
  <2>2. ~Awake(T[u], i)
    <3>1. CASE u # t
      BY <1>2, <1>13, <3>1
    <3>2. CASE u = t
      <4>1. i < n
        BY <1>0, <1>13, <2>1, <3>2
      <4>2. n # 1
        BY <1>0, <2>1, <3>2, <4>1
      <4>3. ~f.waited
        BY <1>0, <1>1, <1>13, <3>2, <4>1 DEF Awake
      <4>4. ~T[t].signaled /\ ~g.waited
        BY <1>n, <1>g, <2>1, <3>2, <4>2, <4>3 DEF Own
      <4>5. \A j \in DOMAIN T[t].stack : j > i /\ j # n => ~T[t].stack[j].waited
        BY <1>1, <1>13, <3>2 DEF Awake
      <4> QED BY <1>0, <3>2, <4>4, <4>5 DEF Awake
    <3> QED BY <3>1, <3>2
  <2>3. Alert(T, S, u, i)
    BY <2>1, <2>2 DEF Inv, RestInv
  <2>4. i = 1 => U[u].msgq = T[u].msgq /\ U[u].fStop = T[u].fStop
    BY <1>2, <1>13, <1>n DEF Own
  <2>5. i > 1 => T[u].stack[i].call \in Calls /\ Makes(T[u], T[u].stack[i].call)
    BY <2>1 DEF Inv, TypeInv, StackInv, Makes
  <2>6. T[u].stack[i].pc \in {"queue", "wait", "io"} =>
          \A c \in Calls, v \in Threads : Lists(U[u], <<c, v>>) => Waker(U, c)
    BY <1>10, <1>12, <2>1, <2>3 DEF Alert
  <2>7. i = 1 /\ T[u].stack[i].pc \in {"wait", "io"} => U[u].msgq = 0 /\ ~U[u].fStop
    BY <2>3, <2>4 DEF Alert
  <2>8. i > 1 /\ T[u].stack[i].pc \notin {"push", "wake", "test"} /\ IsReady(R, T[u].stack[i].call)
          => Server(U, u, T[u].stack[i].call)
    BY <1>11, <2>1, <2>3, <2>5 DEF Alert
  <2> QED BY <2>1, <2>6, <2>7, <2>8 DEF Alert
<1>14. ASSUME ~Awake(U[t], n) PROVE Alert(U, R, t, n)
  <2>1. ~U[t].signaled
    BY <1>14 DEF Awake
  <2>2. Minds(T, S, U[t], t, f.pc)
    BY DEF Own
  <2>3. f.pc \notin {"test"} /\ ~(n = 1 /\ f.pc = "recv") => Alert(T, S, t, n)
    <3>1. \A j \in DOMAIN T[t].stack : ~(j > n)
      BY <1>0
    <3>2. Awake(T[t], n) => T[t].signaled
      BY <3>1 DEF Awake
    <3>3. T[t].signaled => U[t].signaled \/ f.pc = "test" \/ (n = 1 /\ f.pc = "recv")
      BY <1>n, <2>2 DEF Minds
    <3>4. Awake(T[t], n) \/ Alert(T, S, t, n)
      BY <1>0 DEF Inv, RestInv
    <3> QED BY <2>1, <3>2, <3>3, <3>4
  <2>4. ASSUME f.pc \in {"queue", "wait", "io"}, NEW c \in Calls, NEW v \in Threads,
               Lists(U[t], <<c, v>>)
        PROVE  Waker(U, c)
    <3>1. U[t].sendlist # <<>>
      BY <2>4 DEF Lists
    <3>2. g.pc \in {"queue", "wait", "io"}
      BY <1>g, <2>2, <2>4, <3>1 DEF Minds
    <3>3. Waker(T, c)
      BY <1>0, <1>12, <2>3, <2>4, <3>2 DEF Alert
    <3> QED BY <1>10, <2>1, <2>4, <3>3
  <2>5. n = 1 /\ f.pc \in {"wait", "io"} => U[t].msgq = 0 /\ ~U[t].fStop
    <3>1. n = 1 /\ f.pc \in {"wait", "io"} =>
              \/ U[t].msgq = 0 /\ ~U[t].fStop
              \/ g.pc \in {"wait", "io"} /\ U[t].msgq = T[t].msgq /\ U[t].fStop = T[t].fStop
      BY <1>n, <1>g, <2>2 DEF Minds
    <3> QED BY <1>0, <2>3, <3>1 DEF Alert
  <2>6. ASSUME n > 1, f.pc \notin {"push", "wake", "test"}, IsReady(R, f.call)
        PROVE  Server(U, t, f.call)
    <3>1. g.call \in Calls /\ Makes(T[t], g.call)
      BY <1>0, <2>6 DEF StackInv, Makes
    <3>2. g.pc \notin {"push", "wake", "test"} \/ ~IsReady(S, g.call)
      BY <1>n, <1>g, <2>2, <2>6 DEF Minds
    <3>3. IsReady(S, g.call) => Server(T, t, g.call)
      BY <1>0, <2>3, <2>6, <3>2 DEF Alert
    <3> QED BY <1>5, <1>11, <2>1, <2>6, <3>1, <3>3
  <2> QED BY <1>1, <2>4, <2>5, <2>6 DEF Alert
<1>15. \A u \in Threads : RestInv(U, R, u)
  BY <1>13, <1>14 DEF RestInv
<1> QED BY <1>3, <1>9, <1>15 DEF Inv

-----------------------------------------------------------------------------
(* The steps.                                                              *)

\* What the invariant says of one thread.
LEMMA OfThread ==
    ASSUME Inv(th, st), NEW t \in Threads
    PROVE  /\ th \in [Threads -> States] /\ st \in [Calls -> Phases]
           /\ th[t] \in States /\ th[t].stack # <<>> /\ th[t].stack \in Seq(Frames)
           /\ StackInv(th[t].stack, t)
           /\ Top(t) = Topmost(th[t]) /\ Topmost(th[t]) \in Frames
           /\ InLoop(t) <=> Len(th[t].stack) = 1
           /\ Len(th[t].stack) \in Nat \ {0}
           /\ Topmost(th[t]) = th[t].stack[Len(th[t].stack)]
<1>1. /\ th \in [Threads -> States] /\ st \in [Calls -> Phases]
      /\ StackInv(th[t].stack, t)
  BY DEF Inv, TypeInv
<1>2. th[t] \in States
  BY <1>1
<1>3. th[t].stack # <<>> /\ th[t].stack \in Seq(Frames)
  BY <1>1 DEF StackInv
<1>4. Top(t) = Topmost(th[t])
  BY DEF Top, Topmost, Last
<1>5. Len(th[t].stack) \in DOMAIN th[t].stack /\ Len(th[t].stack) \in Nat \ {0}
  BY <1>3
<1>6. Topmost(th[t]) \in Frames
  BY <1>3, <1>5 DEF Topmost
<1>7. InLoop(t) <=> Len(th[t].stack) = 1
  <2>1. PICK n \in Nat \ {0} : n = Len(th[t].stack) /\ n \in DOMAIN th[t].stack
    BY <1>5
  <2>2. (n > 1 => th[t].stack[n].call \in Calls) /\ th[t].stack[1].call = None
    BY <1>1, <2>1 DEF StackInv
  <2>3. Top(t).call = th[t].stack[n].call
    BY <1>4, <2>1 DEF Topmost
  <2>4. None \notin Calls
    BY ThreadsAssumption
  <2>5. CASE n = 1
    BY <2>1, <2>2, <2>3, <2>5 DEF InLoop
  <2>6. CASE n # 1
    <3>1. n > 1
      BY <2>6
    <3> QED BY <2>1, <2>2, <2>3, <2>4, <2>6, <3>1 DEF InLoop
  <2> QED BY <2>5, <2>6
<1> QED BY <1>1, <1>2, <1>3, <1>4, <1>5, <1>6, <1>7 DEF Topmost

\* The top frame with another pc, and what it was serving.
To0(g, p)    == [g EXCEPT !.pc = p]
GoesOn(s, r, p) ==
    /\ r \in States /\ r.stack = TopTo(s.stack, To0(Topmost(s), p))
    /\ r.sendlist = s.sendlist /\ (r.has_sends = s.has_sends \/ r.sendlist = <<>>)
    /\ r.fStop = s.fStop /\ r.signaled = s.signaled
    /\ Len(s.stack) # 1 => r.msgq = s.msgq

\* A frame with another pc replaces the top one.
LEMMA PcReplaces ==
    ASSUME NEW t \in Threads, NEW s, StackInv(s, t), NEW p,
           Len(s) = 1 => p \in LoopPcs, Len(s) # 1 => p \in SendPcs,
           p \in {"serve", "ready"} => s[Len(s)].smsg \in Entries,
           NEW f, f = To0(s[Len(s)], p)
    PROVE  /\ Replaces(f, s[Len(s)], Len(s)) /\ f.pc = p
           /\ f.smsg = s[Len(s)].smsg /\ f.waited = s[Len(s)].waited
           /\ f.call = s[Len(s)].call
<1>1. s[Len(s)] \in Frames
  BY DEF StackInv
<1>2. p \in LoopPcs \cup SendPcs
  OBVIOUS
<1>3. f \in Frames /\ f.pc = p /\ f.smsg = s[Len(s)].smsg
      /\ f.waited = s[Len(s)].waited /\ f.call = s[Len(s)].call
  BY <1>1, <1>2 DEF To0, Frames
<1>4. Len(s) = 1 => ~f.waited
  BY <1>3 DEF StackInv
<1> QED BY <1>3, <1>4 DEF Replaces

\* A step that takes no call and wakes nobody.
LEMMA GoKeeps ==
    ASSUME NEW t \in Threads, Inv(th, st), NEW p, NEW r, GoesOn(th[t], r, p),
           Len(th[t].stack) = 1 => p \in LoopPcs, Len(th[t].stack) # 1 => p \in SendPcs,
           p \notin {"serve", "ready"}, Top(t).pc \notin {"wake", "ready"},
           Minds(th, st, r, t, p)
    PROVE  Inv([th EXCEPT ![t] = r], st)
<1>u. PICK U : U = [th EXCEPT ![t] = r]
  OBVIOUS
<1>0. /\ th \in [Threads -> States] /\ st \in [Calls -> Phases]
      /\ StackInv(th[t].stack, t) /\ Top(t) = Topmost(th[t])
      /\ Topmost(th[t]) = th[t].stack[Len(th[t].stack)]
  BY OfThread
<1>1. PICK f : f = To0(Topmost(th[t]), p)
  OBVIOUS
<1>2. /\ Replaces(f, Topmost(th[t]), Len(th[t].stack)) /\ f.pc = p
      /\ f.waited = Topmost(th[t]).waited
  BY <1>0, <1>1, PcReplaces
<1>3. U[t] = r /\ U \in [Threads -> States] /\ \A u \in Threads : u # t => U[u] = th[u]
  BY <1>0, <1>u DEF GoesOn
<1>4. r.has_sends \/ r.sendlist = <<>>
  BY DEF GoesOn, Inv, CallInv
<1>5. \A m \in Entries : Lists(r, m) => Lists(th[t], m)
  BY DEF GoesOn, Lists
<1>6. /\ r.stack = TopTo(th[t].stack, f)
      /\ th[t].signaled => r.signaled
      /\ Len(th[t].stack) # 1 => r.msgq = th[t].msgq /\ r.fStop = th[t].fStop
  BY SMTT(40), <1>1 DEF GoesOn
<1>7. Own(th, st, U, st, t, f)
  BY <1>0, <1>1, <1>2, <1>3, <1>4, <1>5, <1>6 DEF Own
<1> QED BY <1>u, <1>7, OwnKeeps

\* Goes is such a step.
LEMMA GoesGoesOn ==
    ASSUME NEW t \in Threads, Inv(th, st), NEW p \in LoopPcs \cup SendPcs, NEW r,
           r = Goes(th[t], p)
    PROVE  GoesOn(th[t], r, p) /\ Frame7(th[t], r)
<1>1. th[t] \in States /\ th[t].stack # <<>>
  BY OfThread
<1>2. r \in States /\ Frame7(th[t], r) /\ r.stack = TopTo(th[t].stack, To0(Topmost(th[t]), p))
  BY <1>1, GoesIs DEF To0
<1> QED BY <1>2 DEF GoesOn, Frame7

LEMMA GoesOnFields ==
    ASSUME NEW s \in States, NEW r, NEW p, GoesOn(s, r, p)
    PROVE  /\ GoesOn(s, [r EXCEPT !.fWait = TRUE], p)
           /\ s.sendlist = <<>> => GoesOn(s, [r EXCEPT !.has_sends = FALSE], p)
           /\ Len(s.stack) = 1 => \A k \in Nat : GoesOn(s, [r EXCEPT !.msgq = k], p)
<1>0. r \in States
  BY DEF GoesOn
<1>1. PICK a : a = [r EXCEPT !.fWait = TRUE]
  OBVIOUS
<1>2. a \in States
  BY <1>0, <1>1 DEF States
<1>3. GoesOn(s, a, p)
  BY <1>0, <1>1, <1>2 DEF GoesOn, States
<1>4. ASSUME s.sendlist = <<>> PROVE GoesOn(s, [r EXCEPT !.has_sends = FALSE], p)
  <2>1. PICK b : b = [r EXCEPT !.has_sends = FALSE]
    OBVIOUS
  <2>2. b \in States
    BY <1>0, <2>1 DEF States
  <2> QED BY <1>0, <1>4, <2>1, <2>2 DEF GoesOn, States
<1>5. ASSUME Len(s.stack) = 1, NEW k \in Nat PROVE GoesOn(s, [r EXCEPT !.msgq = k], p)
  <2>1. PICK b : b = [r EXCEPT !.msgq = k]
    OBVIOUS
  <2>2. b \in States
    BY <1>0, <2>1 DEF States
  <2> QED BY <1>0, <1>5, <2>1, <2>2 DEF GoesOn, States
<1> QED BY <1>1, <1>3, <1>4, <1>5

\* Where the top frame may go, by its stack.
LEMMA PcOf ==
    ASSUME Inv(th, st), NEW t \in Threads
    PROVE  /\ Len(th[t].stack) # 1 => Top(t).pc \in SendPcs
           /\ Len(th[t].stack) = 1 => Top(t).pc \in LoopPcs
           /\ \A p \in {"recv", "pop", "wait", "serve", "ready", "next"} :
                 p \in LoopPcs \cap SendPcs
<1>1. /\ StackInv(th[t].stack, t) /\ Top(t) = th[t].stack[Len(th[t].stack)]
      /\ Len(th[t].stack) \in Nat \ {0} /\ th[t].stack \in Seq(Frames)
  BY OfThread
<1>2. PICK n \in Nat \ {0} : n = Len(th[t].stack)
  BY <1>1
<1>3. n \in DOMAIN th[t].stack /\ Top(t) = th[t].stack[n] /\ (n # 1 => n > 1)
  <2>1. n \in DOMAIN th[t].stack
    BY <1>1, <1>2
  <2>2. n # 1 => n > 1
    OBVIOUS
  <2> QED BY <1>1, <1>2, <2>1, <2>2
<1>4. /\ n # 1 => Top(t).pc \in SendPcs
      /\ n = 1 => Top(t).pc \in LoopPcs
  BY <1>1, <1>3 DEF StackInv
<1> QED BY <1>2, <1>4 DEF LoopPcs, SendPcs

LEMMA EndDispatchKeeps ==
    ASSUME Inv(th, st), NEW t \in Threads, EndDispatch(t) PROVE Inv(th', st')
<1>1. PICK r : r = Goes(th[t], "recv")
  OBVIOUS
<1>2. th' = [th EXCEPT ![t] = r] /\ st' = st /\ Top(t).pc = "dispatch"
  BY <1>1 DEF EndDispatch, Step, At
<1>3. /\ GoesOn(th[t], r, "recv") /\ "recv" \in LoopPcs /\ "recv" \in SendPcs
      /\ "recv" \notin {"serve", "ready"} /\ Top(t).pc \notin {"wake", "ready"}
  BY <1>1, <1>2, GoesGoesOn DEF LoopPcs, SendPcs
<1>4. Minds(th, st, r, t, "recv")
  BY <1>2, <1>3, OfThread DEF Minds, GoesOn
<1>5. Inv([th EXCEPT ![t] = r], st)
  BY <1>3, <1>4, GoKeeps
<1> QED BY <1>2, <1>5

LEMMA ServeSocketKeeps ==
    ASSUME Inv(th, st), NEW t \in Threads, ServeSocket(t) PROVE Inv(th', st')
<1>1. PICK r : r = Goes(th[t], "io")
  OBVIOUS
<1>2. /\ th' = [th EXCEPT ![t] = r] /\ st' = st /\ Top(t).pc = "wait"
      /\ Len(th[t].stack) = 1
  BY <1>1, OfThread DEF ServeSocket, Step, At
<1>3. /\ GoesOn(th[t], r, "io") /\ "io" \in LoopPcs
      /\ "io" \notin {"serve", "ready"} /\ Top(t).pc \notin {"wake", "ready"}
  BY <1>1, <1>2, GoesGoesOn DEF LoopPcs
<1>4. Minds(th, st, r, t, "io")
  <2>1. Topmost(th[t]).pc = "wait"
    BY <1>2, OfThread
  <2>2. Frame7(th[t], r)
    BY <1>1, GoesGoesOn DEF LoopPcs
  <2> QED BY <1>2, <2>1, <2>2 DEF Minds, Frame7
<1>5. Inv([th EXCEPT ![t] = r], st)
  BY <1>2, <1>3, <1>4, GoKeeps
<1> QED BY <1>2, <1>5

LEMMA EndSocketKeeps ==
    ASSUME Inv(th, st), NEW t \in Threads, EndSocket(t) PROVE Inv(th', st')
<1>p. PICK p \in {"wait", "recv"} : p = IF th[t].fWait THEN "wait" ELSE "recv"
  OBVIOUS
<1>1. PICK r : r = Goes(th[t], p)
  OBVIOUS
<1>2. th' = [th EXCEPT ![t] = r] /\ st' = st /\ Top(t).pc = "io"
  BY <1>1, <1>p DEF EndSocket, Step, At
<1>3. /\ GoesOn(th[t], r, p) /\ p \in LoopPcs /\ p \in SendPcs
      /\ p \notin {"serve", "ready"} /\ Top(t).pc \notin {"wake", "ready"}
  BY <1>1, <1>2, GoesGoesOn DEF LoopPcs, SendPcs
<1>4. Minds(th, st, r, t, p)
  <2>1. Topmost(th[t]).pc = "io"
    BY <1>2, OfThread
  <2>2. Frame7(th[t], r)
    BY <1>1, GoesGoesOn DEF LoopPcs
  <2> QED BY <2>1, <2>2 DEF Minds, Frame7
<1>5. Inv([th EXCEPT ![t] = r], st)
  BY <1>3, <1>4, GoKeeps
<1> QED BY <1>2, <1>5

LEMMA GetMessageKeeps ==
    ASSUME Inv(th, st), NEW t \in Threads, GetMessage(t) PROVE Inv(th', st')
<1>1. /\ Top(t).pc = "queue" /\ Topmost(th[t]).pc = "queue" /\ st' = st
      /\ th[t] \in States /\ th[t].msgq \in Nat
  BY OfThread DEF GetMessage, At, States
<1>2. Len(th[t].stack) = 1
  BY <1>1, PcOf DEF SendPcs
<1>3. ASSUME NEW p \in {"dispatch", "ended", "wait"}, NEW r, GoesOn(th[t], r, p),
             p = "wait" => r.msgq = 0 /\ ~r.fStop,
             th' = [th EXCEPT ![t] = r]
      PROVE  Inv(th', st')
  <2>1. /\ p \in LoopPcs /\ p \notin {"serve", "ready"} /\ Top(t).pc \notin {"wake", "ready"}
    BY <1>1 DEF LoopPcs
  <2>2. Minds(th, st, r, t, p)
    BY <1>1, <1>2, <1>3 DEF Minds, GoesOn
  <2>3. Inv([th EXCEPT ![t] = r], st)
    BY <1>2, <1>3, <2>1, <2>2, GoKeeps
  <2> QED BY <1>1, <1>3, <2>3
<1>4. CASE th[t].msgq > 0
  <2>1. PICK q : q = Goes(th[t], "dispatch")
    OBVIOUS
  <2>2. GoesOn(th[t], q, "dispatch") /\ q.msgq = th[t].msgq
    BY <2>1, GoesGoesOn DEF LoopPcs, Frame7
  <2>3. PICK r : r = [q EXCEPT !.msgq = q.msgq - 1]
    OBVIOUS
  <2>4. q.msgq - 1 \in Nat
    BY <1>1, <1>4, <2>2
  <2>5. GoesOn(th[t], r, "dispatch")
    BY <1>1, <1>2, <2>2, <2>3, <2>4, GoesOnFields
  <2>6. th' = [th EXCEPT ![t] = r]
    BY <1>4, <2>1, <2>3 DEF GetMessage, Step
  <2> QED BY <1>3, <2>5, <2>6
<1>5. CASE ~(th[t].msgq > 0) /\ th[t].fStop
  <2>1. PICK r : r = Goes(th[t], "ended")
    OBVIOUS
  <2>2. GoesOn(th[t], r, "ended")
    BY <2>1, GoesGoesOn DEF LoopPcs
  <2>3. th' = [th EXCEPT ![t] = r]
    BY <1>5, <2>1 DEF GetMessage, Step
  <2> QED BY <1>3, <2>2, <2>3
<1>6. CASE ~(th[t].msgq > 0) /\ ~th[t].fStop
  <2>1. PICK q : q = Goes(th[t], "wait")
    OBVIOUS
  <2>2. GoesOn(th[t], q, "wait") /\ q.msgq = th[t].msgq /\ q.fStop = th[t].fStop /\ q \in States
    BY <2>1, GoesGoesOn DEF LoopPcs, Frame7, GoesOn
  <2>3. PICK r : r = [q EXCEPT !.fWait = TRUE]
    OBVIOUS
  <2>4. GoesOn(th[t], r, "wait")
    BY <1>1, <2>2, <2>3, GoesOnFields
  <2>5. r.msgq = th[t].msgq /\ r.fStop = th[t].fStop
    BY <2>2, <2>3 DEF States
  <2>6. r.msgq = 0 /\ ~r.fStop
    BY <1>1, <1>6, <2>5
  <2>7. th' = [th EXCEPT ![t] = r]
    BY <1>6, <2>1, <2>3 DEF GetMessage, Step
  <2> QED BY <1>3, <2>4, <2>6, <2>7
<1> QED BY <1>4, <1>5, <1>6

\* The list is empty when ReceiveSends is over.
LEMMA ReceivedKeeps ==
    ASSUME Inv(th, st), NEW t \in Threads, th[t].sendlist = <<>>,
           Top(t).pc \in {"recv", "pop", "next"}, NEW h \in BOOLEAN,
           NEW r, r = IF h THEN [Received(t) EXCEPT !.has_sends = FALSE] ELSE Received(t)
    PROVE  Inv([th EXCEPT ![t] = r], st)
<1>0. th[t] \in States /\ Topmost(th[t]) = Top(t) /\ (InLoop(t) <=> Len(th[t].stack) = 1)
  BY OfThread
<1>p. PICK p \in {"queue", "wait"} : p = IF InLoop(t) THEN "queue" ELSE "wait"
  OBVIOUS
<1>q. PICK q : q = Goes(th[t], p)
  OBVIOUS
<1>1. GoesOn(th[t], q, p)
  BY <1>q, GoesGoesOn DEF LoopPcs
<1>2. PICK a : a = Received(t)
  OBVIOUS
<1>3. a = IF InLoop(t) THEN q ELSE [q EXCEPT !.fWait = TRUE]
  BY <1>p, <1>q, <1>2 DEF Received
<1>4. GoesOn(th[t], a, p)
  BY <1>0, <1>1, <1>3, GoesOnFields
<1>5. GoesOn(th[t], r, p)
  <2>1. CASE h
    BY <1>0, <1>2, <1>4, <2>1, GoesOnFields
  <2>2. CASE ~h
    BY <1>2, <1>4, <2>2
  <2> QED BY <2>1, <2>2
<1>6. /\ Len(th[t].stack) = 1 => p \in LoopPcs /\ p = "queue"
      /\ Len(th[t].stack) # 1 => p \in SendPcs
      /\ p \notin {"serve", "ready"} /\ Top(t).pc \notin {"wake", "ready"}
  BY <1>0, <1>p DEF LoopPcs, SendPcs
<1>7. Minds(th, st, r, t, p)
  BY <1>0, <1>5, <1>6 DEF Minds, GoesOn
<1> QED BY <1>5, <1>6, <1>7, GoKeeps

LEMMA TestSendsKeeps ==
    ASSUME Inv(th, st), NEW t \in Threads, TestSends(t) PROVE Inv(th', st')
<1>1. Top(t).pc = "recv" /\ Topmost(th[t]).pc = "recv" /\ st' = st
  BY OfThread DEF TestSends, At
<1>2. CASE th[t].has_sends
  <2>1. PICK r : r = Goes(th[t], "pop")
    OBVIOUS
  <2>2. th' = [th EXCEPT ![t] = r]
    BY <1>2, <2>1 DEF TestSends, Step
  <2>3. /\ GoesOn(th[t], r, "pop") /\ "pop" \in LoopPcs /\ "pop" \in SendPcs
        /\ "pop" \notin {"serve", "ready"} /\ Top(t).pc \notin {"wake", "ready"}
    BY <1>1, <2>1, GoesGoesOn DEF LoopPcs, SendPcs
  <2>4. Minds(th, st, r, t, "pop")
    BY <1>1, <2>3 DEF Minds, GoesOn
  <2>5. Inv([th EXCEPT ![t] = r], st)
    BY <2>3, <2>4, GoKeeps
  <2> QED BY <1>1, <2>2, <2>5
<1>3. CASE ~th[t].has_sends
  <2>1. th[t].sendlist = <<>>
    BY <1>3 DEF Inv, CallInv
  <2>2. PICK r : r = Received(t)
    OBVIOUS
  <2>3. PICK h \in BOOLEAN : h = FALSE
    OBVIOUS
  <2>4. r = IF h THEN [Received(t) EXCEPT !.has_sends = FALSE] ELSE Received(t)
    BY <2>2, <2>3
  <2>5. Top(t).pc \in {"recv", "pop", "next"}
    BY <1>1
  <2>6. Inv([th EXCEPT ![t] = r], st)
    BY <2>1, <2>4, <2>5, ReceivedKeeps
  <2>7. th' = [th EXCEPT ![t] = r]
    BY <1>3, <2>2 DEF TestSends, Step
  <2> QED BY <1>1, <2>6, <2>7
<1> QED BY <1>2, <1>3

\* The entry that is served is out of the list, and in the frame.
LEMMA PopSendKeeps ==
    ASSUME Inv(th, st), NEW t \in Threads, PopSend(t) PROVE Inv(th', st')
<1>1. /\ Top(t).pc \in {"pop", "next"} /\ Topmost(th[t]).pc \in {"pop", "next"} /\ st' = st
      /\ th[t] \in States /\ th[t].stack # <<>> /\ StackInv(th[t].stack, t)
      /\ Topmost(th[t]) = th[t].stack[Len(th[t].stack)] /\ Topmost(th[t]) \in Frames
      /\ th \in [Threads -> States] /\ st \in [Calls -> Phases]
      /\ th[t].stack \in Seq(Frames)
  BY OfThread DEF PopSend, At
<1>2. CASE th[t].sendlist = <<>>
  <2>1. PICK h \in BOOLEAN : h = TRUE
    OBVIOUS
  <2>2. PICK r : r = [Received(t) EXCEPT !.has_sends = FALSE]
    OBVIOUS
  <2>3. r = IF h THEN [Received(t) EXCEPT !.has_sends = FALSE] ELSE Received(t)
    BY <2>1, <2>2
  <2>4. Top(t).pc \in {"recv", "pop", "next"}
    BY <1>1
  <2>5. Inv([th EXCEPT ![t] = r], st)
    BY <1>2, <2>3, <2>4, ReceivedKeeps
  <2>6. th' = [th EXCEPT ![t] = r]
    BY <1>2, <2>2 DEF PopSend, Step
  <2> QED BY <1>1, <2>5, <2>6
<1>3. CASE th[t].sendlist # <<>>
  <2>1. PICK m : m = Head(th[t].sendlist)
    OBVIOUS
  <2>2. /\ th[t].sendlist \in Seq(Entries) /\ m \in Entries /\ Lists(th[t], m)
        /\ Tail(th[t].sendlist) \in Seq(Entries)
    <3>1. th[t].sendlist \in Seq(Entries)
      BY <1>1 DEF States
    <3>2. 1 \in DOMAIN th[t].sendlist /\ th[t].sendlist[1] = m /\ m \in Entries
      BY <1>3, <2>1, <3>1
    <3> QED BY <1>3, <3>1, <3>2 DEF Lists
  <2>3. PICK a : a = Goes(th[t], "serve")
    OBVIOUS
  <2>4. PICK b : b = Holds(a, m)
    OBVIOUS
  <2>5. PICK r : r = [b EXCEPT !.sendlist = Tail(b.sendlist)]
    OBVIOUS
  <2>6. th' = [th EXCEPT ![t] = r]
    BY <1>3, <2>1, <2>3, <2>4, <2>5 DEF PopSend, Step
  <2>f. PICK f : f = [[Topmost(th[t]) EXCEPT !.pc = "serve"] EXCEPT !.smsg = m]
    OBVIOUS
  <2>7. /\ a \in States /\ Frame7(th[t], a)
        /\ a.stack = TopTo(th[t].stack, [Topmost(th[t]) EXCEPT !.pc = "serve"])
    <3>1. "serve" \in LoopPcs \cup SendPcs
      BY DEF LoopPcs
    <3> QED BY <1>1, <2>3, <3>1, GoesIs
  <2>8. /\ a.stack # <<>> /\ Len(a.stack) = Len(th[t].stack)
        /\ Topmost(a) = [Topmost(th[t]) EXCEPT !.pc = "serve"]
    BY <1>1, <2>7 DEF TopTo, Topmost
  <2>9. /\ b \in States /\ Frame7(a, b) /\ b.stack = TopTo(a.stack, f)
    <3>1. m \in Entries \cup {None} /\ f = [Topmost(a) EXCEPT !.smsg = m]
      BY <2>2, <2>8, <2>f
    <3>2. a \in States /\ a.stack # <<>>
      BY <2>7, <2>8
    <3> QED BY <2>4, <3>1, <3>2, HoldsIs
  <2>10. TopTo(a.stack, f) = TopTo(th[t].stack, f)
    BY <1>1, <2>7, <2>8 DEF TopTo
  <2>11. /\ r.sendlist = Tail(th[t].sendlist) /\ r.stack = TopTo(th[t].stack, f)
         /\ r.has_sends = th[t].has_sends /\ r.fStop = th[t].fStop /\ r.msgq = th[t].msgq
         /\ r.signaled = th[t].signaled
    BY <2>5, <2>7, <2>9, <2>10 DEF Frame7, States
  <2>12. r \in States
    <3>1. b.sendlist = th[t].sendlist
      BY <2>7, <2>9 DEF Frame7
    <3>2. PICK l : l = Tail(b.sendlist)
      OBVIOUS
    <3>3. l \in Seq(Entries)
      BY <2>2, <3>1, <3>2
    <3> QED BY <2>5, <2>9, <3>2, <3>3 DEF States
  <2>13. /\ f \in Frames /\ f.pc = "serve" /\ f.smsg = m /\ f.call = Topmost(th[t]).call
         /\ f.waited = Topmost(th[t]).waited
    <3>1. "serve" \in LoopPcs \cup SendPcs
      BY DEF LoopPcs
    <3> QED BY <1>1, <2>2, <2>f, <3>1 DEF Frames
  <2>14. Replaces(f, Topmost(th[t]), Len(th[t].stack))
    <3>1. Len(th[t].stack) = 1 => ~f.waited
      BY <1>1, <2>13 DEF StackInv
    <3>2. "serve" \in LoopPcs /\ "serve" \in SendPcs
      BY DEF LoopPcs, SendPcs
    <3> QED BY <2>2, <2>13, <3>1, <3>2 DEF Replaces
  <2>15. \A e \in Entries : Lists(r, e) => Lists(th[t], e)
    <3>1. \A k \in DOMAIN Tail(th[t].sendlist) :
             k + 1 \in DOMAIN th[t].sendlist /\ Tail(th[t].sendlist)[k] = th[t].sendlist[k + 1]
      BY <1>3, <2>2
    <3> QED BY <2>11, <3>1 DEF Lists
  <2>16. r.has_sends
    BY <1>3, <2>11 DEF Inv, CallInv
  <2>17. Has(th[t], f.smsg)
    BY <2>2, <2>13 DEF Has
  <2>18. Minds(th, st, r, t, f.pc)
    BY <1>1, <2>11, <2>13 DEF Minds
  <2>19. th'[t] = r /\ th' \in [Threads -> States] /\ \A u \in Threads : u # t => th'[u] = th[u]
    BY <1>1, <2>6, <2>12
  <2>20. Own(th, st, th', st', t, f)
    BY <1>1, <2>11, <2>13, <2>14, <2>15, <2>16, <2>17, <2>18, <2>19 DEF Own
  <2> QED BY <2>20, OwnKeeps
<1> QED BY <1>2, <1>3

\* The call is ready, and its server is about to wake its maker.
LEMMA EndServeKeeps ==
    ASSUME Inv(th, st), NEW t \in Threads, EndServe(t) PROVE Inv(th', st')
<1>1. /\ Top(t).pc = "serve" /\ Top(t) = Topmost(th[t]) /\ Topmost(th[t]).pc = "serve"
      /\ th[t] \in States /\ th[t].stack # <<>> /\ StackInv(th[t].stack, t)
      /\ Topmost(th[t]) = th[t].stack[Len(th[t].stack)] /\ Topmost(th[t]) \in Frames
      /\ th \in [Threads -> States] /\ st \in [Calls -> Phases]
      /\ th[t].stack \in Seq(Frames)
  BY OfThread DEF EndServe, At
<1>m. PICK m : m = Topmost(th[t]).smsg
  OBVIOUS
<1>2. m \in Entries /\ Keeps(th[t], m)
  BY <1>1, <1>m DEF StackInv, Keeps
<1>3. m[1] \in Calls /\ m[2] \in Threads /\ m = <<m[1], m[2]>>
  BY <1>2 DEF Entries
<1>4. st' = [st EXCEPT ![m[1]] = "done"]
  BY <1>1, <1>m DEF EndServe
<1>5. PICK r : r = Goes(th[t], "ready")
  OBVIOUS
<1>6. th' = [th EXCEPT ![t] = r]
  BY <1>5 DEF EndServe, Step
<1>7. GoesOn(th[t], r, "ready") /\ Frame7(th[t], r)
  BY <1>5, GoesGoesOn DEF LoopPcs
<1>f. PICK f : f = To0(Topmost(th[t]), "ready")
  OBVIOUS
<1>8. /\ Replaces(f, Topmost(th[t]), Len(th[t].stack)) /\ f.pc = "ready"
      /\ f.waited = Topmost(th[t]).waited /\ f.smsg = m
  <2>1. "ready" \in LoopPcs /\ "ready" \in SendPcs
    BY DEF LoopPcs, SendPcs
  <2> QED BY <1>1, <1>2, <1>m, <1>f, <2>1, PcReplaces
<1>9. st' \in [Calls -> Phases] /\ \A c \in Calls : c # m[1] => st'[c] = st[c]
  BY <1>1, <1>3, <1>4 DEF Phases
<1>10. st'[m[1]] = "done"
  BY <1>1, <1>3, <1>4
<1>11. th'[t] = r /\ th' \in [Threads -> States] /\ \A u \in Threads : u # t => th'[u] = th[u]
  BY <1>1, <1>6, <1>7 DEF GoesOn
<1>12. \A c \in Calls : (st'[c] = "new" => st[c] = "new") /\
          (IsReady(st', c) => IsReady(st, c) \/ \E v \in Threads : f.smsg = <<c, v>>)
  BY <1>3, <1>8, <1>9, <1>10 DEF IsReady
<1>13. r.has_sends \/ r.sendlist = <<>>
  BY <1>7 DEF Frame7, Inv, CallInv
<1>14. Has(th[t], f.smsg)
  BY <1>2, <1>8 DEF Has
<1>15. /\ \A e \in Entries : Lists(r, e) => Lists(th[t], e)
       /\ th[t].signaled => r.signaled
       /\ r.msgq = th[t].msgq /\ r.fStop = th[t].fStop
  BY <1>7 DEF Frame7, Lists
<1>16. r.stack = TopTo(th[t].stack, f)
  BY <1>7, <1>f DEF GoesOn
<1>17. Minds(th, st, r, t, f.pc)
  BY <1>1, <1>8, <1>15 DEF Minds
<1>18. Own(th, st, th', st', t, f)
  BY <1>1, <1>8, <1>9, <1>11, <1>12, <1>13, <1>14, <1>15, <1>16, <1>17 DEF Own
<1> QED BY <1>18, OwnKeeps

\* A thread gets something to look at, and a wake-up.
LEMMA SignalKeeps ==
    ASSUME Inv(th, st), NEW u \in Threads, NEW r \in States, r.signaled,
           r.stack = th[u].stack, r.sendlist = th[u].sendlist,
           r.has_sends = th[u].has_sends
    PROVE  Inv([th EXCEPT ![u] = r], st)
<1>1. th \in [Threads -> States] /\ st \in [Calls -> Phases]
  BY OfThread
<1>4. PICK U : U = [th EXCEPT ![u] = r]
  OBVIOUS
<1>5. U \in [Threads -> States] /\ U[u] = r /\ \A t \in Threads : t # u => U[t] = th[t]
  BY <1>1, <1>4
<1>6. \A t \in Threads :
          /\ U[t].stack = th[t].stack /\ U[t].sendlist = th[t].sendlist
          /\ U[t].has_sends = th[t].has_sends
          /\ th[t].signaled => U[t].signaled
          /\ U[t].signaled \/ (U[t].msgq = th[t].msgq /\ U[t].fStop = th[t].fStop)
  BY <1>5
<1>7. \A t \in Threads : th[t].has_sends \/ th[t].sendlist = <<>>
  BY DEF Inv, CallInv
<1>8. TypeInv(th, st)
  BY DEF Inv
<1>9. Around(th, st, U, st)
  BY <1>1, <1>5, <1>6, <1>7, <1>8 DEF Around, Lists
<1>10. Inv(U, st)
  BY <1>9, AroundKeeps
<1> QED BY <1>4, <1>10

LEMMA WakeKeeps ==
    ASSUME Inv(th, st), NEW u \in Threads
    PROVE  Inv([th EXCEPT ![u] = WakeUp(@)], st)
<1>1. PICK r : r = WakeUp(th[u])
  OBVIOUS
<1>2. /\ r \in States /\ r.stack = th[u].stack /\ r.sendlist = th[u].sendlist /\ r.signaled
      /\ r.has_sends = th[u].has_sends
  <2>1. th[u] \in States
    BY OfThread
  <2> QED BY <1>1, <2>1 DEF WakeUp, States
<1>3. Inv([th EXCEPT ![u] = r], st)
  BY <1>2, SignalKeeps
<1> QED BY <1>1, <1>3

\* A thread goes on past the wake-up that was due.
LEMMA WakesKeeps ==
    ASSUME Inv(th, st), NEW t \in Threads, NEW u \in Threads \ {t}, NEW g, g = Topmost(th[t]),
           NEW f, Replaces(f, g, Len(th[t].stack)), f.waited = g.waited,
           \/ f.pc = "test" /\ g.pc = "wake" /\ u = To[g.call] /\ g.call \in Calls
           \/ f.pc = "next" /\ g.pc = "ready" /\ u = g.smsg[2],
           NEW a \in States, Frame7(th[t], a), a.stack = TopTo(th[t].stack, f),
           NEW U, U = [th EXCEPT ![t] = a, ![u] = WakeUp(@)]
    PROVE  Inv(U, st)
<1>1. th \in [Threads -> States] /\ st \in [Calls -> Phases] /\ th[t] \in States
  BY OfThread
<1>2. PICK V : V = [th EXCEPT ![u] = WakeUp(@)]
  OBVIOUS
<1>3. Inv(V, st)
  BY <1>2, WakeKeeps
<1>4. ASSUME NEW s \in States
      PROVE  /\ WakeUp(s) \in States /\ WakeUp(s).stack = s.stack /\ WakeUp(s).signaled
             /\ WakeUp(s).sendlist = s.sendlist /\ WakeUp(s).has_sends = s.has_sends
             /\ WakeUp(s).msgq = s.msgq /\ WakeUp(s).fStop = s.fStop
  BY DEF WakeUp, States
<1>5. /\ V \in [Threads -> States] /\ \A v \in Threads : v # u => V[v] = th[v]
      /\ V[u] = WakeUp(th[u])
  <2>1. WakeUp(th[u]) \in States
    BY <1>1, <1>4
  <2> QED BY <1>1, <1>2, <2>1
<1>6. /\ U \in [Threads -> States] /\ \A v \in Threads : v # t => U[v] = V[v]
      /\ U[t] = a
  <2>1. PICK w \in States : w = WakeUp(th[u])
    BY <1>1, <1>4
  <2>2. U = [th EXCEPT ![t] = a, ![u] = w]
    BY <2>1
  <2> QED BY <1>1, <1>5, <2>1, <2>2
<1>7. /\ V[t].stack = th[t].stack /\ Topmost(V[t]) = g
      /\ U[t].stack = TopTo(V[t].stack, f) /\ U[t].sendlist = V[t].sendlist
      /\ U[t].has_sends = V[t].has_sends /\ U[t].msgq = V[t].msgq /\ U[t].fStop = V[t].fStop
      /\ V[t].signaled => U[t].signaled
  BY <1>1, <1>5, <1>6 DEF Topmost, Frame7
<1>8. U[u].signaled
  BY <1>1, <1>4, <1>5, <1>6
<1>9. U[t].has_sends \/ U[t].sendlist = <<>>
  BY <1>3, <1>7 DEF Inv, CallInv
<1>10. ASSUME g.pc = "wake", NEW x \in Threads, NEW v \in Threads, Lists(U[x], <<g.call, v>>)
       PROVE  U[x].signaled
  <2>1. Lists(V[x], <<g.call, v>>)
    BY <1>6, <1>7, <1>10 DEF Lists
  <2>2. To[g.call] = x
    BY <1>3, <1>10, <2>1 DEF Inv, CallInv
  <2> QED BY <1>8, <1>10, <2>2
<1>11. Minds(V, st, U[t], t, f.pc)
  BY <1>7 DEF Minds
<1>12. \A e \in Entries : Lists(U[t], e) => Lists(V[t], e)
  BY <1>7 DEF Lists
<1>13. g.pc = "ready" => U[g.smsg[2]].signaled
  BY <1>8
<1>14. Replaces(f, g, Len(V[t].stack)) /\ f.pc \notin {"serve", "ready"}
  BY <1>7
<1>15. Own(V, st, U, st, t, f)
  BY <1>1, <1>6, <1>7, <1>9, <1>10, <1>11, <1>12, <1>13, <1>14 DEF Own
<1> QED BY <1>3, <1>15, OwnKeeps

LEMMA WakeTargetKeeps ==
    ASSUME Inv(th, st), NEW t \in Threads, WakeTarget(t) PROVE Inv(th', st')
<1>1. /\ Top(t).pc = "wake" /\ Top(t) = Topmost(th[t]) /\ st' = st
      /\ th[t] \in States /\ th[t].stack # <<>> /\ StackInv(th[t].stack, t)
      /\ Topmost(th[t]) = th[t].stack[Len(th[t].stack)] /\ Topmost(th[t]) \in Frames
      /\ Len(th[t].stack) \in Nat \ {0} /\ th[t].stack \in Seq(Frames)
  BY OfThread DEF WakeTarget, At
<1>2. Len(th[t].stack) # 1
  BY <1>1, PcOf DEF LoopPcs
<1>g. PICK g : g = Topmost(th[t])
  OBVIOUS
<1>3. g.call \in Calls /\ To[g.call] # t
  <2>1. PICK n \in Nat \ {0} : n = Len(th[t].stack)
    BY <1>1
  <2>2. n \in DOMAIN th[t].stack /\ g = th[t].stack[n]
    BY <1>1, <1>g, <2>1
  <2>3. n > 1
    <3>1. n # 1
      BY <1>2, <2>1
    <3> QED BY <3>1
  <2> QED BY <1>1, <2>2, <2>3 DEF StackInv
<1>u. PICK u \in Threads \ {t} : u = To[g.call]
  BY <1>3, ThreadsAssumption
<1>a. PICK a : a = Goes(th[t], "test")
  OBVIOUS
<1>4. a \in States /\ Frame7(th[t], a) /\ a.stack = TopTo(th[t].stack, To0(g, "test"))
  <2>1. "test" \in LoopPcs \cup SendPcs
    BY DEF SendPcs
  <2> QED BY <1>1, <1>a, <1>g, <2>1, GoesIs DEF To0
<1>f. PICK f : f = To0(g, "test")
  OBVIOUS
<1>5. Replaces(f, g, Len(th[t].stack)) /\ f.waited = g.waited /\ f.pc = "test"
  <2>1. "test" \in SendPcs /\ "test" \notin {"serve", "ready"}
    BY DEF SendPcs
  <2> QED BY <1>1, <1>2, <1>g, <1>f, <2>1, PcReplaces
<1>6. th' = [th EXCEPT ![t] = a, ![u] = WakeUp(@)]
  BY <1>1, <1>a, <1>g, <1>u DEF WakeTarget
<1>7. a.stack = TopTo(th[t].stack, f) /\ g.pc = "wake"
  BY <1>1, <1>4, <1>f, <1>g
<1>8. Inv(th', st)
  BY <1>3, <1>4, <1>5, <1>6, <1>7, <1>g, <1>u, WakesKeeps
<1> QED BY <1>1, <1>8

LEMMA WakeSenderKeeps ==
    ASSUME Inv(th, st), NEW t \in Threads, WakeSender(t) PROVE Inv(th', st')
<1>1. /\ Top(t).pc = "ready" /\ Top(t) = Topmost(th[t]) /\ st' = st
      /\ th[t] \in States /\ th[t].stack # <<>> /\ StackInv(th[t].stack, t)
      /\ Topmost(th[t]) = th[t].stack[Len(th[t].stack)] /\ Topmost(th[t]) \in Frames
      /\ Len(th[t].stack) \in Nat \ {0} /\ th[t].stack \in Seq(Frames)
  BY OfThread DEF WakeSender, At
<1>g. PICK g : g = Topmost(th[t])
  OBVIOUS
<1>2. g.smsg \in Entries /\ Has(th[t], g.smsg)
  BY <1>1, <1>g DEF StackInv, Has, Keeps
<1>3. g.smsg = <<g.smsg[1], g.smsg[2]>> /\ g.smsg[1] \in Calls /\ g.smsg[2] \in Threads
  BY <1>2 DEF Entries
<1>u. PICK u \in Threads \ {t} : u = g.smsg[2]
  BY <1>2, <1>3 DEF Inv, CallInv
<1>b. PICK b : b = Goes(th[t], "next")
  OBVIOUS
<1>a. PICK a : a = Holds(b, None)
  OBVIOUS
<1>13. b \in States /\ Frame7(th[t], b) /\ b.stack = TopTo(th[t].stack, [g EXCEPT !.pc = "next"])
  <2>1. "next" \in LoopPcs \cup SendPcs
    BY DEF SendPcs
  <2> QED BY <1>1, <1>b, <1>g, <2>1, GoesIs
<1>4. /\ b.stack # <<>> /\ Len(b.stack) = Len(th[t].stack)
      /\ Topmost(b) = [g EXCEPT !.pc = "next"]
  BY <1>1, <1>13 DEF TopTo, Topmost
<1>f. PICK f : f = [[g EXCEPT !.pc = "next"] EXCEPT !.smsg = None]
  OBVIOUS
<1>5. a \in States /\ Frame7(b, a) /\ a.stack = TopTo(b.stack, f)
  <2>1. None \in Entries \cup {None} /\ f = [Topmost(b) EXCEPT !.smsg = None]
    BY <1>4, <1>f
  <2>2. b \in States /\ b.stack # <<>>
    BY <1>13, <1>4
  <2> QED BY <1>a, <2>1, <2>2, HoldsIs
<1>6. TopTo(b.stack, f) = TopTo(th[t].stack, f)
  BY <1>1, <1>13, <1>4 DEF TopTo
<1>7. Frame7(th[t], a) /\ a.stack = TopTo(th[t].stack, f)
  BY <1>13, <1>5, <1>6 DEF Frame7
<1>8. f \in Frames /\ f.pc = "next" /\ f.call = g.call /\ f.waited = g.waited
  <2>1. "next" \in LoopPcs \cup SendPcs
    BY DEF LoopPcs
  <2> QED BY <1>1, <1>f, <1>g, <2>1 DEF Frames
<1>9. Replaces(f, g, Len(th[t].stack))
  <2>1. Len(th[t].stack) = 1 => ~f.waited
    BY <1>1, <1>g, <1>8 DEF StackInv
  <2>2. "next" \in LoopPcs /\ "next" \in SendPcs
    BY DEF LoopPcs, SendPcs
  <2> QED BY <1>8, <2>1, <2>2 DEF Replaces
<1>10. th' = [th EXCEPT ![t] = a, ![u] = WakeUp(@)]
  BY <1>1, <1>a, <1>b, <1>g, <1>u DEF WakeSender
<1>11. g.pc = "ready"
  BY <1>1, <1>g
<1>12. Inv(th', st)
  <2>1. a \in States /\ f.pc = "next" /\ f.waited = g.waited
    BY <1>5, <1>8
  <2> QED BY <1>7, <1>9, <1>10, <1>11, <1>g, <1>u, <2>1, WakesKeeps
<1> QED BY <1>1, <1>12

\* Wait reads the pipe; a Send remembers it.
LEMMA EndWaitKeeps ==
    ASSUME Inv(th, st), NEW t \in Threads, EndWait(t) PROVE Inv(th', st')
<1>1. /\ Top(t).pc = "wait" /\ Top(t) = Topmost(th[t]) /\ st' = st
      /\ th[t] \in States /\ th[t].stack # <<>> /\ StackInv(th[t].stack, t)
      /\ Topmost(th[t]) = th[t].stack[Len(th[t].stack)] /\ Topmost(th[t]) \in Frames
      /\ Len(th[t].stack) \in Nat \ {0} /\ th[t].stack \in Seq(Frames)
      /\ th \in [Threads -> States] /\ st \in [Calls -> Phases]
      /\ (InLoop(t) <=> Len(th[t].stack) = 1)
  BY OfThread DEF EndWait, At
<1>g. PICK g : g = Topmost(th[t])
  OBVIOUS
<1>w. PICK w \in BOOLEAN : w = ~InLoop(t)
  OBVIOUS
<1>p. PICK p \in {"recv", "test"} : p = IF InLoop(t) THEN "recv" ELSE "test"
  OBVIOUS
<1>a. PICK a : a = Goes(th[t], p)
  OBVIOUS
<1>2. a \in States /\ Frame7(th[t], a) /\ a.stack = TopTo(th[t].stack, [g EXCEPT !.pc = p])
  <2>1. p \in LoopPcs \cup SendPcs
    BY DEF LoopPcs, SendPcs
  <2> QED BY <1>1, <1>a, <1>g, <2>1, GoesIs
<1>f. PICK f : f = [[g EXCEPT !.pc = p] EXCEPT !.waited = w]
  OBVIOUS
<1>3. f \in Frames /\ f.pc = p /\ f.call = g.call /\ f.waited = w /\ f.smsg = g.smsg
  <2>1. p \in LoopPcs \cup SendPcs
    BY DEF LoopPcs, SendPcs
  <2> QED BY <1>1, <1>f, <1>g, <2>1 DEF Frames
<1>r. PICK r : th' = [th EXCEPT ![t] = r] /\
               r = [a EXCEPT !.signaled = FALSE, !.fWait = FALSE,
                             !.stack[Len(th[t].stack)].waited = w]
  BY <1>a, <1>p, <1>w DEF EndWait, Step
<1>k. PICK k : k = [a.stack EXCEPT ![Len(th[t].stack)].waited = w]
  OBVIOUS
<1>4. k = TopTo(th[t].stack, f) /\ k \in Seq(Frames)
  <2>1. /\ a.stack \in Seq(Frames) /\ Len(a.stack) = Len(th[t].stack)
        /\ a.stack[Len(th[t].stack)] = [g EXCEPT !.pc = p]
        /\ Len(th[t].stack) \in DOMAIN a.stack
    <3>1. a.stack \in Seq(Frames)
      BY <1>2 DEF States
    <3>2. /\ Len(a.stack) = Len(th[t].stack) /\ Len(th[t].stack) \in DOMAIN a.stack
          /\ a.stack[Len(th[t].stack)] = [g EXCEPT !.pc = p]
      BY <1>1, <1>2 DEF TopTo
    <3> QED BY <3>1, <3>2
  <2>2. k = [a.stack EXCEPT ![Len(th[t].stack)] = f]
    BY <1>f, <1>k, <2>1
  <2>3. k = TopTo(th[t].stack, f)
    BY <1>1, <1>2, <2>2 DEF TopTo
  <2> QED BY <1>3, <2>1, <2>2, <2>3
<1>5. r = [a EXCEPT !.signaled = FALSE, !.fWait = FALSE, !.stack = k]
  BY <1>k, <1>r
<1>6. r \in States
  BY <1>2, <1>4, <1>5 DEF States
<1>7. /\ r.stack = k /\ r.sendlist = a.sendlist /\ r.has_sends = a.has_sends
      /\ r.fStop = a.fStop /\ r.msgq = a.msgq
  BY <1>2, <1>5 DEF States
<1>8. /\ r.stack = TopTo(th[t].stack, f) /\ r.sendlist = th[t].sendlist
      /\ r.has_sends = th[t].has_sends /\ r.fStop = th[t].fStop /\ r.msgq = th[t].msgq
  BY <1>2, <1>4, <1>7 DEF Frame7
<1>9. Replaces(f, g, Len(th[t].stack))
  <2>1. CASE InLoop(t)
    BY <1>1, <1>3, <1>p, <1>w, <2>1 DEF Replaces, LoopPcs
  <2>2. CASE ~InLoop(t)
    BY <1>1, <1>3, <1>p, <1>w, <2>2 DEF Replaces, SendPcs
  <2> QED BY <2>1, <2>2
<1>10. Minds(th, st, r, t, f.pc)
  <2>1. CASE InLoop(t)
    BY <1>1, <1>3, <1>p, <2>1 DEF Minds
  <2>2. CASE ~InLoop(t)
    BY <1>1, <1>3, <1>p, <2>2 DEF Minds
  <2> QED BY <2>1, <2>2
<1>11. th'[t] = r /\ th' \in [Threads -> States] /\ \A u \in Threads : u # t => th'[u] = th[u]
  BY <1>1, <1>6, <1>r
<1>12. \A e \in Entries : Lists(r, e) => Lists(th[t], e)
  BY <1>8 DEF Lists
<1>13. r.has_sends \/ r.sendlist = <<>>
  BY <1>8 DEF Inv, CallInv
<1>14. /\ Len(th[t].stack) # 1 => f.waited
       /\ g.waited => f.waited
       /\ g.pc = "wait" /\ f.pc \notin {"serve", "ready"}
  <2>1. Len(th[t].stack) = 1 => ~g.waited
    BY <1>1, <1>g DEF StackInv
  <2> QED BY <1>1, <1>3, <1>g, <1>w, <2>1
<1>15. Own(th, st, th', st', t, f)
  BY <1>1, <1>8, <1>9, <1>10, <1>11, <1>12, <1>13, <1>14, <1>g DEF Own
<1> QED BY <1>15, OwnKeeps

IsFront(k, s, F) ==
    /\ k \in Seq(F) /\ Len(k) = Len(s) - 1 /\ k # <<>> /\ DOMAIN k = 1 .. (Len(s) - 1)
    /\ \A i \in 1 .. (Len(s) - 1) : k[i] = s[i]

LEMMA FrontIs ==
    ASSUME NEW F, NEW s \in Seq(F), Len(s) # 0, Len(s) # 1
    PROVE  IsFront(Front(s), s, F)
<1>k. PICK k : k = Front(s)
  OBVIOUS
<1>n. PICK n \in Nat : n = Len(s)
  OBVIOUS
<1>0. k = SubSeq(s, 1, n - 1) /\ n > 1
  BY <1>k, <1>n DEF Front
<1>1. n - 1 \in Nat /\ 1 .. (n - 1) \subseteq 1 .. Len(s)
  BY <1>0, <1>n
<1>2. Len(k) = n - 1
  BY <1>0, <1>1
<1>3. \A i \in 1 .. (n - 1) : k[i] = s[i]
  BY <1>0, <1>1
<1>4. k \in Seq(F)
  BY <1>0, <1>1
<1>5. Len(k) # 0
  BY <1>0, <1>2
<1>6. k # <<>>
  BY <1>4, <1>5
<1>7. DOMAIN k = 1 .. (n - 1)
  BY <1>2, <1>4
<1> QED BY <1>k, <1>n, <1>2, <1>3, <1>4, <1>6, <1>7 DEF IsFront

\* The frame of Send is left; what it has read is in the pipe again.
LEMMA LeaveKeeps ==
    ASSUME Inv(th, st), NEW t \in Threads, Top(t).pc = "test",
           NEW c, c = Top(t).call, NEW s \in States, s.stack = th[t].stack,
           s.sendlist = th[t].sendlist, s.has_sends = th[t].has_sends,
           s.msgq = th[t].msgq, s.fStop = th[t].fStop,
           th[t].signaled \/ Top(t).waited => s.signaled,
           NEW U, U = [th EXCEPT ![t] = Leave(s)],
           NEW R, R = [st EXCEPT ![c] = "returned"]
    PROVE  Inv(U, R)
<1>1. /\ Top(t).pc = "test" /\ Top(t) = Topmost(th[t])
      /\ th[t] \in States /\ th[t].stack # <<>> /\ StackInv(th[t].stack, t)
      /\ Topmost(th[t]) = th[t].stack[Len(th[t].stack)] /\ Topmost(th[t]) \in Frames
      /\ Len(th[t].stack) \in Nat \ {0} /\ th[t].stack \in Seq(Frames)
      /\ th \in [Threads -> States] /\ st \in [Calls -> Phases]
  BY OfThread
<1>n. PICK n \in Nat \ {0} : n = Len(th[t].stack) /\ n \in DOMAIN th[t].stack
  BY <1>1
<1>2. n > 1
  <2>1. n # 1
    BY <1>1, <1>n, PcOf DEF LoopPcs
  <2> QED BY <2>1
<1>k. PICK k : k = Front(th[t].stack)
  OBVIOUS
<1>3. /\ k \in Seq(Frames) /\ Len(k) = n - 1 /\ k # <<>> /\ DOMAIN k = 1 .. (n - 1)
      /\ \A i \in 1 .. (n - 1) : k[i] = th[t].stack[i]
  <2>1. Len(th[t].stack) # 0 /\ Len(th[t].stack) # 1 /\ th[t].stack \in Seq(Frames)
    BY <1>1, <1>2, <1>n
  <2>2. IsFront(k, th[t].stack, Frames)
    BY <1>k, <2>1, FrontIs
  <2> QED BY <1>n, <2>2 DEF IsFront
<1>4. PICK r : r = [s EXCEPT !.stack = k]
  OBVIOUS
<1>5. r = Leave(s)
  BY <1>4, <1>k DEF Leave
<1>6. /\ r \in States /\ r.stack = k /\ r.sendlist = th[t].sendlist
      /\ r.has_sends = th[t].has_sends /\ r.msgq = th[t].msgq /\ r.fStop = th[t].fStop
      /\ r.signaled = s.signaled
  BY <1>3, <1>4 DEF States
<1>7. U \in [Threads -> States] /\ U[t] = r /\ \A u \in Threads : u # t => U[u] = th[u]
  BY <1>1, <1>5, <1>6
<1>8. c \in Calls
  BY <1>1, <1>n, <1>2 DEF StackInv
<1>9. R \in [Calls -> Phases] /\ R[c] = "returned" /\ \A d \in Calls : d # c => R[d] = st[d]
  BY <1>1, <1>8 DEF Phases
<1>10. DOMAIN k \subseteq DOMAIN th[t].stack /\ DOMAIN th[t].stack = 1 .. n
  BY <1>1, <1>3, <1>n
<1>11. StackInv(k, t)
  <2>1. \A i \in DOMAIN k : i \in DOMAIN th[t].stack /\ k[i] = th[t].stack[i] /\ i < n
    BY <1>3, <1>10
  <2>2. k[1] = th[t].stack[1]
    BY <1>2, <1>3
  <2>3. k[1].call = None /\ ~k[1].waited /\ k[1].pc \in LoopPcs
    BY <1>1, <2>2 DEF StackInv
  <2>4. \A i \in DOMAIN k : i > 1 => /\ k[i].call \in Calls /\ To[k[i].call] # t
                                     /\ k[i].pc \in SendPcs
    BY <1>1, <2>1 DEF StackInv
  <2>5. \A i \in DOMAIN k : k[i].pc \in Below
    BY <1>1, <1>n, <2>1 DEF StackInv
  <2>6. \A i \in DOMAIN k : k[i].pc \in {"serve", "ready"} => k[i].smsg \in Entries
    BY <1>1, <2>1 DEF StackInv
  <2> QED BY <1>3, <2>3, <2>4, <2>5, <2>6 DEF StackInv
<1>12. TypeInv(U, R)
  <2>1. \A u \in Threads : StackInv(U[u].stack, u)
    BY <1>6, <1>7, <1>11 DEF Inv, TypeInv
  <2> QED BY <1>7, <1>9, <2>1 DEF TypeInv
<1>13. \A i \in DOMAIN k : i \in DOMAIN th[t].stack /\ k[i] = th[t].stack[i] /\ i < n
  BY <1>3, <1>10
<1>14. CallInv(U, R)
  <2>1. \A u \in Threads, d \in Calls : Makes(U[u], d) => Makes(th[u], d)
    BY <1>6, <1>7, <1>13 DEF Makes
  <2>2. \A u \in Threads, m \in Entries : Lists(U[u], m) => Lists(th[u], m)
    BY <1>6, <1>7 DEF Lists
  <2>3. \A u \in Threads, m \in Entries : Keeps(U[u], m) => Keeps(th[u], m)
    BY <1>6, <1>7, <1>13 DEF Keeps
  <2>4. \A u \in Threads, m \in Entries : Has(U[u], m) => Has(th[u], m)
    BY <2>2, <2>3 DEF Has
  <2>5. \A u \in Threads : U[u].has_sends \/ U[u].sendlist = <<>>
    BY <1>6, <1>7 DEF Inv, CallInv
  <2>6. \A d \in Calls : R[d] = "new" => st[d] = "new"
    BY <1>9
  <2>7. CallInv(th, st)
    BY DEF Inv
  <2>8. Fewer(th, st, U, R)
    BY <2>1, <2>2, <2>4, <2>5, <2>6 DEF Fewer
  <2> QED BY <2>7, <2>8, CallsKept
<1>15. /\ \A d : Waker(th, d) => Waker(U, d)
       /\ \A u, d : Server(th, u, d) => Server(U, u, d)
  <2>1. \A u \in Threads : Topmost(th[u]).pc \in {"wake", "ready"} => U[u] = th[u]
    BY <1>1, <1>7
  <2> QED BY <2>1 DEF Waker, Server
<1>16. \A d \in Calls : IsReady(R, d) => IsReady(st, d)
  BY <1>9 DEF IsReady
<1>17. ASSUME NEW u \in Threads PROVE RestInv(U, R, u)
  <2>1. SUFFICES ASSUME NEW i \in DOMAIN U[u].stack, ~Awake(U[u], i) PROVE Alert(U, R, u, i)
    BY DEF RestInv
  <2>2. i \in DOMAIN th[u].stack /\ U[u].stack[i] = th[u].stack[i]
    BY <1>6, <1>7, <1>13
  <2>3. ~Awake(th[u], i)
    <3>1. CASE u # t
      BY <1>7, <2>1, <3>1
    <3>2. CASE u = t
      <4>1. ~s.signaled /\ ~th[t].signaled /\ ~Top(t).waited
        BY <1>6, <1>7, <2>1, <3>2 DEF Awake
      <4>2. ~th[t].stack[n].waited
        BY <1>1, <1>n, <4>1
      <4>3. ASSUME NEW j \in DOMAIN th[t].stack, j > i, th[t].stack[j].waited PROVE FALSE
        <5>1. j # n
          BY <4>2, <4>3
        <5>2. j \in DOMAIN k
          BY <1>3, <1>10, <5>1
        <5> QED BY <1>6, <1>7, <1>13, <2>1, <3>2, <4>3, <5>2 DEF Awake
      <4> QED BY <3>2, <4>1, <4>3 DEF Awake
    <3> QED BY <3>1, <3>2
  <2>4. Alert(th, st, u, i)
    BY <2>2, <2>3 DEF Inv, RestInv
  <2>5. U[u].msgq = th[u].msgq /\ U[u].fStop = th[u].fStop /\ U[u].sendlist = th[u].sendlist
    BY <1>6, <1>7
  <2>6. \A m : Lists(U[u], m) <=> Lists(th[u], m)
    BY <2>5 DEF Lists
  <2>7. i > 1 => th[u].stack[i].call \in Calls
    BY <2>2 DEF Inv, TypeInv, StackInv
  <2> QED BY <1>15, <1>16, <2>2, <2>4, <2>5, <2>6, <2>7 DEF Alert
<1> QED BY <1>12, <1>14, <1>17 DEF Inv

LEMMA TestReadyKeeps ==
    ASSUME Inv(th, st), NEW t \in Threads, TestReady(t) PROVE Inv(th', st')
<1>1. /\ Top(t).pc = "test" /\ Top(t) = Topmost(th[t])
      /\ th[t] \in States /\ Topmost(th[t]) \in Frames
  BY OfThread DEF TestReady, At
<1>2. Len(th[t].stack) # 1
  BY <1>1, PcOf DEF LoopPcs
<1>3. CASE Ready(Top(t).call)
  <2>1. PICK c : c = Top(t).call
    OBVIOUS
  <2>2. PICK s : s = IF Top(t).waited THEN WakeUp(th[t]) ELSE th[t]
    OBVIOUS
  <2>3. th' = [th EXCEPT ![t] = Leave(s)] /\ st' = [st EXCEPT ![c] = "returned"]
    BY <1>3, <2>1, <2>2 DEF TestReady, Step
  <2>4. /\ s \in States /\ s.stack = th[t].stack /\ s.sendlist = th[t].sendlist
        /\ s.has_sends = th[t].has_sends /\ s.msgq = th[t].msgq /\ s.fStop = th[t].fStop
        /\ th[t].signaled \/ Top(t).waited => s.signaled
    <3>1. CASE Top(t).waited
      BY <1>1, <2>2, <3>1 DEF WakeUp, States
    <3>2. CASE ~Top(t).waited
      BY <1>1, <2>2, <3>2
    <3> QED BY <3>1, <3>2
  <2>5. PICK U : U = th'
    OBVIOUS
  <2>6. PICK R : R = st'
    OBVIOUS
  <2>7. Inv(U, R)
    BY <1>1, <2>1, <2>3, <2>4, <2>5, <2>6, LeaveKeeps
  <2> QED BY <2>5, <2>6, <2>7
<1>4. CASE ~Ready(Top(t).call)
  <2>1. PICK r : r = Goes(th[t], "recv")
    OBVIOUS
  <2>2. th' = [th EXCEPT ![t] = r] /\ st' = st
    BY <1>4, <2>1 DEF TestReady, Step
  <2>3. /\ GoesOn(th[t], r, "recv") /\ Frame7(th[t], r)
        /\ "recv" \in LoopPcs /\ "recv" \in SendPcs
        /\ "recv" \notin {"serve", "ready"} /\ Top(t).pc \notin {"wake", "ready"}
    BY <1>1, <2>1, GoesGoesOn DEF LoopPcs, SendPcs
  <2>4. ~IsReady(st, Topmost(th[t]).call)
    BY <1>1, <1>4 DEF Ready, IsReady
  <2>5. Minds(th, st, r, t, "recv")
    BY <1>2, <2>3, <2>4 DEF Minds, Frame7
  <2>6. Inv([th EXCEPT ![t] = r], st)
    BY <2>3, <2>5, GoKeeps
  <2> QED BY <2>2, <2>6
<1> QED BY <1>3, <1>4

\* A new frame, about to put its call into the list of its target.
LEMMA EnterKeeps ==
    ASSUME Inv(th, st), NEW t \in Threads, NEW c \in Calls, st[c] = "new", To[c] # t,
           Top(t).pc \in Below,
           NEW U, U = [th EXCEPT ![t] = Enter(th[t], Frame(c, "push"))],
           NEW R, R = [st EXCEPT ![c] = "open"]
    PROVE  Inv(U, R)
<1>1. /\ Top(t) = Topmost(th[t])
      /\ th[t] \in States /\ th[t].stack # <<>> /\ StackInv(th[t].stack, t)
      /\ Topmost(th[t]) = th[t].stack[Len(th[t].stack)]
      /\ Len(th[t].stack) \in Nat \ {0} /\ th[t].stack \in Seq(Frames)
      /\ th \in [Threads -> States] /\ st \in [Calls -> Phases]
  BY OfThread
<1>n. PICK n \in Nat \ {0} : n = Len(th[t].stack)
  BY <1>1
<1>f. PICK f : f = Frame(c, "push")
  OBVIOUS
<1>2. f \in Frames /\ f.call = c /\ f.pc = "push" /\ ~f.waited
  BY <1>f DEF Frames, Frame, SendPcs
<1>k. PICK k : k = Append(th[t].stack, f)
  OBVIOUS
<1>3. /\ k \in Seq(Frames) /\ Len(k) = n + 1 /\ DOMAIN k = 1 .. (n + 1)
      /\ \A i \in 1 .. n : k[i] = th[t].stack[i]
      /\ k[n + 1] = f /\ DOMAIN th[t].stack = 1 .. n /\ k # <<>>
  BY <1>1, <1>2, <1>k, <1>n
<1>4. PICK r : r = [th[t] EXCEPT !.stack = k]
  OBVIOUS
<1>5. /\ r \in States /\ r.stack = k /\ r.sendlist = th[t].sendlist
      /\ r.has_sends = th[t].has_sends /\ r.msgq = th[t].msgq /\ r.fStop = th[t].fStop
      /\ r.signaled = th[t].signaled
  BY <1>1, <1>3, <1>4 DEF States
<1>6. U \in [Threads -> States] /\ U[t] = r /\ \A u \in Threads : u # t => U[u] = th[u]
  <2>1. U = [th EXCEPT ![t] = r]
    BY <1>4, <1>k, <1>f DEF Enter
  <2> QED BY <1>1, <1>5, <2>1
<1>7. R \in [Calls -> Phases] /\ R[c] = "open" /\ \A d \in Calls : d # c => R[d] = st[d]
  BY <1>1 DEF Phases
<1>8. \A i \in DOMAIN k : i # n + 1 => i \in DOMAIN th[t].stack /\ k[i] = th[t].stack[i] /\ i \in 1 .. n
  BY <1>3
<1>9. StackInv(k, t)
  <2>2. 1 \in DOMAIN k /\ 1 # n + 1
    BY <1>3
  <2>3. k[1].call = None /\ ~k[1].waited /\ k[1].pc \in LoopPcs
    BY <1>1, <1>8, <2>2 DEF StackInv
  <2>4. \A i \in DOMAIN k : i > 1 => /\ k[i].call \in Calls /\ To[k[i].call] # t
                                     /\ k[i].pc \in SendPcs
    BY <1>1, <1>2, <1>3, <1>8 DEF StackInv, SendPcs
  <2>5. \A i \in DOMAIN k : i < Len(k) => k[i].pc \in Below
    <3>1. SUFFICES ASSUME NEW i \in DOMAIN k, i < Len(k) PROVE k[i].pc \in Below
      OBVIOUS
    <3>2. i \in DOMAIN th[t].stack /\ k[i] = th[t].stack[i] /\ i \in 1 .. n
      BY <1>3, <1>8, <3>1
    <3>3. CASE i = n
      BY <1>1, <1>n, <3>2, <3>3
    <3>4. CASE i # n
      BY <1>1, <1>n, <3>2, <3>4 DEF StackInv
    <3> QED BY <3>3, <3>4
  <2>6. \A i \in DOMAIN k : k[i].pc \in {"serve", "ready"} => k[i].smsg \in Entries
    BY <1>1, <1>2, <1>3, <1>8 DEF StackInv
  <2> QED BY <1>3, <2>3, <2>4, <2>5, <2>6 DEF StackInv
<1>10. TypeInv(U, R)
  <2>1. \A u \in Threads : StackInv(U[u].stack, u)
    BY <1>5, <1>6, <1>9 DEF Inv, TypeInv
  <2> QED BY <1>6, <1>7, <2>1 DEF TypeInv
<1>11. ASSUME NEW u \in Threads, NEW d \in Calls, Makes(U[u], d)
       PROVE  Makes(th[u], d) \/ (u = t /\ d = c)
  <2>1. CASE u # t
    BY <1>6, <1>11, <2>1
  <2>2. CASE u = t
    <3>1. PICK i \in DOMAIN k : k[i].call = d
      BY <1>5, <1>6, <1>11, <2>2 DEF Makes
    <3> QED BY <1>2, <1>3, <1>8, <2>2, <3>1 DEF Makes
  <2> QED BY <2>1, <2>2
<1>12. \A u \in Threads : \A m : (Lists(U[u], m) => Lists(th[u], m)) /\ (Has(U[u], m) => Has(th[u], m))
  <2>1. \A u \in Threads : \A m : Lists(U[u], m) => Lists(th[u], m)
    BY <1>5, <1>6 DEF Lists
  <2>2. ASSUME NEW m, Keeps(U[t], m) PROVE Keeps(th[t], m)
    <3>1. PICK i \in DOMAIN k : k[i].pc \in {"serve", "ready"} /\ k[i].smsg = m
      BY <1>5, <1>6, <2>2 DEF Keeps
    <3>2. i # n + 1
      BY <1>2, <1>3, <3>1
    <3> QED BY <1>8, <3>1, <3>2 DEF Keeps
  <2>3. \A u \in Threads : \A m : Keeps(U[u], m) => Keeps(th[u], m)
    BY <1>6, <2>2
  <2> QED BY <2>1, <2>3 DEF Has
<1>13. CallInv(U, R)
  <2>0. CallInv(th, st)
    BY DEF Inv
  <2>1. \A u \in Threads : ~Makes(th[u], c) /\ \A v \in Threads : ~Has(th[u], <<c, v>>)
    BY <2>0 DEF CallInv
  <2>2. \A d \in Calls, x, u \in Threads : Makes(U[x], d) /\ Makes(U[u], d) => x = u
    BY <1>11, <2>0, <2>1 DEF CallInv
  <2>3. \A d \in Calls, u \in Threads : Makes(U[u], d) => R[d] # "new"
    BY <1>7, <1>11, <2>0 DEF CallInv
  <2>4. \A d \in Calls, u, v \in Threads : Has(U[u], <<d, v>>) => R[d] # "new"
    BY SMTT(40), <1>7, <1>12, <2>0 DEF CallInv
  <2>5. \A d \in Calls, x, u, v \in Threads : Has(U[x], <<d, v>>) /\ Makes(U[u], d) => u = v
    BY <1>11, <1>12, <2>0, <2>1 DEF CallInv
  <2>6. \A d \in Calls, u, v \in Threads : Lists(U[u], <<d, v>>) => To[d] = u
    BY <1>12, <2>0 DEF CallInv
  <2>7. \A d \in Calls, u, v \in Threads : Has(U[u], <<d, v>>) => v # u
    BY <1>12, <2>0 DEF CallInv
  <2>8. \A u \in Threads : U[u].has_sends \/ U[u].sendlist = <<>>
    BY <1>5, <1>6, <2>0 DEF CallInv
  <2> QED BY <2>2, <2>3, <2>4, <2>5, <2>6, <2>7, <2>8 DEF CallInv
<1>14. /\ \A d : Waker(th, d) => Waker(U, d)
       /\ \A u, d : Server(th, u, d) => Server(U, u, d)
  <2>1. \A u \in Threads : Topmost(th[u]).pc \in {"wake", "ready"} => U[u] = th[u]
    BY <1>1, <1>6 DEF Below
  <2> QED BY <2>1 DEF Waker, Server
<1>15. \A d \in Calls : IsReady(R, d) => IsReady(st, d)
  BY <1>7 DEF IsReady
<1>16. ASSUME NEW u \in Threads PROVE RestInv(U, R, u)
  <2>1. SUFFICES ASSUME NEW i \in DOMAIN U[u].stack, ~Awake(U[u], i) PROVE Alert(U, R, u, i)
    BY DEF RestInv
  <2>2. CASE u = t /\ i = n + 1
    BY <1>2, <1>3, <1>5, <1>6, <2>2 DEF Alert
  <2>3. CASE ~(u = t /\ i = n + 1)
    <3>2. i \in DOMAIN th[u].stack /\ U[u].stack[i] = th[u].stack[i]
      BY <1>5, <1>6, <1>8, <2>3
    <3>3. ~Awake(th[u], i)
      <4>1. CASE u # t
        BY <1>6, <2>1, <4>1
      <4>2. CASE u = t
        <5>1. ~th[t].signaled
          BY <1>5, <1>6, <2>1, <4>2 DEF Awake
        <5>2. \A j \in DOMAIN th[t].stack : j \in DOMAIN k /\ k[j] = th[t].stack[j]
          BY <1>3
        <5>3. \A j \in DOMAIN k : j > i => ~k[j].waited
          BY <1>5, <1>6, <2>1, <4>2 DEF Awake
        <5> QED BY <4>2, <5>1, <5>2, <5>3 DEF Awake
      <4> QED BY <4>1, <4>2
    <3>4. Alert(th, st, u, i)
      BY <3>2, <3>3 DEF Inv, RestInv
    <3>5. U[u].msgq = th[u].msgq /\ U[u].fStop = th[u].fStop
      BY <1>5, <1>6
    <3>6. i > 1 => th[u].stack[i].call \in Calls
      BY <3>2 DEF Inv, TypeInv, StackInv
    <3> QED BY <1>12, <1>14, <1>15, <3>2, <3>4, <3>5, <3>6 DEF Alert
  <2> QED BY <2>2, <2>3
<1> QED BY <1>10, <1>13, <1>16 DEF Inv

LEMMA SendKeeps ==
    ASSUME Inv(th, st), NEW t \in Threads, NEW c \in Calls, Send(t, c) PROVE Inv(th', st')
<1>1. st[c] = "new" /\ To[c] # t /\ Top(t).pc \in Below
  BY DEF Send, Executes, Below
<1>2. CASE th[To[c]].fStop
  <2>1. th' = th /\ st' = [st EXCEPT ![c] = "refused"]
    BY <1>2 DEF Send
  <2>2. th \in [Threads -> States] /\ st \in [Calls -> Phases] /\ TypeInv(th, st)
    BY DEF Inv, TypeInv
  <2>3. st' \in [Calls -> Phases] /\ st'[c] = "refused" /\ \A d \in Calls : d # c => st'[d] = st[d]
    BY <2>1, <2>2 DEF Phases
  <2>4. \A d \in Calls : (IsReady(st', d) => IsReady(st, d)) /\ (st'[d] = "new" => st[d] = "new")
    BY <2>3 DEF IsReady
  <2>5. \A u \in Threads : th[u].has_sends \/ th[u].sendlist = <<>>
    BY DEF Inv, CallInv
  <2>6. Around(th, st, th, st')
    BY <2>2, <2>3, <2>4, <2>5 DEF Around
  <2>7. Inv(th, st')
    BY <2>6, AroundKeeps
  <2> QED BY <2>1, <2>7
<1>3. CASE ~th[To[c]].fStop
  <2>1. PICK U : U = th'
    OBVIOUS
  <2>2. PICK R : R = st'
    OBVIOUS
  <2>3. U = [th EXCEPT ![t] = Enter(th[t], Frame(c, "push"))] /\ R = [st EXCEPT ![c] = "open"]
    BY <1>3, <2>1, <2>2 DEF Send, Step
  <2>4. Inv(U, R)
    BY <1>1, <2>3, EnterKeeps
  <2> QED BY <2>1, <2>2, <2>4
<1> QED BY <1>2, <1>3

Appended(l, q, e, F) ==
    l \in Seq(F) /\ \A k \in DOMAIN l : l[k] = e \/ (k \in DOMAIN q /\ l[k] = q[k])

LEMMA AppendHas ==
    ASSUME NEW F, NEW q \in Seq(F), NEW e \in F PROVE Appended(Append(q, e), q, e, F)
BY DEF Appended

\* A new entry in the list of the target, which its maker is about to wake.
LEMMA ListKeeps ==
    ASSUME NEW T, NEW S, Inv(T, S), NEW t \in Threads, NEW c \in Calls,
           Topmost(T[t]).pc = "wake", Topmost(T[t]).call = c,
           NEW u \in Threads \ {t}, To[c] = u,
           NEW l, l = Append(T[u].sendlist, <<c, t>>),
           NEW r, r = [T[u] EXCEPT !.sendlist = l, !.has_sends = TRUE],
           NEW U, U = [T EXCEPT ![u] = r]
    PROVE  Inv(U, S)
<1>1. /\ T \in [Threads -> States] /\ S \in [Calls -> Phases] /\ T[u] \in States
      /\ T[u].sendlist \in Seq(Entries) /\ <<c, t>> \in Entries /\ StackInv(T[t].stack, t)
  <2>1. T \in [Threads -> States] /\ S \in [Calls -> Phases] /\ StackInv(T[t].stack, t)
    BY DEF Inv, TypeInv
  <2>2. T[u] \in States
    BY <2>1
  <2> QED BY <2>1, <2>2 DEF States, Entries
<1>2. /\ l \in Seq(Entries)
      /\ \A m \in Entries : (\E k \in DOMAIN l : l[k] = m) =>
            m = <<c, t>> \/ \E k \in DOMAIN T[u].sendlist : T[u].sendlist[k] = m
  <2>1. PICK e \in Entries : e = <<c, t>>
    BY <1>1
  <2>2. PICK q \in Seq(Entries) : q = T[u].sendlist
    BY <1>1
  <2>3. l = Append(q, e)
    BY <2>1, <2>2
  <2>4. l \in Seq(Entries) /\ \A k \in DOMAIN l : l[k] = e \/ (k \in DOMAIN q /\ l[k] = q[k])
    <3>1. Appended(Append(q, e), q, e, Entries)
      BY AppendHas
    <3> QED BY <2>3, <3>1 DEF Appended
  <2> QED BY <2>1, <2>2, <2>4
<1>3. /\ r \in States /\ r.stack = T[u].stack /\ r.sendlist = l /\ r.has_sends
      /\ r.msgq = T[u].msgq /\ r.fStop = T[u].fStop /\ r.signaled = T[u].signaled
  BY <1>1, <1>2 DEF States
<1>4. U \in [Threads -> States] /\ U[u] = r /\ \A x \in Threads : x # u => U[x] = T[x]
  BY <1>1, <1>3
<1>5. \A x \in Threads : /\ U[x].stack = T[x].stack /\ U[x].msgq = T[x].msgq
                         /\ U[x].fStop = T[x].fStop /\ U[x].signaled = T[x].signaled
  BY <1>3, <1>4
<1>6. TypeInv(U, S)
  BY SMTT(40), <1>4, <1>5 DEF Inv, TypeInv
<1>7. /\ \A x \in Threads : \A d : (Makes(U[x], d) <=> Makes(T[x], d)) /\ (Keeps(U[x], d) <=> Keeps(T[x], d))
      /\ \A d : Waker(U, d) <=> Waker(T, d)
      /\ \A x, d : Server(U, x, d) <=> Server(T, x, d)
  BY SMTT(40), <1>5 DEF Makes, Keeps, Waker, Server, Topmost
<1>8. \A x \in Threads, m \in Entries : Lists(U[x], m) => Lists(T[x], m) \/ (x = u /\ m = <<c, t>>)
  BY <1>2, <1>3, <1>4 DEF Lists
<1>9. Makes(T[t], c)
  <2>1. Len(T[t].stack) \in DOMAIN T[t].stack
    BY <1>1 DEF StackInv
  <2> QED BY <2>1 DEF Makes, Topmost
<1>10. \A d \in Calls, v \in Threads : <<d, v>> \in Entries
  BY DEF Entries
<1>11. ASSUME NEW x \in Threads, NEW d \in Calls, NEW v \in Threads, Has(U[x], <<d, v>>)
       PROVE  Has(T[x], <<d, v>>) \/ (x = u /\ d = c /\ v = t)
  BY <1>7, <1>8, <1>10, <1>11 DEF Has
<1>12. CallInv(U, S)
  <2>0. CallInv(T, S)
    BY DEF Inv
  <2>2. \A d \in Calls, x, y \in Threads : Makes(U[x], d) /\ Makes(U[y], d) => x = y
    BY <1>7, <2>0 DEF CallInv
  <2>3. \A d \in Calls, x \in Threads : Makes(U[x], d) => S[d] # "new"
    BY <1>7, <2>0 DEF CallInv
  <2>4. \A d \in Calls, x, v \in Threads : Has(U[x], <<d, v>>) => S[d] # "new"
    BY <1>9, <1>11, <2>0 DEF CallInv
  <2>5. ASSUME NEW d \in Calls, NEW x \in Threads, NEW y \in Threads, NEW v \in Threads,
               Has(U[x], <<d, v>>), Makes(U[y], d)
        PROVE  y = v
    <3>1. Makes(T[y], d)
      BY <1>7, <2>5
    <3>2. CASE Has(T[x], <<d, v>>)
      BY <2>0, <3>1, <3>2 DEF CallInv
    <3>3. CASE d = c /\ v = t
      BY <1>9, <2>0, <3>1, <3>3 DEF CallInv
    <3> QED BY <1>11, <2>5, <3>2, <3>3
  <2>6. \A d \in Calls, x, v \in Threads : Lists(U[x], <<d, v>>) => To[d] = x
    BY <1>8, <1>10, <2>0 DEF CallInv
  <2>7. \A d \in Calls, x, v \in Threads : Has(U[x], <<d, v>>) => v # x
    BY <1>11, <2>0 DEF CallInv
  <2>8. \A x \in Threads : U[x].has_sends \/ U[x].sendlist = <<>>
    BY <1>3, <1>4, <2>0 DEF CallInv
  <2> QED BY <2>2, <2>3, <2>4, <2>5, <2>6, <2>7, <2>8 DEF CallInv
<1>13. Waker(U, c)
  BY <1>7 DEF Waker
<1>14. ASSUME NEW x \in Threads PROVE RestInv(U, S, x)
  <2>1. SUFFICES ASSUME NEW i \in DOMAIN U[x].stack, ~Awake(U[x], i) PROVE Alert(U, S, x, i)
    BY DEF RestInv
  <2>2. i \in DOMAIN T[x].stack /\ U[x].stack[i] = T[x].stack[i] /\ ~Awake(T[x], i)
    BY <1>5, <2>1 DEF Awake
  <2>3. Alert(T, S, x, i)
    BY <2>2 DEF Inv, RestInv
  <2>4. \A d \in Calls, v \in Threads : Lists(U[x], <<d, v>>) => Lists(T[x], <<d, v>>) \/ d = c
    BY <1>8, <1>10
  <2> QED BY <1>5, <1>7, <1>13, <2>2, <2>3, <2>4 DEF Alert
<1> QED BY <1>6, <1>12, <1>14 DEF Inv

LEMMA PushKeeps ==
    ASSUME Inv(th, st), NEW t \in Threads, Push(t) PROVE Inv(th', st')
<1>1. /\ Top(t).pc = "push" /\ Top(t) = Topmost(th[t]) /\ st' = st
      /\ th[t] \in States /\ th[t].stack # <<>> /\ StackInv(th[t].stack, t)
      /\ Topmost(th[t]) = th[t].stack[Len(th[t].stack)] /\ Topmost(th[t]) \in Frames
      /\ Len(th[t].stack) \in Nat \ {0} /\ th[t].stack \in Seq(Frames)
      /\ th \in [Threads -> States]
  BY OfThread DEF Push, At
<1>2. Len(th[t].stack) # 1
  BY <1>1, PcOf DEF LoopPcs
<1>c. PICK c : c = Top(t).call
  OBVIOUS
<1>3. c \in Calls /\ To[c] # t
  <2>1. PICK n \in Nat \ {0} : n = Len(th[t].stack)
    BY <1>1
  <2>2. n \in DOMAIN th[t].stack /\ Top(t) = th[t].stack[n]
    BY <1>1, <2>1
  <2>3. n # 1
    BY <1>2, <2>1
  <2>4. n > 1
    BY <2>3
  <2> QED BY <1>1, <1>c, <2>2, <2>4 DEF StackInv
<1>u. PICK u \in Threads \ {t} : u = To[c]
  BY <1>3, ThreadsAssumption
<1>a. PICK a : a = Goes(th[t], "wake")
  OBVIOUS
<1>V. PICK V : V = [th EXCEPT ![t] = a]
  OBVIOUS
<1>4. Inv(V, st)
  <2>1. /\ GoesOn(th[t], a, "wake") /\ "wake" \in SendPcs
        /\ "wake" \notin {"serve", "ready"} /\ Top(t).pc \notin {"wake", "ready"}
    BY <1>1, <1>a, GoesGoesOn DEF SendPcs
  <2>2. Minds(th, st, a, t, "wake")
    BY <2>1 DEF Minds, GoesOn
  <2> QED BY <1>2, <1>V, <2>1, <2>2, GoKeeps
<1>5. a \in States /\ V \in [Threads -> States] /\ V[t] = a /\ \A v \in Threads : v # t => V[v] = th[v]
  <2>1. a \in States
    BY <1>a, GoesGoesOn DEF SendPcs, GoesOn
  <2> QED BY <1>1, <1>V, <2>1
<1>6. Topmost(V[t]).pc = "wake" /\ Topmost(V[t]).call = c
  <2>1. "wake" \in LoopPcs \cup SendPcs
    BY DEF SendPcs
  <2>2. a.stack = TopTo(th[t].stack, [Topmost(th[t]) EXCEPT !.pc = "wake"])
    BY <1>1, <1>a, <2>1, GoesIs
  <2>3. Topmost(a) = [Topmost(th[t]) EXCEPT !.pc = "wake"]
    BY <1>1, <2>2 DEF TopTo, Topmost
  <2> QED BY <1>1, <1>5, <1>c, <2>3 DEF Frames
<1>l. PICK l : l = Append(th[u].sendlist, <<c, t>>)
  OBVIOUS
<1>r. PICK r : r = [th[u] EXCEPT !.sendlist = l, !.has_sends = TRUE]
  OBVIOUS
<1>7. th' = [V EXCEPT ![u] = r]
  <2>1. th' = [th EXCEPT ![t] = a, ![u].sendlist = l, ![u].has_sends = TRUE]
    BY <1>a, <1>c, <1>l, <1>u DEF Push
  <2>2. PICK h : h = TRUE
    OBVIOUS
  <2>3. [th EXCEPT ![t] = a, ![u].sendlist = l, ![u].has_sends = h]
          = [V EXCEPT ![u] = [th[u] EXCEPT !.sendlist = l, !.has_sends = h]]
    BY <1>1, <1>V
  <2> QED BY <1>r, <2>1, <2>2, <2>3
<1>8. V[u] = th[u]
  BY <1>5
<1>9. Inv([V EXCEPT ![u] = r], st)
  <2>1. l = Append(V[u].sendlist, <<c, t>>) /\ r = [V[u] EXCEPT !.sendlist = l, !.has_sends = TRUE]
    BY <1>8, <1>l, <1>r
  <2> QED BY <1>3, <1>4, <1>6, <1>u, <2>1, ListKeeps
<1> QED BY SMTT(40), <1>1, <1>7, <1>9

LEMMA PostKeeps ==
    ASSUME Inv(th, st), NEW t \in Threads, NEW u \in Threads, Post(t, u)
    PROVE  Inv(th', st')
<1>1. th \in [Threads -> States] /\ st \in [Calls -> Phases] /\ st' = st /\ th[u] \in States
  BY OfThread DEF Post
<1>2. CASE th[u].fStop
  BY <1>1, <1>2 DEF Post
<1>3. CASE ~th[u].fStop
  <2>1. PICK r : r = WakeUp([th[u] EXCEPT !.msgq = th[u].msgq + 1])
    OBVIOUS
  <2>2. th' = [th EXCEPT ![u] = r]
    BY <1>3, <2>1 DEF Post
  <2>3. /\ r \in States /\ r.stack = th[u].stack /\ r.sendlist = th[u].sendlist /\ r.signaled
        /\ r.has_sends = th[u].has_sends
    <3>1. PICK k \in Nat : k = th[u].msgq + 1
      BY <1>1 DEF States
    <3>2. r = [th[u] EXCEPT !.msgq = k, !.signaled = TRUE]
      BY <1>1, <2>1, <3>1 DEF WakeUp, States
    <3> QED BY <1>1, <3>2 DEF States
  <2>4. Inv(th', st)
    BY <1>1, <2>2, <2>3, SignalKeeps
  <2> QED BY <1>1, <2>4
<1> QED BY <1>2, <1>3

LEMMA QuitKeeps ==
    ASSUME Inv(th, st), NEW t \in Threads, NEW u \in Threads, Quit(t, u)
    PROVE  Inv(th', st')
<1>1. th \in [Threads -> States] /\ st \in [Calls -> Phases] /\ st' = st /\ th[u] \in States
  BY OfThread DEF Quit
<1>2. PICK r : r = WakeUp([th[u] EXCEPT !.fStop = TRUE])
  OBVIOUS
<1>3. th' = [th EXCEPT ![u] = r]
  BY <1>2 DEF Quit
<1>4. /\ r \in States /\ r.stack = th[u].stack /\ r.sendlist = th[u].sendlist /\ r.signaled
      /\ r.has_sends = th[u].has_sends
  <2>1. r = [th[u] EXCEPT !.fStop = TRUE, !.signaled = TRUE]
    BY <1>1, <1>2 DEF WakeUp, States
  <2> QED BY <1>1, <2>1 DEF States
<1>5. Inv(th', st)
  BY <1>3, <1>4, SignalKeeps
<1> QED BY <1>1, <1>5

\* Every call in a list was made by the thread that its entry names.
LEMMA ListedIs ==
    ASSUME Inv(th, st), NEW u \in Threads
    PROVE  /\ th[u].sendlist \in Seq(Entries)
           /\ \A c \in ListedCalls(u) : c \in Calls /\ \E v \in Threads : Lists(th[u], <<c, v>>)
           /\ \A m : m \in ToSet(th[u].sendlist) <=> Lists(th[u], m)
<1>1. th[u] \in States
  BY OfThread
<1>2. th[u].sendlist \in Seq(Entries)
  BY <1>1 DEF States
<1>3. \A m : m \in ToSet(th[u].sendlist) <=> Lists(th[u], m)
  BY <1>2 DEF ToSet, Lists
<1>4. \A m \in ToSet(th[u].sendlist) : m \in Entries
  BY <1>2 DEF ToSet
<1>5. ASSUME NEW c \in ListedCalls(u)
      PROVE  c \in Calls /\ \E v \in Threads : Lists(th[u], <<c, v>>)
  <2>1. PICK m \in ToSet(th[u].sendlist) : c = m[1]
    BY DEF ListedCalls
  <2>2. m = <<m[1], m[2]>> /\ m[1] \in Calls /\ m[2] \in Threads
    BY <1>4 DEF Entries
  <2> QED BY <1>3, <2>1, <2>2
<1> QED BY <1>2, <1>3, <1>5

\* The calls in S are ready, and whoever makes one of them is woken.
LEMMA ClearedCalls ==
    ASSUME Inv(th, st), NEW S, S \subseteq Calls, \A c \in S : st[c] # "new",
           NEW R, R = [c \in Calls |-> IF c \in S THEN "cleared" ELSE st[c]]
    PROVE  /\ R \in [Calls -> Phases]
           /\ \A c \in Calls : R[c] = "new" => st[c] = "new"
           /\ \A c \in Calls : IsReady(R, c) => IsReady(st, c) \/ c \in S
<1>1. st \in [Calls -> Phases]
  BY DEF Inv, TypeInv
<1>2. R \in [Calls -> Phases]
  BY <1>1 DEF Phases
<1> QED BY <1>2 DEF IsReady

LEMMA DestroyObjectKeeps ==
    ASSUME Inv(th, st), NEW t \in Threads, NEW o \in Mortal, DestroyObject(t, o)
    PROVE  Inv(th', st')
<1>S. PICK S : S = {c \in Calls : Obj[c] = o /\ st[c] = "open"}
  OBVIOUS
<1>1. S \subseteq Unserved /\ Clear(S) /\ S \subseteq Calls /\ \A c \in S : st[c] # "new"
  BY <1>S DEF DestroyObject
<1>w. PICK woken : woken = {m[2] : m \in {n \in UNION {ToSet(th[u].sendlist) : u \in Threads} : n[1] \in S}}
  OBVIOUS
<1>P. PICK P : P = S \X Threads
  OBVIOUS
<1>2. /\ st' = [c \in Calls |-> IF c \in S THEN "cleared" ELSE st[c]]
      /\ th' = [u \in Threads |-> [th[u] EXCEPT !.sendlist = Without(th[u].sendlist, P),
                                                !.signaled = th[u].signaled \/ u \in woken]]
  BY <1>1, <1>w, <1>P DEF Clear
<1>3. /\ st' \in [Calls -> Phases]
      /\ \A c \in Calls : st'[c] = "new" => st[c] = "new"
      /\ \A c \in Calls : IsReady(st', c) => IsReady(st, c) \/ c \in S
  <2>1. PICK R : R = st'
    OBVIOUS
  <2>2. /\ R \in [Calls -> Phases]
        /\ \A c \in Calls : R[c] = "new" => st[c] = "new"
        /\ \A c \in Calls : IsReady(R, c) => IsReady(st, c) \/ c \in S
    BY <1>1, <1>2, <2>1, ClearedCalls
  <2> QED BY <2>1, <2>2
<1>4. ASSUME NEW u \in Threads
      PROVE  /\ th'[u] \in States /\ th'[u].stack = th[u].stack
             /\ th'[u].sendlist = Without(th[u].sendlist, P)
             /\ th'[u].signaled = (th[u].signaled \/ u \in woken)
             /\ th'[u].msgq = th[u].msgq /\ th'[u].fStop = th[u].fStop
             /\ th'[u].has_sends = th[u].has_sends
  <2>1. th[u] \in States /\ th[u].sendlist \in Seq(Entries)
    BY OfThread DEF States
  <2>2. PICK l \in Seq(Entries) : l = Without(th[u].sendlist, P)
    BY <2>1, CountWithout
  <2>3. PICK w \in BOOLEAN : w = (th[u].signaled \/ u \in woken)
    OBVIOUS
  <2>4. th'[u] = [th[u] EXCEPT !.sendlist = l, !.signaled = w]
    BY <1>2, <2>2, <2>3
  <2>5. th'[u] \in States
    BY <2>1, <2>4 DEF States
  <2>6. /\ th'[u].stack = th[u].stack /\ th'[u].sendlist = l /\ th'[u].signaled = w
        /\ th'[u].msgq = th[u].msgq /\ th'[u].fStop = th[u].fStop
        /\ th'[u].has_sends = th[u].has_sends
    BY <2>1, <2>4 DEF States
  <2> QED BY <2>2, <2>3, <2>5, <2>6
<1>5. th' \in [Threads -> States]
  BY <1>2, <1>4
<1>6. ASSUME NEW u \in Threads, NEW m \in Entries, Lists(th'[u], m) PROVE Lists(th[u], m)
  <2>1. th[u].sendlist \in Seq(Entries)
    BY ListedIs
  <2>q. PICK q \in Seq(Entries) : q = th[u].sendlist
    BY <2>1
  <2>2. \E i \in DOMAIN Without(q, P) : Without(q, P)[i] = m
    BY <1>4, <1>6, <2>q DEF Lists
  <2>3. \E i \in DOMAIN q : q[i] = m
    <3>1. (\E i \in DOMAIN Without(q, P) : Without(q, P)[i] = m)
             <=> m \notin P /\ \E i \in DOMAIN q : q[i] = m
      BY HeldWithout, ZenonT(30)
    <3> QED BY <2>2, <3>1
  <2> QED BY <2>3, <2>q DEF Lists
<1>7. ASSUME NEW u \in Threads PROVE th'[u].has_sends \/ th'[u].sendlist = <<>>
  <2>1. th[u].has_sends \/ th[u].sendlist = <<>>
    BY DEF Inv, CallInv
  <2>2. th[u].sendlist = <<>> => Without(th[u].sendlist, P) = <<>>
    <3>1. th[u].sendlist \in Seq(Entries)
      BY ListedIs
    <3> QED BY <3>1, WithoutEmpty
  <2> QED BY <1>4, <2>1, <2>2
<1>8. ASSUME NEW u \in Threads, NEW c \in Calls, c \in S, Makes(th[u], c) PROVE u \in woken
  <2>1. PICK x \in Threads : c \in ListedCalls(x)
    BY <1>1, <1>8 DEF Unserved
  <2>2. PICK v \in Threads : Lists(th[x], <<c, v>>)
    BY <2>1, ListedIs
  <2>3. u = v
    BY <1>8, <2>2 DEF Inv, CallInv, Has
  <2>4. <<c, u>> \in ToSet(th[x].sendlist)
    BY <2>2, <2>3, ListedIs
  <2>5. <<c, u>> \in {n \in UNION {ToSet(th[y].sendlist) : y \in Threads} : n[1] \in S}
    BY <1>8, <2>4
  <2> QED BY <1>w, <2>5
<1>9. Around(th, st, th', st')
  <2>1. TypeInv(th, st)
    BY DEF Inv
  <2>2. \A u \in Threads, c \in Calls :
            IsReady(st', c) /\ Makes(th[u], c) => IsReady(st, c) \/ th'[u].signaled
    BY <1>3, <1>4, <1>8
  <2> QED BY <1>3, <1>4, <1>5, <1>6, <1>7, <2>1, <2>2 DEF Around
<1> QED BY <1>9, AroundKeeps

LEMMA DeleteThreadKeeps ==
    ASSUME Inv(th, st), NEW u \in Threads, DeleteThread(u) PROVE Inv(th', st')
<1>1. /\ Top(u).pc = "ended" /\ Top(u) = Topmost(th[u])
      /\ th[u] \in States /\ th[u].stack # <<>> /\ StackInv(th[u].stack, u)
      /\ Topmost(th[u]) = th[u].stack[Len(th[u].stack)]
      /\ th[u].stack \in Seq(Frames) /\ th \in [Threads -> States]
  BY OfThread DEF DeleteThread, At
<1>2. Len(th[u].stack) = 1
  BY <1>1, PcOf DEF SendPcs
<1>S. PICK S : S = ListedCalls(u)
  OBVIOUS
<1>w. PICK woken : woken = {m[2] : m \in ToSet(th[u].sendlist)}
  OBVIOUS
<1>3. S \subseteq Calls /\ \A c \in S : st[c] # "new"
  <2>1. \A c \in S : c \in Calls /\ \E v \in Threads : Lists(th[u], <<c, v>>)
    BY <1>S, ListedIs
  <2> QED BY <2>1 DEF Inv, CallInv, Has
<1>a. PICK a : a = Goes(th[u], "gone")
  OBVIOUS
<1>b. PICK b : b = [a EXCEPT !.sendlist = <<>>, !.msgq = 0]
  OBVIOUS
<1>4. /\ st' = [c \in Calls |-> IF c \in S THEN "cleared" ELSE st[c]]
      /\ th' = [t \in Threads |-> IF t = u THEN b
                                  ELSE IF t \in woken THEN WakeUp(th[t]) ELSE th[t]]
  BY <1>S, <1>w, <1>a, <1>b DEF DeleteThread
<1>5. /\ st' \in [Calls -> Phases]
      /\ \A c \in Calls : st'[c] = "new" => st[c] = "new"
      /\ \A c \in Calls : IsReady(st', c) => IsReady(st, c) \/ c \in S
  <2>1. PICK R : R = st'
    OBVIOUS
  <2>2. /\ R \in [Calls -> Phases]
        /\ \A c \in Calls : R[c] = "new" => st[c] = "new"
        /\ \A c \in Calls : IsReady(R, c) => IsReady(st, c) \/ c \in S
    BY <1>3, <1>4, <2>1, ClearedCalls
  <2> QED BY <2>1, <2>2
<1>e. PICK e : e = [th[u] EXCEPT !.sendlist = <<>>]
  OBVIOUS
<1>6. /\ e \in States /\ e.stack = th[u].stack /\ e.sendlist = <<>> /\ e.signaled = th[u].signaled
      /\ e.msgq = th[u].msgq /\ e.fStop = th[u].fStop
  <2>0. PICK k : k = <<>>
    OBVIOUS
  <2>k. k \in Seq(Entries)
    BY <2>0
  <2>1. PICK l \in Seq(Entries) : l = <<>>
    BY <2>0, <2>k
  <2>2. e = [th[u] EXCEPT !.sendlist = l]
    BY <1>e, <2>1
  <2>3. e \in States
    BY <1>1, <2>2 DEF States
  <2> QED BY <1>1, <2>1, <2>2, <2>3 DEF States
<1>7. ASSUME NEW t \in Threads
      PROVE  /\ WakeUp(th[t]) \in States /\ WakeUp(th[t]).stack = th[t].stack
             /\ WakeUp(th[t]).signaled /\ WakeUp(th[t]).sendlist = th[t].sendlist
             /\ WakeUp(th[t]).has_sends = th[t].has_sends
  <2>1. th[t] \in States
    BY <1>1
  <2> QED BY <2>1 DEF WakeUp, States
<1>V. PICK V : V = [t \in Threads |-> IF t = u THEN e
                                      ELSE IF t \in woken THEN WakeUp(th[t]) ELSE th[t]]
  OBVIOUS
<1>8. V \in [Threads -> States] /\ V[u] = e
  BY <1>1, <1>6, <1>7, <1>V
<1>9. ASSUME NEW t \in Threads, t # u
      PROVE  /\ V[t].stack = th[t].stack /\ V[t].sendlist = th[t].sendlist
             /\ V[t].has_sends = th[t].has_sends
             /\ th[t].signaled => V[t].signaled
             /\ t \in woken => V[t].signaled
             /\ V[t].signaled \/ (V[t].msgq = th[t].msgq /\ V[t].fStop = th[t].fStop)
  <2>1. CASE t \in woken
    BY <1>7, <1>9, <1>V, <2>1
  <2>2. CASE t \notin woken
    BY <1>9, <1>V, <2>2
  <2> QED BY <2>1, <2>2
<1>10. ASSUME NEW t \in Threads, NEW c \in Calls, c \in S, Makes(th[t], c)
       PROVE  t \in woken /\ t # u
  <2>1. PICK v \in Threads : Lists(th[u], <<c, v>>)
    BY <1>10, <1>S, ListedIs
  <2>2. t = v /\ v # u
    BY <1>10, <2>1 DEF Inv, CallInv, Has
  <2>3. <<c, t>> \in ToSet(th[u].sendlist)
    BY <2>1, <2>2, ListedIs
  <2> QED BY <1>w, <2>2, <2>3
<1>11. Around(th, st, V, st')
  <2>1. TypeInv(th, st)
    BY DEF Inv
  <2>2. \A t \in Threads, c \in Calls :
            IsReady(st', c) /\ Makes(th[t], c) => IsReady(st, c) \/ V[t].signaled
    BY <1>5, <1>9, <1>10
  <2>3. ASSUME NEW t \in Threads PROVE V[t].has_sends \/ V[t].sendlist = <<>>
    <3>1. th[t].has_sends \/ th[t].sendlist = <<>>
      BY DEF Inv, CallInv
    <3>2. CASE t = u
      BY <1>6, <1>8, <3>2
    <3>3. CASE t # u
      BY <1>9, <3>1, <3>3
    <3> QED BY <3>2, <3>3
  <2>4. ASSUME NEW t \in Threads, NEW m \in Entries, Lists(V[t], m) PROVE Lists(th[t], m)
    BY <1>6, <1>8, <1>9, <2>4 DEF Lists
  <2>5. ASSUME NEW t \in Threads
        PROVE  /\ V[t].stack = th[t].stack
               /\ th[t].signaled => V[t].signaled
               /\ V[t].signaled \/ (V[t].msgq = th[t].msgq /\ V[t].fStop = th[t].fStop)
    <3>1. CASE t = u
      BY <1>6, <1>8, <3>1
    <3>2. CASE t # u
      BY <1>9, <3>2
    <3> QED BY <3>1, <3>2
  <2> QED BY <1>5, <1>8, <2>1, <2>2, <2>3, <2>4, <2>5 DEF Around
<1>12. Inv(V, st')
  BY <1>11, AroundKeeps
<1>13. /\ a \in States /\ Frame7(th[u], a) /\ a.stack = TopTo(th[u].stack, To0(Topmost(th[u]), "gone"))
  BY <1>a, GoesGoesOn DEF GoesOn, LoopPcs
<1>14. b \in States /\ b.stack = a.stack /\ b.sendlist = <<>> /\ b.signaled = a.signaled
  <2>0. PICK k : k = <<>>
    OBVIOUS
  <2>k. k \in Seq(Entries)
    BY <2>0
  <2>1. PICK l \in Seq(Entries) : l = <<>>
    BY <2>0, <2>k
  <2>2. b = [a EXCEPT !.sendlist = l, !.msgq = 0]
    BY <1>b, <2>1
  <2>3. b \in States
    BY <1>13, <2>2 DEF States
  <2> QED BY <1>13, <2>1, <2>2, <2>3 DEF States
<1>f. PICK f : f = To0(Topmost(th[u]), "gone")
  OBVIOUS
<1>15. /\ Replaces(f, Topmost(th[u]), Len(th[u].stack)) /\ f.pc = "gone"
       /\ f.waited = Topmost(th[u]).waited
  <2>1. "gone" \in LoopPcs /\ "gone" \notin {"serve", "ready"}
    BY DEF LoopPcs
  <2> QED BY <1>1, <1>2, <1>f, <2>1, PcReplaces
<1>16. th'[u] = b /\ th' \in [Threads -> States] /\ \A t \in Threads : t # u => th'[t] = V[t]
  BY <1>1, <1>4, <1>7, <1>14, <1>V
<1>17. V[u].stack = th[u].stack /\ Topmost(V[u]) = Topmost(th[u])
  BY <1>6, <1>8 DEF Topmost
<1>18. \A m \in Entries : ~Lists(b, m)
  BY <1>14 DEF Lists
<1>19. Minds(V, st', b, u, f.pc)
  <2>1. V[u].signaled => b.signaled
    BY <1>6, <1>8, <1>13, <1>14 DEF Frame7
  <2>2. Len(V[u].stack) = 1
    BY <1>2, <1>17
  <2> QED BY <1>15, <2>1, <2>2 DEF Minds
<1>20. b.stack = TopTo(V[u].stack, f)
  BY <1>13, <1>14, <1>17, <1>f
<1>21. /\ Topmost(V[u]).pc = "ended" /\ Replaces(f, Topmost(V[u]), Len(V[u].stack))
       /\ Len(V[u].stack) = 1 /\ f.waited = Topmost(V[u]).waited
  BY <1>1, <1>2, <1>15, <1>17
<1>22. Own(V, st', th', st', u, f)
  BY <1>5, <1>14, <1>15, <1>16, <1>18, <1>19, <1>20, <1>21 DEF Own
<1> QED BY <1>12, <1>22, OwnKeeps

-----------------------------------------------------------------------------
(* The theorems.                                                           *)

LEMMA InitInv == Init => ThreadsInv
<1>1. SUFFICES ASSUME Init PROVE Inv(th, st)
  BY DEF ThreadsInv
<1>f. PICK f : f = Frame(None, "recv")
  OBVIOUS
<1>2. f \in Frames /\ f.call = None /\ f.pc = "recv" /\ ~f.waited
  BY <1>f DEF Frame, Frames, LoopPcs
<1>l. PICK l : l = << >>
  OBVIOUS
<1>k. PICK k : k = <<f>>
  OBVIOUS
<1>3. k \in Seq(Frames) /\ Len(k) = 1 /\ DOMAIN k = {1} /\ k[1] = f /\ k # <<>>
  BY <1>2, <1>k
<1>s. PICK s : s = [stack |-> k, sendlist |-> l, has_sends |-> FALSE, fStop |-> FALSE,
                    signaled |-> FALSE, fWait |-> FALSE, msgq |-> 0]
  OBVIOUS
<1>4. s.stack = k /\ s.sendlist = l /\ s.msgq = 0 /\ ~s.signaled
  BY <1>s
<1>5. s \in States
  <2>1. l \in Seq(Entries)
    BY <1>l
  <2> QED BY <1>3, <1>s, <2>1 DEF States
<1>6. th \in [Threads -> States] /\ \A t \in Threads : th[t] = s
  <2>1. th = [t \in Threads |-> s]
    BY <1>1, <1>s, <1>k, <1>f, <1>l DEF Init
  <2> QED BY <1>5, <2>1
<1>7. st \in [Calls -> Phases] /\ \A c \in Calls : st[c] = "new"
  BY <1>1 DEF Init, Phases
<1>8. ASSUME NEW t \in Threads PROVE StackInv(th[t].stack, t)
  <2>1. \A i \in DOMAIN k : ~(i > 1) /\ ~(i < Len(k)) /\ k[i].pc \notin {"serve", "ready"}
    BY <1>2, <1>3
  <2>2. StackInv(k, t)
    BY <1>2, <1>3, <2>1 DEF StackInv, LoopPcs
  <2> QED BY <1>4, <1>6, <2>2
<1>9. TypeInv(th, st)
  BY <1>6, <1>7, <1>8 DEF TypeInv
<1>10. \A m : ~Lists(s, m) /\ ~Keeps(s, m)
  BY <1>2, <1>3, <1>4, <1>l DEF Lists, Keeps
<1>11. \A c \in Calls : ~Makes(s, c)
  BY <1>2, <1>3, <1>4, ThreadsAssumption DEF Makes
<1>12. CallInv(th, st)
  BY <1>4, <1>6, <1>10, <1>11, <1>l DEF CallInv, Has
<1>13. \A t \in Threads : RestInv(th, st, t)
  BY <1>2, <1>3, <1>4, <1>6 DEF RestInv, Alert
<1> QED BY <1>9, <1>12, <1>13 DEF Inv

LEMMA NextInv == ThreadsInv /\ [Next]_vars => ThreadsInv'
<1>1. SUFFICES ASSUME Inv(th, st), [Next]_vars PROVE Inv(th', st')
  BY DEF ThreadsInv
<1>2. CASE UNCHANGED vars
  BY <1>1, <1>2 DEF vars
<1>3. ASSUME NEW t \in Threads, Run(t) \/ ServeSocket(t) PROVE Inv(th', st')
  BY <1>1, <1>3, PushKeeps, WakeTargetKeeps, TestReadyKeeps, TestSendsKeeps, PopSendKeeps,
     EndServeKeeps, WakeSenderKeeps, GetMessageKeeps, EndDispatchKeeps, EndWaitKeeps,
     EndSocketKeeps, DeleteThreadKeeps, ServeSocketKeeps DEF Run
<1>4. ASSUME NEW t \in Threads, NEW c \in Calls, Send(t, c) PROVE Inv(th', st')
  BY <1>1, <1>4, SendKeeps
<1>5. ASSUME NEW t \in Threads, NEW u \in Threads, Post(t, u) \/ Quit(t, u) PROVE Inv(th', st')
  BY <1>1, <1>5, PostKeeps, QuitKeeps
<1>6. ASSUME NEW t \in Threads, NEW o \in Mortal, DestroyObject(t, o) PROVE Inv(th', st')
  BY <1>1, <1>6, DestroyObjectKeeps
<1> QED BY <1>1, <1>2, <1>3, <1>4, <1>5, <1>6 DEF Next

\* The invariant of the threads: the shape of the stacks, who makes and who
\* has a call, and that no frame sleeps over anything that nobody will wake
\* it for, at any depth of nested Sends.
THEOREM ThreadsInvariant == Spec => []ThreadsInv
BY InitInv, NextInv, PTL DEF Spec

\* Nobody sleeps while there is something to do, whatever the threads, calls,
\* posts, stops and destructions: Send's wake-ups are never lost.
THEOREM NobodySleepsOnWork == Spec => []NobodyOversleeps
<1>1. ThreadsInv => NobodyOversleeps
  <2>1. SUFFICES ASSUME Inv(th, st), NEW t \in Threads, At(t, "wait"), ~th[t].signaled
                 PROVE  /\ \A c \in ListedCalls(t) :
                              \E u \in Threads : At(u, "wake") /\ Top(u).call = c
                        /\ IF InLoop(t) THEN th[t].msgq = 0 /\ ~th[t].fStop
                           ELSE Ready(Top(t).call) =>
                              \E u \in Threads : At(u, "ready") /\ Top(u).smsg = <<Top(t).call, t>>
    BY DEF ThreadsInv, NobodyOversleeps
  <2>n. PICK n : n = Len(th[t].stack)
    OBVIOUS
  <2>2. /\ n \in Nat \ {0} /\ (InLoop(t) <=> n = 1) /\ Top(t) = th[t].stack[n]
        /\ Top(t).pc = "wait" /\ th[t].stack \in Seq(Frames)
    BY <2>1, <2>n, OfThread DEF At
  <2>3. n \in DOMAIN th[t].stack /\ (n # 1 => n > 1) /\ \A j \in DOMAIN th[t].stack : ~(j > n)
    <3>1. n # 1 => n > 1
      BY <2>2
    <3>2. DOMAIN th[t].stack = 1 .. n
      BY <2>2, <2>n
    <3> QED BY <2>2, <3>1, <3>2
  <2>4. Alert(th, st, t, n)
    BY <2>1, <2>3 DEF Inv, RestInv, Awake
  <2>5. \A u \in Threads : Topmost(th[u]) = Top(u)
    BY <2>1, OfThread
  <2>6. ASSUME NEW c \in ListedCalls(t)
        PROVE  \E u \in Threads : At(u, "wake") /\ Top(u).call = c
    <3>1. c \in Calls /\ \E v \in Threads : Lists(th[t], <<c, v>>)
      BY <2>1, ListedIs
    <3>2. Waker(th, c)
      BY <2>2, <2>4, <3>1 DEF Alert
    <3> QED BY <2>5, <3>2 DEF Waker, At
  <2>7. n = 1 => th[t].msgq = 0 /\ ~th[t].fStop
    BY <2>2, <2>4 DEF Alert
  <2>8. n # 1 /\ Ready(Top(t).call) => Server(th, t, Top(t).call)
    BY <2>2, <2>3, <2>4 DEF Alert, Ready, IsReady
  <2>9. Server(th, t, Top(t).call) =>
            \E u \in Threads : At(u, "ready") /\ Top(u).smsg = <<Top(t).call, t>>
    BY <2>5 DEF Server, At
  <2> QED BY <2>2, <2>6, <2>7, <2>8, <2>9
<1> QED BY <1>1, ThreadsInvariant, PTL

-----------------------------------------------------------------------------
(* The refinement: Send is a synchronous call.  First the nesting that the *)
(* stacks show, then where each call is, then what each kind of step does  *)
(* to both.                                                                *)

-----------------------------------------------------------------------------
(* The nesting of a stack.                                                 *)

Items == {"made", "served"} \X Calls

\* A frame that serves has an entry.
Fit(f) == f \in Frames /\ (f.pc = "serve" => f.smsg \in Entries)

\* What f makes, above the frames k and below what f serves.
Base(k, f) == IF f.call = None THEN Nest(k) ELSE Append(Nest(k), <<"made", f.call>>)

LEMMA FrameNestIs ==
    ASSUME NEW f, Fit(f)
    PROVE  /\ FrameNest(f) \in Seq(Items)
           /\ \A q \in Seq(Items) : q \o FrameNest(f) =
                 LET b == IF f.call = None THEN q ELSE Append(q, <<"made", f.call>>)
                 IN  IF f.pc = "serve" THEN Append(b, <<"served", f.smsg[1]>>) ELSE b
<1>1. f.call \in Calls \cup {None} /\ (f.pc = "serve" => f.smsg[1] \in Calls)
  BY DEF Fit, Frames, Entries
<1>a. PICK a : a = <<"made", f.call>>
  OBVIOUS
<1>b. PICK b : b = <<"served", f.smsg[1]>>
  OBVIOUS
<1>2. (f.call # None => a \in Items) /\ (f.pc = "serve" => b \in Items)
  BY <1>1, <1>a, <1>b DEF Items
<1>3. FrameNest(f) = (IF f.call = None THEN <<>> ELSE <<a>>) \o
                     (IF f.pc = "serve" THEN <<b>> ELSE <<>>)
  BY <1>a, <1>b DEF FrameNest
<1>4. ASSUME NEW q \in Seq(Items)
      PROVE  /\ f.call # None => Append(q, a) = q \o <<a>> /\ Append(q, a) \in Seq(Items)
             /\ f.pc = "serve" => Append(q, b) = q \o <<b>>
             /\ q \o <<>> = q
  BY <1>2
<1>5. CASE f.call = None /\ f.pc # "serve"
  <2>1. FrameNest(f) = <<>>
    BY <1>3, <1>5
  <2>2. <<>> \in Seq(Items)
    OBVIOUS
  <2> QED BY <1>4, <1>5, <2>1, <2>2
<1>6. CASE f.call # None /\ f.pc # "serve"
  <2>1. FrameNest(f) = <<a>>
    BY <1>2, <1>3, <1>6
  <2>2. <<a>> \in Seq(Items)
    BY <1>2, <1>6
  <2> QED BY <1>4, <1>6, <1>a, <2>1, <2>2
<1>7. CASE f.call = None /\ f.pc = "serve"
  <2>1. FrameNest(f) = <<b>>
    BY <1>2, <1>3, <1>7
  <2>2. <<b>> \in Seq(Items)
    BY <1>2, <1>7
  <2> QED BY <1>4, <1>7, <1>b, <2>1, <2>2
<1>8. CASE f.call # None /\ f.pc = "serve"
  <2>1. <<a>> \in Seq(Items) /\ <<b>> \in Seq(Items)
    BY <1>2, <1>8
  <2>2. FrameNest(f) = <<a>> \o <<b>>
    BY <1>3, <1>8
  <2>3. FrameNest(f) \in Seq(Items)
    BY <2>1, <2>2
  <2>4. ASSUME NEW q \in Seq(Items)
        PROVE  q \o FrameNest(f) = Append(Append(q, a), b)
    <3>1. q \o (<<a>> \o <<b>>) = (q \o <<a>>) \o <<b>>
      BY <2>1, Regroup
    <3>2. Append(q, a) = q \o <<a>> /\ Append(q, a) \in Seq(Items)
      BY <1>4, <1>8
    <3>3. Append(Append(q, a), b) = Append(q, a) \o <<b>>
      BY <1>4, <1>8, <3>2
    <3> QED BY <2>2, <3>1, <3>2, <3>3
  <2> QED BY <1>8, <1>a, <1>b, <2>3, <2>4
<1> QED BY <1>5, <1>6, <1>7, <1>8

\* The nesting of a stack is that of its top frame on that of the others.
LEMMA NestAppend ==
    ASSUME NEW k \in Seq(Frames), \A i \in DOMAIN k : Fit(k[i]), NEW f, Fit(f),
           NEW l, l = Append(k, f)
    PROVE  /\ Nest(k) \in Seq(Items)
           /\ Nest(l) = Nest(k) \o FrameNest(f)
<1>n. PICK n \in Nat : n = Len(k) /\ DOMAIN k = 1 .. n
  OBVIOUS
<1>1. f \in Frames /\ FrameNest(f) \in Seq(Items)
  BY FrameNestIs DEF Fit
<1>2. /\ DOMAIN l = 1 .. (n + 1) /\ l[n + 1] = f
      /\ \A i \in 1 .. n : l[i] = k[i]
  BY <1>1, <1>n
<1>a. PICK a : a = [i \in DOMAIN k |-> FrameNest(k[i])]
  OBVIOUS
<1>b. PICK b : b = <<FrameNest(f)>>
  OBVIOUS
<1>c. PICK c : c = [i \in DOMAIN l |-> FrameNest(l[i])]
  OBVIOUS
<1>Q. PICK Q : Q = Seq(Items)
  OBVIOUS
<1>3. a \in Seq(Q) /\ Len(a) = n /\ \A i \in 1 .. n : a[i] = FrameNest(k[i])
  <2>1. \A i \in 1 .. n : FrameNest(k[i]) \in Q
    BY <1>n, <1>Q, FrameNestIs
  <2>2. a = [i \in 1 .. n |-> FrameNest(k[i])]
    BY <1>a, <1>n
  <2> QED BY <2>1, <2>2
<1>4. b \in Seq(Q) /\ Len(b) = 1 /\ b[1] = FrameNest(f)
  BY <1>1, <1>b, <1>Q
<1>5. c \in Seq(Q) /\ Len(c) = n + 1 /\ \A i \in 1 .. (n + 1) : c[i] = FrameNest(l[i])
  <2>m. PICK m \in Nat : m = n + 1
    OBVIOUS
  <2>1. \A i \in 1 .. (n + 1) : FrameNest(l[i]) \in Q
    <3>1. ASSUME NEW i \in 1 .. (n + 1) PROVE Fit(l[i])
      <4>1. i \in 1 .. n \/ i = n + 1
        OBVIOUS
      <4> QED BY <1>2, <1>n, <4>1
    <3> QED BY <1>Q, <3>1, FrameNestIs
  <2>2. c = [i \in 1 .. m |-> FrameNest(l[i])]
    BY <1>c, <1>2, <2>m
  <2>3. c \in [1 .. m -> Q]
    BY <2>1, <2>2, <2>m
  <2>4. c \in Seq(Q) /\ Len(c) = m
    BY <2>3
  <2> QED BY <2>2, <2>4, <2>m
<1>6. Spliced(c, a, b)
  <2>1. Len(c) = Len(a) + Len(b)
    BY <1>3, <1>4, <1>5
  <2>2. \A i \in 1 .. n : c[i] = a[i]
    <3>1. \A i \in 1 .. n : i \in 1 .. (n + 1)
      OBVIOUS
    <3> QED BY <1>2, <1>3, <1>5, <3>1
  <2>3. \A i \in 1 .. 1 : c[n + i] = b[i]
    <3>1. n + 1 \in 1 .. (n + 1)
      OBVIOUS
    <3>2. c[n + 1] = b[1]
      BY <1>2, <1>4, <1>5, <3>1
    <3> QED BY <3>2
  <2> QED BY <1>3, <1>4, <2>1, <2>2, <2>3 DEF Spliced
<1>7. Concat(c) = Concat(a) \o Concat(b)
  BY <1>3, <1>4, <1>5, <1>6, <1>Q, ConcatSpliced
<1>8. Concat(b) = FrameNest(f) /\ Concat(a) \in Seq(Items)
  BY <1>1, <1>3, <1>b, <1>Q, ConcatOne, ConcatType
<1> QED BY <1>7, <1>8, <1>a, <1>c DEF Nest

Nested(l, k, f) ==
    /\ Nest(k) \in Seq(Items) /\ Base(k, f) \in Seq(Items)
    /\ Nest(l) = IF f.pc = "serve" THEN Append(Base(k, f), <<"served", f.smsg[1]>>)
                 ELSE Base(k, f)

LEMMA NestTop ==
    ASSUME NEW k \in Seq(Frames), \A i \in DOMAIN k : Fit(k[i]), NEW f, Fit(f),
           NEW l, l = Append(k, f)
    PROVE  Nested(l, k, f)
<1>1. Nest(k) \in Seq(Items) /\ Nest(l) = Nest(k) \o FrameNest(f)
  BY NestAppend
<1>2. f.call # None => <<"made", f.call>> \in Items
  BY DEF Fit, Frames, Items
<1>3. Base(k, f) \in Seq(Items)
  BY <1>1, <1>2 DEF Base
<1>q. PICK q \in Seq(Items) : q = Nest(k)
  BY <1>1
<1>4. q \o FrameNest(f) = LET b == IF f.call = None THEN q ELSE Append(q, <<"made", f.call>>)
                          IN  IF f.pc = "serve" THEN Append(b, <<"served", f.smsg[1]>>) ELSE b
  BY FrameNestIs
<1> QED BY <1>1, <1>3, <1>4, <1>q DEF Base, Nested

LEMMA NestNone == Nest(<<>>) = <<>>
<1>1. [i \in DOMAIN <<>> |-> FrameNest(<<>>[i])] = <<>>
  OBVIOUS
<1> QED BY <1>1, ConcatNone DEF Nest

\* A sequence with a new last element.
LEMMA AppendParts ==
    ASSUME NEW F, NEW q \in Seq(F), NEW e \in F, NEW l, l = Append(q, e)
    PROVE  /\ l # <<>> /\ Len(l) = Len(q) + 1 /\ l[Len(l)] = e
           /\ SubSeq(l, 1, Len(l) - 1) = q
<1>n. PICK n \in Nat : n = Len(q)
  OBVIOUS
<1>1. l \in Seq(F) /\ Len(l) = n + 1 /\ l[n + 1] = e /\ \A i \in 1 .. n : l[i] = q[i]
  BY <1>n
<1>k. PICK k : k = SubSeq(l, 1, n)
  OBVIOUS
<1>2. k \in Seq(F) /\ Len(k) = n /\ \A i \in 1 .. n : k[i] = q[i]
  BY <1>1, <1>k
<1>3. k = q
  BY <1>2, <1>n, SeqEqual
<1>4. Len(l) - 1 = n /\ l # <<>>
  BY <1>1
<1> QED BY <1>1, <1>3, <1>4, <1>k, <1>n

\* A stack is its top frame, g, on the others, k.
Piled(s, k, g) ==
    /\ k \in Seq(Frames) /\ Len(k) = Len(s) - 1
    /\ \A i \in DOMAIN k : Fit(k[i]) /\ i \in DOMAIN s /\ k[i] = s[i]
    /\ Fit(g) /\ s = Append(k, g)
    /\ Len(s) = 1 => k = <<>> /\ g.call = None
    /\ Len(s) # 1 => g.call \in Calls /\ g.call # None
    /\ \A f \in Frames : TopTo(s, f) = Append(k, f)

LEMMA Pile ==
    ASSUME NEW t, NEW s, StackInv(s, t), NEW k, k = SubSeq(s, 1, Len(s) - 1),
           NEW g, g = s[Len(s)]
    PROVE  Piled(s, k, g)
<1>1. s \in Seq(Frames) /\ s # <<>>
  BY DEF StackInv
<1>n. PICK n \in Nat \ {0} : n = Len(s) /\ DOMAIN s = 1 .. n
  BY <1>1
<1>2. /\ k \in Seq(Frames) /\ Len(k) = n - 1 /\ DOMAIN k = 1 .. (n - 1)
      /\ \A i \in 1 .. (n - 1) : k[i] = s[i]
  BY <1>1, <1>n
<1>3. g = s[n] /\ g \in Frames /\ \A i \in 1 .. n : Fit(s[i])
  BY <1>1, <1>n DEF Fit, StackInv
<1>4. ASSUME NEW f \in Frames PROVE TopTo(s, f) = Append(k, f)
  <2>1. TopTo(s, f) = [s EXCEPT ![n] = f]
    BY <1>n DEF TopTo
  <2>2. /\ Append(k, f) \in Seq(Frames) /\ Len(Append(k, f)) = n
        /\ \A i \in 1 .. n : Append(k, f)[i] = IF i = n THEN f ELSE s[i]
    BY <1>2
  <2>3. /\ [s EXCEPT ![n] = f] \in Seq(Frames) /\ Len([s EXCEPT ![n] = f]) = n
        /\ \A i \in 1 .. n : [s EXCEPT ![n] = f][i] = IF i = n THEN f ELSE s[i]
    BY <1>1, <1>n
  <2> QED BY <2>1, <2>2, <2>3, SeqEqual
<1>5. s = Append(k, g)
  <2>1. TopTo(s, g) = s
    BY <1>1, <1>n, <1>3 DEF TopTo
  <2> QED BY <1>3, <1>4, <2>1
<1>6. n = 1 => k = <<>> /\ g.call = None
  BY <1>2, <1>3 DEF StackInv
<1>7. n # 1 => g.call \in Calls /\ g.call # None
  <2>1. n # 1 => n > 1 /\ n \in DOMAIN s
    BY <1>n
  <2> QED BY <1>3, <2>1, ThreadsAssumption DEF StackInv
<1>8. \A i \in DOMAIN k : Fit(k[i]) /\ i \in DOMAIN s /\ k[i] = s[i]
  BY <1>2, <1>3, <1>n
<1> QED BY SMTT(40), <1>2, <1>3, <1>4, <1>5, <1>6, <1>7, <1>8, <1>n DEF Piled

-----------------------------------------------------------------------------
(* Where each call is.                                                     *)

\* How often c is in the list of a thread; frame i of a stack serves it; a
\* thread serves it; a thread is about to put it into a list.
Waiting(s, c)     == CountOf(s.sendlist, {c} \X Threads)
ServesAt(k, i, c) == k[i].pc = "serve" /\ k[i].smsg[1] = c
Serves(s, c)      == \E i \in DOMAIN s.stack : ServesAt(s.stack, i, c)
Pushes(s, c)      == Topmost(s).pc = "push" /\ Topmost(s).call = c

\* A call is about to be listed, or listed once, or served by one frame of its
\* target, but never two of these, and only while it is open.
PlaceInv(T, S) ==
    /\ \A c \in Calls, t \in Threads : Pushes(T[t], c) =>
          S[c] = "open" /\ \A u \in Threads : Waiting(T[u], c) = 0 /\ ~Serves(T[u], c)
    /\ \A c \in Calls, t \in Threads : Waiting(T[t], c) # 0 =>
          S[c] = "open" /\ Waiting(T[t], c) = 1 /\ \A u \in Threads : ~Serves(T[u], c)
    /\ \A c \in Calls, t \in Threads : \A i \in DOMAIN T[t].stack :
          ServesAt(T[t].stack, i, c) =>
             /\ S[c] = "open" /\ To[c] = t
             /\ \A j \in DOMAIN T[t].stack : ServesAt(T[t].stack, j, c) => i = j

\* A waiting call is listed, and is not sent to another thread.
LEMMA WaitingLists ==
    ASSUME Inv(th, st), NEW t \in Threads, NEW c \in Calls
    PROVE  /\ Waiting(th[t], c) \in Nat
           /\ Waiting(th[t], c) # 0 <=> \E v \in Threads : Lists(th[t], <<c, v>>)
<1>q. PICK q \in Seq(Entries) : q = th[t].sendlist
  BY ListedIs
<1>1. CountOf(q, {c} \X Threads) = 0 <=> \A i \in DOMAIN q : q[i] \notin {c} \X Threads
  BY CountZero
<1>2. (\E i \in DOMAIN q : q[i] \in {c} \X Threads)
          <=> \E v \in Threads : \E i \in DOMAIN q : q[i] = <<c, v>>
  OBVIOUS
<1>3. CountOf(q, {c} \X Threads) \in Nat
  BY PlacesFinite
<1> QED BY <1>1, <1>2, <1>3, <1>q DEF Waiting, Lists

\* Nothing is where it was not, and what is somewhere is open.
Settled(T, S, U, R) ==
    /\ \A c \in Calls, t \in Threads : \A i \in DOMAIN U[t].stack :
          ServesAt(U[t].stack, i, c) =>
             i \in DOMAIN T[t].stack /\ ServesAt(T[t].stack, i, c) /\ R[c] = S[c]
    /\ \A c \in Calls, t \in Threads : Waiting(U[t], c) # 0 =>
          Waiting(U[t], c) = Waiting(T[t], c) /\ R[c] = S[c]
    /\ \A c \in Calls, t \in Threads : Pushes(U[t], c) => Pushes(T[t], c) /\ R[c] = S[c]

LEMMA PlacesKept ==
    ASSUME NEW T, NEW S, PlaceInv(T, S), NEW U, NEW R, Settled(T, S, U, R)
    PROVE  PlaceInv(U, R)
<1>1. \A c \in Calls, t \in Threads : Serves(U[t], c) => Serves(T[t], c)
  BY DEF Settled, Serves
<1>2. \A c \in Calls, t \in Threads : Pushes(U[t], c) =>
          R[c] = "open" /\ \A u \in Threads : Waiting(U[u], c) = 0 /\ ~Serves(U[u], c)
  BY <1>1 DEF Settled, PlaceInv
<1>3. \A c \in Calls, t \in Threads : Waiting(U[t], c) # 0 =>
          R[c] = "open" /\ Waiting(U[t], c) = 1 /\ \A u \in Threads : ~Serves(U[u], c)
  BY <1>1 DEF Settled, PlaceInv
<1>4. ASSUME NEW c \in Calls, NEW t \in Threads, NEW i \in DOMAIN U[t].stack,
             ServesAt(U[t].stack, i, c)
      PROVE  /\ R[c] = "open" /\ To[c] = t
             /\ \A j \in DOMAIN U[t].stack : ServesAt(U[t].stack, j, c) => i = j
  BY <1>4 DEF Settled, PlaceInv
<1> QED BY <1>2, <1>3, <1>4 DEF PlaceInv

\* Thread t goes on with the frame f in place of its top one.
Moves(T, U, t, f) ==
    /\ \A u \in Threads : u # t => U[u].stack = T[u].stack
    /\ U[t].stack = TopTo(T[t].stack, f)
    /\ Fit(f) /\ f.call = Topmost(T[t]).call

\* The nesting with the frame f, above B.
Shows(k, f, B) ==
    Nest(k) = IF f.pc = "serve" THEN Append(B, <<"served", f.smsg[1]>>) ELSE B

\* What that does to the stacks, to the nesting, to the calls that are served.
Atop(T, U, t, f) ==
    LET n == Len(T[t].stack) IN
    /\ Topmost(U[t]) = f /\ Fit(Topmost(T[t])) /\ n \in DOMAIN T[t].stack
    /\ T[t].stack[n] = Topmost(T[t]) /\ U[t].stack[n] = f
    /\ \A u \in Threads : u # t => Topmost(U[u]) = Topmost(T[u])
    /\ DOMAIN U[t].stack = DOMAIN T[t].stack
    /\ \A i \in DOMAIN T[t].stack : i # n => U[t].stack[i] = T[t].stack[i]

NestedIn(T, U, t, f, B) ==
    /\ Shows(T[t].stack, Topmost(T[t]), B) /\ Shows(U[t].stack, f, B)
    /\ Len(T[t].stack) = 1 => B = <<>>
    /\ Len(T[t].stack) # 1 =>
          \E A \in Seq(Items) : B = Append(A, <<"made", Topmost(T[t]).call>>)

ServesOn(T, U, t, f) ==
    LET n == Len(T[t].stack)
        g == Topmost(T[t])
    IN  /\ \A u \in Threads, c \in Calls : u # t => (Serves(U[u], c) <=> Serves(T[u], c))
        /\ \A u \in Threads, c \in Calls : u # t => \A i \in DOMAIN U[u].stack :
              ServesAt(U[u].stack, i, c) =>
                 i \in DOMAIN T[u].stack /\ ServesAt(T[u].stack, i, c)
        /\ \A c \in Calls : \A i \in DOMAIN U[t].stack : ServesAt(U[t].stack, i, c) =>
              i \in DOMAIN T[t].stack /\ IF i = n THEN f.pc = "serve" /\ f.smsg[1] = c
                                         ELSE ServesAt(T[t].stack, i, c)
        /\ \A c \in Calls : f.pc = "serve" /\ f.smsg[1] = c => Serves(U[t], c)
        /\ \A c \in Calls : g.pc = "serve" /\ g.smsg[1] = c =>
              n \in DOMAIN T[t].stack /\ ServesAt(T[t].stack, n, c) /\ Serves(T[t], c)
        /\ \A c \in Calls : Serves(T[t], c) =>
              Serves(U[t], c) \/ (g.pc = "serve" /\ g.smsg[1] = c)

LEMMA MovesAtop ==
    ASSUME NEW T, NEW U, NEW t \in Threads, StackInv(T[t].stack, t), NEW f, Moves(T, U, t, f)
    PROVE  Atop(T, U, t, f)
<1>s. PICK s : s = T[t].stack
  OBVIOUS
<1>n. PICK n : n = Len(s)
  OBVIOUS
<1>g. PICK g : g = s[n]
  OBVIOUS
<1>1. s \in Seq(Frames) /\ s # <<>> /\ StackInv(s, t) /\ g = Topmost(T[t])
  BY <1>s, <1>n, <1>g DEF StackInv, Topmost
<1>2. f \in Frames /\ U[t].stack = TopTo(s, f)
  BY <1>s DEF Moves, Fit
<1>3. Fit(g)
  BY <1>1, <1>n, <1>g, Pile DEF Piled
<1>4. /\ DOMAIN U[t].stack = DOMAIN s /\ Len(U[t].stack) = n /\ n \in DOMAIN s
      /\ U[t].stack[n] = f /\ \A i \in DOMAIN s : i # n => U[t].stack[i] = s[i]
  BY <1>1, <1>2, <1>n DEF TopTo
<1>5. Topmost(U[t]) = f /\ \A u \in Threads : u # t => Topmost(U[u]) = Topmost(T[u])
  BY <1>4 DEF Moves, Topmost
<1> QED BY <1>1, <1>3, <1>4, <1>5, <1>s, <1>n, <1>g DEF Atop

LEMMA MovesNest ==
    ASSUME NEW T, NEW U, NEW t \in Threads, StackInv(T[t].stack, t), NEW f, Moves(T, U, t, f)
    PROVE  \E B \in Seq(Items) : NestedIn(T, U, t, f, B)
<1>s. PICK s : s = T[t].stack
  OBVIOUS
<1>g. PICK g : g = s[Len(s)]
  OBVIOUS
<1>k. PICK k : k = SubSeq(s, 1, Len(s) - 1)
  OBVIOUS
<1>1. StackInv(s, t) /\ g = Topmost(T[t])
  BY <1>s, <1>g DEF Topmost
<1>2. f \in Frames /\ Fit(f) /\ U[t].stack = TopTo(s, f) /\ f.call = g.call
  BY <1>1, <1>s DEF Moves, Fit
<1>3. /\ k \in Seq(Frames) /\ \A i \in DOMAIN k : Fit(k[i])
      /\ Fit(g) /\ s = Append(k, g) /\ \A h \in Frames : TopTo(s, h) = Append(k, h)
      /\ Len(s) = 1 => k = <<>> /\ g.call = None
      /\ Len(s) # 1 => g.call \in Calls /\ g.call # None
  BY SMTT(40), <1>1, <1>g, <1>k, Pile DEF Piled
<1>4. TopTo(s, f) = Append(k, f)
  BY <1>2, <1>3
<1>5. Nest(k) \in Seq(Items) /\ Base(k, g) \in Seq(Items) /\ Shows(s, g, Base(k, g))
  BY <1>3, NestTop DEF Shows, Nested
<1>6. Shows(TopTo(s, f), f, Base(k, f))
  BY <1>2, <1>3, <1>4, NestTop DEF Shows, Nested
<1>7. Base(k, f) = Base(k, g)
  BY <1>2 DEF Base
<1>8. Len(s) = 1 => Base(k, g) = <<>>
  BY <1>3, NestNone DEF Base
<1>9. Len(s) # 1 => \E A \in Seq(Items) : Base(k, g) = Append(A, <<"made", g.call>>)
  BY <1>3, <1>5 DEF Base
<1>B. PICK B \in Seq(Items) : B = Base(k, g)
  BY <1>5
<1>10. Shows(T[t].stack, Topmost(T[t]), B) /\ Shows(U[t].stack, f, B)
  BY <1>1, <1>2, <1>5, <1>6, <1>7, <1>B, <1>s
<1>11. NestedIn(T, U, t, f, B)
  BY <1>1, <1>8, <1>9, <1>10, <1>B, <1>s DEF NestedIn
<1> QED BY <1>11

LEMMA MovesServe ==
    ASSUME NEW T, NEW U, NEW t \in Threads, StackInv(T[t].stack, t), NEW f, Moves(T, U, t, f)
    PROVE  ServesOn(T, U, t, f)
<1>g. PICK g : g = Topmost(T[t])
  OBVIOUS
<1>n. PICK n : n = Len(T[t].stack)
  OBVIOUS
<1>0. Atop(T, U, t, f)
  BY MovesAtop
<1>1. /\ n \in DOMAIN T[t].stack /\ T[t].stack[n] = g /\ U[t].stack[n] = f
      /\ DOMAIN U[t].stack = DOMAIN T[t].stack
      /\ \A i \in DOMAIN T[t].stack : i # n => U[t].stack[i] = T[t].stack[i]
  BY <1>0, <1>g, <1>n DEF Atop
<1>2. \A u \in Threads : u # t => U[u].stack = T[u].stack
  BY DEF Moves
<1>3. /\ \A u \in Threads, c \in Calls : u # t => (Serves(U[u], c) <=> Serves(T[u], c))
      /\ \A u \in Threads, c \in Calls : u # t => \A i \in DOMAIN U[u].stack :
            ServesAt(U[u].stack, i, c) => i \in DOMAIN T[u].stack /\ ServesAt(T[u].stack, i, c)
  BY <1>2 DEF Serves
<1>4. \A c \in Calls : \A i \in DOMAIN U[t].stack : ServesAt(U[t].stack, i, c) =>
          i \in DOMAIN T[t].stack /\ IF i = n THEN f.pc = "serve" /\ f.smsg[1] = c
                                     ELSE ServesAt(T[t].stack, i, c)
  BY <1>1 DEF ServesAt
<1>5. \A c \in Calls : f.pc = "serve" /\ f.smsg[1] = c => Serves(U[t], c)
  BY <1>1 DEF Serves, ServesAt
<1>6. \A c \in Calls : g.pc = "serve" /\ g.smsg[1] = c =>
          n \in DOMAIN T[t].stack /\ ServesAt(T[t].stack, n, c) /\ Serves(T[t], c)
  BY <1>1 DEF Serves, ServesAt
<1>7. \A c \in Calls : Serves(T[t], c) => Serves(U[t], c) \/ (g.pc = "serve" /\ g.smsg[1] = c)
  BY <1>1 DEF Serves, ServesAt
<1> QED BY ZenonT(30), <1>3, <1>4, <1>5, <1>6, <1>7, <1>g, <1>n DEF ServesOn

-----------------------------------------------------------------------------
(* The steps of the abstract call.                                         *)

ServedBy(T, c)   == \E t \in Threads : Serves(T[t], c)
PhaseOf(T, S, c) ==
    CASE S[c] \in {"new", "refused"} -> "new"
      [] S[c] = "open"    -> IF ServedBy(T, c) THEN "serving" ELSE "called"
      [] S[c] = "cleared" -> "lost"
      [] OTHER            -> S[c]

Shown     == <<SyncPhase, SyncNest, SyncGone>>
Simulates == PlaceInv(th', st') /\ (Sync!Next \/ UNCHANGED Shown)

LEMMA PhaseIs ==
    /\ SyncPhase = [c \in Calls |-> PhaseOf(th, st, c)]
    /\ SyncPhase' = [c \in Calls |-> PhaseOf(th', st', c)]
<1>1. ASSUME NEW c \in Calls PROVE Phase(c) = PhaseOf(th, st, c)
  BY DEF Phase, PhaseOf, Serving, ServedBy, Serves, ServesAt
<1>2. ASSUME NEW c \in Calls PROVE Phase(c)' = PhaseOf(th', st', c)
  BY DEF Phase, PhaseOf, Serving, ServedBy, Serves, ServesAt
<1> QED BY <1>1, <1>2 DEF SyncPhase

LEMMA GoneIs ==
    /\ SyncGone = destroyed \cup {t \in Threads : Topmost(th[t]).pc = "gone"}
    /\ SyncGone' = destroyed' \cup {t \in Threads : Topmost(th'[t]).pc = "gone"}
BY DEF SyncGone, Gone, At, Top, Topmost, Last

LEMMA NestShown ==
    /\ SyncNest = [t \in Threads |-> Nest(th[t].stack)]
    /\ SyncNest' = [t \in Threads |-> Nest(th'[t].stack)]
BY DEF SyncNest, Nest

\* The phase of one call changes.
LEMMA PhaseGoes ==
    ASSUME NEW c \in Calls, NEW p, PhaseOf(th', st', c) = p,
           \A d \in Calls : d # c => PhaseOf(th', st', d) = PhaseOf(th, st, d)
    PROVE  SyncPhase' = [SyncPhase EXCEPT ![c] = p]
BY PhaseIs

\* The nesting of one thread changes.
LEMMA NestGoes ==
    ASSUME NEW t \in Threads, \A u \in Threads : u # t => th'[u].stack = th[u].stack,
           NEW q, Nest(th'[t].stack) = q
    PROVE  SyncNest' = [SyncNest EXCEPT ![t] = q] /\ SyncNest[t] = Nest(th[t].stack)
BY NestShown

LEMMA CallStep ==
    ASSUME NEW t \in Threads, NEW c \in Calls, SyncPhase[c] = "new", t # To[c],
           SyncNest[t] # <<>> => SyncNest[t][Len(SyncNest[t])][1] # "made",
           SyncPhase' = [SyncPhase EXCEPT ![c] = "called"],
           SyncNest' = [SyncNest EXCEPT ![t] = Append(SyncNest[t], <<"made", c>>)],
           SyncGone' = SyncGone
    PROVE  Sync!Next
BY DEF Sync!Next, Sync!Call, Sync!Waits, Sync!Innermost, Sync!Made

LEMMA BeginStep ==
    ASSUME NEW c \in Calls, SyncPhase[c] = "called",
           SyncNest[To[c]] # <<>> => SyncNest[To[c]][Len(SyncNest[To[c]])][1] # "served",
           SyncPhase' = [SyncPhase EXCEPT ![c] = "serving"],
           SyncNest' = [SyncNest EXCEPT ![To[c]] = Append(SyncNest[To[c]], <<"served", c>>)],
           SyncGone' = SyncGone
    PROVE  Sync!Next
BY DEF Sync!Next, Sync!Begin, Sync!Serves, Sync!Innermost, Sync!Served

LEMMA EndStep ==
    ASSUME NEW c \in Calls, SyncPhase[c] = "serving",
           NEW B \in Seq(Items), SyncNest[To[c]] = Append(B, <<"served", c>>),
           SyncPhase' = [SyncPhase EXCEPT ![c] = "done"],
           SyncNest' = [SyncNest EXCEPT ![To[c]] = B], SyncGone' = SyncGone
    PROVE  Sync!Next
<1>x. PICK x \in Items : x = <<"served", c>>
  BY DEF Items
<1>q. PICK q : q = SyncNest[To[c]]
  OBVIOUS
<1>1. q = Append(B, x) /\ q[Len(q)] = x /\ SubSeq(q, 1, Len(q) - 1) = B
  BY <1>x, <1>q, AppendParts
<1> QED BY <1>1, <1>q, <1>x DEF Sync!Next, Sync!End, Sync!Innermost, Sync!Served, Sync!Leave

LEMMA ReturnStep ==
    ASSUME NEW t \in Threads, NEW c \in Calls, SyncPhase[c] \in {"done", "lost"},
           NEW B \in Seq(Items), SyncNest[t] = Append(B, <<"made", c>>),
           SyncPhase' = [SyncPhase EXCEPT ![c] = "returned"],
           SyncNest' = [SyncNest EXCEPT ![t] = B], SyncGone' = SyncGone
    PROVE  Sync!Next
<1>x. PICK x \in Items : x = <<"made", c>>
  BY DEF Items
<1>q. PICK q : q = SyncNest[t]
  OBVIOUS
<1>1. /\ q = Append(B, x) /\ q[Len(q)] = x /\ SubSeq(q, 1, Len(q) - 1) = B
      /\ q # <<>> /\ x[1] = "made"
  BY <1>x, <1>q, AppendParts
<1> QED BY <1>1, <1>q, <1>x
        DEF Sync!Next, Sync!Return, Sync!Waits, Sync!Innermost, Sync!Made, Sync!Leave

LEMMA VanishStep ==
    ASSUME NEW x \in Threads \cup {Obj[c] : c \in Calls}, x \notin SyncGone,
           SyncGone' = SyncGone \cup {x},
           SyncPhase' = [c \in Calls |-> IF SyncPhase[c] = "called" /\ x \in {Obj[c], To[c]}
                                         THEN "lost" ELSE SyncPhase[c]],
           SyncNest' = SyncNest
    PROVE  Sync!Next
BY DEF Sync!Next, Sync!Vanish

-----------------------------------------------------------------------------
(* The kinds of steps.                                                     *)

\* A step that neither takes nor ends a call: nothing of it shows.
LEMMA QuietStep ==
    ASSUME Inv(th, st), PlaceInv(th, st), NEW t \in Threads, NEW f, Moves(th, th', t, f),
           f.pc \notin {"serve", "push", "gone"}, Top(t).pc \notin {"serve", "gone"},
           \A u \in Threads : th'[u].sendlist = th[u].sendlist,
           st' = st, destroyed' = destroyed
    PROVE  Simulates
<1>g. PICK g : g = Topmost(th[t])
  OBVIOUS
<1>n. PICK n : n = Len(th[t].stack)
  OBVIOUS
<1>0. StackInv(th[t].stack, t) /\ g.pc \notin {"serve", "gone"}
  BY <1>g, OfThread
<1>a. Atop(th, th', t, f) /\ ServesOn(th, th', t, f)
  BY <1>0, MovesAtop, MovesServe
<1>1. /\ Topmost(th'[t]) = f
      /\ \A u \in Threads : u # t => Topmost(th'[u]) = Topmost(th[u])
  BY <1>a DEF Atop
<1>2. \A u \in Threads, c \in Calls : \A i \in DOMAIN th'[u].stack :
          ServesAt(th'[u].stack, i, c) => i \in DOMAIN th[u].stack /\ ServesAt(th[u].stack, i, c)
  BY <1>a, <1>g, <1>n DEF ServesOn
<1>3. \A u \in Threads, c \in Calls : Serves(th'[u], c) <=> Serves(th[u], c)
  <2>1. \A u \in Threads, c \in Calls : Serves(th'[u], c) => Serves(th[u], c)
    BY <1>2 DEF Serves
  <2> QED BY <1>0, <1>a, <1>g, <1>n, <2>1 DEF ServesOn
<1>4. PlaceInv(th', st')
  <2>1. \A u \in Threads, c \in Calls : Waiting(th'[u], c) = Waiting(th[u], c)
    BY DEF Waiting
  <2>2. \A u \in Threads, c \in Calls : Pushes(th'[u], c) => Pushes(th[u], c)
    BY <1>1 DEF Pushes
  <2>3. Settled(th, st, th', st')
    BY <1>2, <2>1, <2>2 DEF Settled
  <2> QED BY <2>3, PlacesKept
<1>5. SyncPhase' = SyncPhase
  <2>1. \A c \in Calls : PhaseOf(th', st', c) = PhaseOf(th, st, c)
    BY <1>3 DEF PhaseOf, ServedBy
  <2> QED BY <2>1, PhaseIs
<1>6. SyncGone' = SyncGone
  BY <1>0, <1>1, <1>g, GoneIs
<1>7. SyncNest' = SyncNest
  <2>1. Nest(th'[t].stack) = Nest(th[t].stack)
    <3>1. PICK B \in Seq(Items) : NestedIn(th, th', t, f, B)
      BY <1>0, MovesNest
    <3> QED BY <1>0, <1>g, <3>1 DEF NestedIn, Shows
  <2>2. \A u \in Threads : Nest(th'[u].stack) = Nest(th[u].stack)
    BY <2>1 DEF Moves
  <2> QED BY <2>2, NestShown
<1> QED BY <1>4, <1>5, <1>6, <1>7 DEF Simulates, Shown

\* A step around the stacks and lists.
LEMMA CalmStep ==
    ASSUME PlaceInv(th, st), destroyed' = destroyed,
           \A u \in Threads : th'[u].stack = th[u].stack /\ th'[u].sendlist = th[u].sendlist,
           \A c \in Calls : st'[c] = st[c] \/ (st[c] = "new" /\ st'[c] = "refused")
    PROVE  Simulates
<1>1. /\ \A u \in Threads, c \in Calls : Serves(th'[u], c) <=> Serves(th[u], c)
      /\ \A u \in Threads : Topmost(th'[u]) = Topmost(th[u])
      /\ \A u \in Threads, c \in Calls : Waiting(th'[u], c) = Waiting(th[u], c)
  BY DEF Serves, Topmost, Waiting
<1>2. \A c \in Calls : st[c] = "open" => st'[c] = st[c]
  OBVIOUS
<1>3. Settled(th, st, th', st')
  <2>1. ASSUME NEW c \in Calls, NEW t \in Threads, NEW i \in DOMAIN th'[t].stack,
               ServesAt(th'[t].stack, i, c)
        PROVE  i \in DOMAIN th[t].stack /\ ServesAt(th[t].stack, i, c) /\ st'[c] = st[c]
    BY <1>2, <2>1 DEF PlaceInv
  <2>2. ASSUME NEW c \in Calls, NEW t \in Threads, Waiting(th'[t], c) # 0
        PROVE  Waiting(th'[t], c) = Waiting(th[t], c) /\ st'[c] = st[c]
    BY <1>1, <1>2, <2>2 DEF PlaceInv
  <2>3. ASSUME NEW c \in Calls, NEW t \in Threads, Pushes(th'[t], c)
        PROVE  Pushes(th[t], c) /\ st'[c] = st[c]
    <3>1. Pushes(th[t], c)
      BY <1>1, <2>3 DEF Pushes
    <3> QED BY <1>2, <3>1 DEF PlaceInv
  <2> QED BY <2>1, <2>2, <2>3 DEF Settled
<1>4. PlaceInv(th', st')
  BY <1>3, PlacesKept
<1>5. \A c \in Calls : PhaseOf(th', st', c) = PhaseOf(th, st, c)
  BY <1>1 DEF PhaseOf, ServedBy
<1>6. SyncPhase' = SyncPhase /\ SyncGone' = SyncGone /\ SyncNest' = SyncNest
  BY <1>1, <1>5, PhaseIs, GoneIs, NestShown
<1> QED BY <1>4, <1>6 DEF Simulates, Shown

\* Thread t takes up the call of the entry m.
LEMMA TakesUp ==
    ASSUME Inv(th, st), PlaceInv(th, st), NEW t \in Threads, NEW f, Moves(th, th', t, f),
           Top(t).pc \in {"pop", "next"}, f.pc = "serve", NEW m \in Entries, f.smsg = m,
           Lists(th[t], m), Waiting(th'[t], m[1]) = Waiting(th[t], m[1]) - 1,
           Waiting(th[t], m[1]) # 0,
           \A c \in Calls : c # m[1] => Waiting(th'[t], c) = Waiting(th[t], c),
           \A u \in Threads : u # t => th'[u].sendlist = th[u].sendlist,
           st' = st, destroyed' = destroyed
    PROVE  Simulates
<1>c. PICK c \in Calls : c = m[1]
  BY DEF Entries
<1>g. PICK g : g = Topmost(th[t])
  OBVIOUS
<1>n. PICK n : n = Len(th[t].stack)
  OBVIOUS
<1>0. /\ StackInv(th[t].stack, t) /\ g.pc \in {"pop", "next"} /\ m = <<m[1], m[2]>>
      /\ m[2] \in Threads
  BY <1>g, OfThread DEF Entries
<1>a. Atop(th, th', t, f) /\ ServesOn(th, th', t, f)
  BY <1>0, MovesAtop, MovesServe
<1>1. To[c] = t
  BY <1>0, <1>c DEF Inv, CallInv
<1>2. /\ Topmost(th'[t]) = f
      /\ \A u \in Threads : u # t => Topmost(th'[u]) = Topmost(th[u])
  BY <1>a DEF Atop
<1>3. st[c] = "open" /\ Waiting(th[t], c) = 1 /\ \A u \in Threads : ~Serves(th[u], c)
  BY <1>c DEF PlaceInv
<1>4. Waiting(th'[t], c) = 0
  BY <1>3, <1>c
<1>5. \A u \in Threads, d \in Calls : \A i \in DOMAIN th'[u].stack :
          ServesAt(th'[u].stack, i, d) =>
             \/ u = t /\ i = n /\ d = c
             \/ i \in DOMAIN th[u].stack /\ ServesAt(th[u].stack, i, d)
  BY <1>0, <1>a, <1>c, <1>g, <1>n DEF ServesOn
<1>6. \A u \in Threads, d \in Calls : d # c => (Serves(th'[u], d) <=> Serves(th[u], d))
  <2>1. \A u \in Threads, d \in Calls : d # c /\ Serves(th'[u], d) => Serves(th[u], d)
    BY <1>5 DEF Serves
  <2> QED BY <1>0, <1>a, <1>g, <1>n, <2>1 DEF ServesOn
<1>7. Serves(th'[t], c)
  BY <1>0, <1>a, <1>c, <1>g, <1>n DEF ServesOn
<1>8. \A u \in Threads, d \in Calls : Waiting(th'[u], d) # 0 =>
          d # c /\ Waiting(th'[u], d) = Waiting(th[u], d)
  <2>1. \A u \in Threads : u # t => Waiting(th[u], c) = 0
    <3>1. SUFFICES ASSUME NEW u \in Threads, u # t, Waiting(th[u], c) # 0 PROVE FALSE
      OBVIOUS
    <3>2. \E v \in Threads : Lists(th[u], <<c, v>>)
      BY <3>1, WaitingLists
    <3> QED BY <1>1, <3>1, <3>2 DEF Inv, CallInv
  <2>2. \A u \in Threads, d \in Calls : u # t => Waiting(th'[u], d) = Waiting(th[u], d)
    BY DEF Waiting
  <2>3. \A d \in Calls : d # c => Waiting(th'[t], d) = Waiting(th[t], d)
    BY <1>c
  <2> QED BY <1>4, <2>1, <2>2, <2>3
<1>9. PlaceInv(th', st')
  <2>1. ASSUME NEW d \in Calls, NEW u \in Threads, Pushes(th'[u], d)
        PROVE  st'[d] = "open" /\ \A v \in Threads : Waiting(th'[v], d) = 0 /\ ~Serves(th'[v], d)
    <3>1. Pushes(th[u], d)
      BY <1>2, <2>1 DEF Pushes
    <3>2. st[d] = "open" /\ \A v \in Threads : Waiting(th[v], d) = 0 /\ ~Serves(th[v], d)
      BY <3>1 DEF PlaceInv
    <3>3. d # c
      BY <1>3, <3>2
    <3> QED BY <1>6, <1>8, <3>2, <3>3
  <2>2. ASSUME NEW d \in Calls, NEW u \in Threads, Waiting(th'[u], d) # 0
        PROVE  st'[d] = "open" /\ Waiting(th'[u], d) = 1 /\ \A v \in Threads : ~Serves(th'[v], d)
    <3>1. d # c /\ Waiting(th'[u], d) = Waiting(th[u], d)
      BY <1>8, <2>2
    <3>2. st[d] = "open" /\ Waiting(th[u], d) = 1 /\ \A v \in Threads : ~Serves(th[v], d)
      BY <2>2, <3>1 DEF PlaceInv
    <3> QED BY <1>6, <3>1, <3>2
  <2>3. ASSUME NEW d \in Calls, NEW u \in Threads, NEW i \in DOMAIN th'[u].stack,
               ServesAt(th'[u].stack, i, d)
        PROVE  /\ st'[d] = "open" /\ To[d] = u
               /\ \A j \in DOMAIN th'[u].stack : ServesAt(th'[u].stack, j, d) => i = j
    <3>1. CASE d = c
      <4>1. \A v \in Threads : \A j \in DOMAIN th'[v].stack :
                ServesAt(th'[v].stack, j, c) => v = t /\ j = n
        BY <1>3, <1>5 DEF Serves
      <4> QED BY <1>1, <1>3, <2>3, <3>1, <4>1
    <3>2. CASE d # c
      BY <1>5, <2>3, <3>2 DEF PlaceInv
    <3> QED BY <3>1, <3>2
  <2> QED BY <2>1, <2>2, <2>3 DEF PlaceInv
<1>10. SyncPhase[c] = "called" /\ SyncPhase' = [SyncPhase EXCEPT ![c] = "serving"]
  <2>1. PhaseOf(th, st, c) = "called" /\ PhaseOf(th', st', c) = "serving"
    BY <1>3, <1>7 DEF PhaseOf, ServedBy
  <2>2. \A d \in Calls : d # c => PhaseOf(th', st', d) = PhaseOf(th, st, d)
    BY <1>6 DEF PhaseOf, ServedBy
  <2> QED BY <2>1, <2>2, PhaseIs, PhaseGoes
<1>11. SyncGone' = SyncGone
  BY <1>0, <1>2, <1>g, GoneIs
<1>12. PICK B \in Seq(Items) : NestedIn(th, th', t, f, B)
  BY <1>0, MovesNest
<1>13. Nest(th[t].stack) = B /\ Nest(th'[t].stack) = Append(B, <<"served", c>>)
  BY <1>0, <1>12, <1>c, <1>g DEF NestedIn, Shows
<1>14. B # <<>> => B[Len(B)][1] # "served"
  <2>1. SUFFICES ASSUME n # 1 PROVE B[Len(B)][1] # "served"
    BY <1>12, <1>n DEF NestedIn
  <2>2. PICK A \in Seq(Items) : B = Append(A, <<"made", g.call>>)
    BY <1>12, <1>g, <1>n, <2>1 DEF NestedIn
  <2>3. <<"made", g.call>> \in Items
    <3>1. g.call \in Calls
      BY <1>0, <1>g, <1>n, <2>1, Pile DEF Topmost, Piled
    <3> QED BY <3>1 DEF Items
  <2>4. B[Len(B)] = <<"made", g.call>>
    BY <2>2, <2>3, AppendParts
  <2> QED BY <2>4
<1>15. SyncNest' = [SyncNest EXCEPT ![t] = Append(B, <<"served", c>>)] /\ SyncNest[t] = B
  BY <1>13, NestGoes DEF Moves
<1>16. Sync!Next
  BY <1>1, <1>10, <1>11, <1>14, <1>15, BeginStep
<1> QED BY <1>9, <1>16 DEF Simulates

\* A call waits once more where an entry of it is put.
OneMore(r, q, c) ==
    \A d \in Calls : /\ CountOf(q, {d} \X Threads) \in Nat
                     /\ d = c /\ CountOf(q, {d} \X Threads) = 0 => CountOf(r, {d} \X Threads) = 1
                     /\ d # c => CountOf(r, {d} \X Threads) = CountOf(q, {d} \X Threads)

LEMMA WaitingAppend ==
    ASSUME NEW q \in Seq(Entries), NEW c \in Calls, NEW t \in Threads,
           NEW r, r = Append(q, <<c, t>>)
    PROVE  OneMore(r, q, c)
<1>0. SUFFICES ASSUME NEW d \in Calls
               PROVE  /\ CountOf(q, {d} \X Threads) \in Nat
                      /\ d = c /\ CountOf(q, {d} \X Threads) = 0 => CountOf(r, {d} \X Threads) = 1
                      /\ d # c => CountOf(r, {d} \X Threads) = CountOf(q, {d} \X Threads)
  BY DEF OneMore
<1>P. PICK P : P = {d} \X Threads
  OBVIOUS
<1>m. PICK m \in Entries : m = <<c, t>>
  BY DEF Entries
<1>1. CountOf(Append(q, m), P) = CountOf(q, P) + (IF m \in P THEN 1 ELSE 0)
  BY CountAppend
<1>2. m \in P <=> d = c
  BY <1>m, <1>P
<1>3. CountOf(q, P) \in Nat
  BY PlacesFinite
<1> QED BY <1>1, <1>2, <1>3, <1>m, <1>P

\* Two threads do not make one call.
LEMMA OneMaker ==
    ASSUME Inv(th, st), NEW t \in Threads, NEW v \in Threads, NEW c \in Calls,
           Topmost(th[t]).call = c, Topmost(th[v]).call = c
    PROVE  v = t
<1>1. ASSUME NEW x \in Threads, Topmost(th[x]).call = c PROVE Makes(th[x], c)
  <2>1. th[x].stack \in Seq(Frames) /\ th[x].stack # <<>>
    BY OfThread
  <2>2. Len(th[x].stack) \in DOMAIN th[x].stack
    BY <2>1
  <2> QED BY <1>1, <2>2 DEF Makes, Topmost
<1> QED BY <1>1 DEF Inv, CallInv

\* Thread t puts its call into the list of the target: of that nothing shows.
LEMMA ListsIt ==
    ASSUME Inv(th, st), PlaceInv(th, st), NEW t \in Threads, NEW f, Moves(th, th', t, f),
           Top(t).pc = "push", f.pc = "wake", NEW c \in Calls, c = Top(t).call,
           NEW u \in Threads, u = To[c],
           OneMore(th'[u].sendlist, th[u].sendlist, c),
           \A v \in Threads : v # u => th'[v].sendlist = th[v].sendlist,
           st' = st, destroyed' = destroyed
    PROVE  Simulates
<1>g. PICK g : g = Topmost(th[t])
  OBVIOUS
<1>n. PICK n : n = Len(th[t].stack)
  OBVIOUS
<1>0. StackInv(th[t].stack, t) /\ g.pc = "push" /\ g.call = c
  BY <1>g, OfThread
<1>a. Atop(th, th', t, f) /\ ServesOn(th, th', t, f)
  BY <1>0, MovesAtop, MovesServe
<1>1. /\ Topmost(th'[t]) = f
      /\ \A v \in Threads : v # t => Topmost(th'[v]) = Topmost(th[v])
  BY <1>a DEF Atop
<1>2. \A v \in Threads, d \in Calls : \A i \in DOMAIN th'[v].stack :
          ServesAt(th'[v].stack, i, d) => i \in DOMAIN th[v].stack /\ ServesAt(th[v].stack, i, d)
  BY <1>a, <1>g, <1>n DEF ServesOn
<1>3. \A v \in Threads, d \in Calls : Serves(th'[v], d) <=> Serves(th[v], d)
  <2>1. \A v \in Threads, d \in Calls : Serves(th'[v], d) => Serves(th[v], d)
    BY <1>2 DEF Serves
  <2> QED BY <1>0, <1>a, <1>g, <1>n, <2>1 DEF ServesOn
<1>4. st[c] = "open" /\ \A v \in Threads : Waiting(th[v], c) = 0 /\ ~Serves(th[v], c)
  <2>1. Pushes(th[t], c)
    BY <1>0, <1>g DEF Pushes
  <2> QED BY <2>1 DEF PlaceInv
<1>5. /\ Waiting(th'[u], c) = 1
      /\ \A d \in Calls : d # c => Waiting(th'[u], d) = Waiting(th[u], d)
  <2>1. \A d \in Calls : /\ d = c /\ Waiting(th[u], d) = 0 => Waiting(th'[u], d) = 1
                         /\ d # c => Waiting(th'[u], d) = Waiting(th[u], d)
    BY DEF Waiting, OneMore
  <2> QED BY <1>4, <2>1
<1>6. \A v \in Threads, d \in Calls : v # u => Waiting(th'[v], d) = Waiting(th[v], d)
  BY DEF Waiting
<1>7. \A v \in Threads, d \in Calls : Pushes(th'[v], d) => Pushes(th[v], d) /\ d # c
  <2>1. SUFFICES ASSUME NEW v \in Threads, NEW d \in Calls, Pushes(th'[v], d)
                 PROVE  Pushes(th[v], d) /\ d # c
    OBVIOUS
  <2>2. v # t /\ Pushes(th[v], d)
    BY <1>1, <2>1 DEF Pushes
  <2>3. d # c
    BY <1>0, <1>g, <2>2, OneMaker DEF Pushes
  <2> QED BY <2>2, <2>3
<1>8. PlaceInv(th', st')
  <2>1. ASSUME NEW d \in Calls, NEW v \in Threads, Pushes(th'[v], d)
        PROVE  st'[d] = "open" /\ \A w \in Threads : Waiting(th'[w], d) = 0 /\ ~Serves(th'[w], d)
    <3>1. Pushes(th[v], d) /\ d # c
      BY <1>7, <2>1
    <3>2. st[d] = "open" /\ \A w \in Threads : Waiting(th[w], d) = 0 /\ ~Serves(th[w], d)
      BY <3>1 DEF PlaceInv
    <3>3. \A w \in Threads : Waiting(th'[w], d) = Waiting(th[w], d)
      BY <1>5, <1>6, <3>1
    <3> QED BY <1>3, <3>2, <3>3
  <2>2. ASSUME NEW d \in Calls, NEW v \in Threads, Waiting(th'[v], d) # 0
        PROVE  st'[d] = "open" /\ Waiting(th'[v], d) = 1 /\ \A w \in Threads : ~Serves(th'[w], d)
    <3>1. CASE d = c
      <4>1. v = u
        BY <1>4, <1>6, <2>2, <3>1
      <4> QED BY <1>3, <1>4, <1>5, <3>1, <4>1
    <3>2. CASE d # c
      <4>1. Waiting(th'[v], d) = Waiting(th[v], d)
        BY <1>5, <1>6, <3>2
      <4>2. st[d] = "open" /\ Waiting(th[v], d) = 1 /\ \A w \in Threads : ~Serves(th[w], d)
        BY <2>2, <4>1 DEF PlaceInv
      <4> QED BY <1>3, <4>1, <4>2
    <3> QED BY <3>1, <3>2
  <2>3. ASSUME NEW d \in Calls, NEW v \in Threads, NEW i \in DOMAIN th'[v].stack,
               ServesAt(th'[v].stack, i, d)
        PROVE  /\ st'[d] = "open" /\ To[d] = v
               /\ \A j \in DOMAIN th'[v].stack : ServesAt(th'[v].stack, j, d) => i = j
    <3>1. i \in DOMAIN th[v].stack /\ ServesAt(th[v].stack, i, d)
      BY <1>2, <2>3
    <3>2. /\ st[d] = "open" /\ To[d] = v
          /\ \A j \in DOMAIN th[v].stack : ServesAt(th[v].stack, j, d) => i = j
      BY <3>1 DEF PlaceInv
    <3> QED BY <1>2, <3>2
  <2> QED BY <2>1, <2>2, <2>3 DEF PlaceInv
<1>9. SyncPhase' = SyncPhase
  <2>1. \A d \in Calls : PhaseOf(th', st', d) = PhaseOf(th, st, d)
    BY <1>3 DEF PhaseOf, ServedBy
  <2> QED BY <2>1, PhaseIs
<1>10. SyncGone' = SyncGone
  BY <1>0, <1>1, <1>g, GoneIs
<1>11. SyncNest' = SyncNest
  <2>1. Nest(th'[t].stack) = Nest(th[t].stack)
    <3>1. PICK B \in Seq(Items) : NestedIn(th, th', t, f, B)
      BY <1>0, MovesNest
    <3> QED BY <1>0, <1>g, <3>1 DEF NestedIn, Shows
  <2>2. \A v \in Threads : Nest(th'[v].stack) = Nest(th[v].stack)
    BY <2>1 DEF Moves
  <2> QED BY <2>2, NestShown
<1> QED BY <1>8, <1>9, <1>10, <1>11 DEF Simulates, Shown

\* Thread t has served its call.
LEMMA EndsIt ==
    ASSUME Inv(th, st), PlaceInv(th, st), NEW t \in Threads, NEW f, Moves(th, th', t, f),
           Top(t).pc = "serve", f.pc = "ready", NEW c \in Calls, c = Top(t).smsg[1],
           \A v \in Threads : th'[v].sendlist = th[v].sendlist,
           st'[c] = "done", \A d \in Calls : d # c => st'[d] = st[d], destroyed' = destroyed
    PROVE  Simulates
<1>g. PICK g : g = Topmost(th[t])
  OBVIOUS
<1>n. PICK n : n = Len(th[t].stack)
  OBVIOUS
<1>0. StackInv(th[t].stack, t) /\ g.pc = "serve" /\ g.smsg[1] = c
  BY <1>g, OfThread
<1>a. Atop(th, th', t, f) /\ ServesOn(th, th', t, f)
  BY <1>0, MovesAtop, MovesServe
<1>1. /\ Topmost(th'[t]) = f
      /\ \A v \in Threads : v # t => Topmost(th'[v]) = Topmost(th[v])
  BY <1>a DEF Atop
<1>2. n \in DOMAIN th[t].stack /\ ServesAt(th[t].stack, n, c) /\ Serves(th[t], c)
  BY <1>0, <1>a, <1>g, <1>n DEF ServesOn
<1>3. /\ st[c] = "open" /\ To[c] = t
      /\ \A j \in DOMAIN th[t].stack : ServesAt(th[t].stack, j, c) => n = j
  BY <1>2 DEF PlaceInv
<1>4. \A v \in Threads : \A i \in DOMAIN th[v].stack :
          ServesAt(th[v].stack, i, c) => v = t /\ i = n
  BY <1>3 DEF PlaceInv
<1>5. \A v \in Threads, d \in Calls : \A i \in DOMAIN th'[v].stack :
          ServesAt(th'[v].stack, i, d) =>
             i \in DOMAIN th[v].stack /\ ServesAt(th[v].stack, i, d) /\ d # c
  <2>1. SUFFICES ASSUME NEW v \in Threads, NEW d \in Calls, NEW i \in DOMAIN th'[v].stack,
                        ServesAt(th'[v].stack, i, d)
                 PROVE  i \in DOMAIN th[v].stack /\ ServesAt(th[v].stack, i, d) /\ d # c
    OBVIOUS
  <2>2. i \in DOMAIN th[v].stack /\ ServesAt(th[v].stack, i, d) /\ ~(v = t /\ i = n)
    BY <1>a, <1>g, <1>n, <2>1 DEF ServesOn
  <2> QED BY <1>4, <2>2
<1>6. \A v \in Threads, d \in Calls : d # c => (Serves(th'[v], d) <=> Serves(th[v], d))
  <2>1. \A v \in Threads, d \in Calls : Serves(th'[v], d) => Serves(th[v], d)
    BY <1>5 DEF Serves
  <2> QED BY <1>0, <1>a, <1>g, <1>n, <2>1 DEF ServesOn
<1>7. PlaceInv(th', st')
  <2>1. \A v \in Threads, d \in Calls : Waiting(th'[v], d) = Waiting(th[v], d)
    BY DEF Waiting
  <2>2. \A v \in Threads : Waiting(th[v], c) = 0 /\ ~Pushes(th[v], c)
    BY <1>2 DEF PlaceInv
  <2>3. \A v \in Threads, d \in Calls : Pushes(th'[v], d) => Pushes(th[v], d)
    BY <1>1 DEF Pushes
  <2>4. Settled(th, st, th', st')
    BY <1>5, <2>1, <2>2, <2>3 DEF Settled
  <2> QED BY <2>4, PlacesKept
<1>8. SyncPhase[c] = "serving" /\ SyncPhase' = [SyncPhase EXCEPT ![c] = "done"]
  <2>1. PhaseOf(th, st, c) = "serving" /\ PhaseOf(th', st', c) = "done"
    BY <1>2, <1>3 DEF PhaseOf, ServedBy
  <2>2. \A d \in Calls : d # c => PhaseOf(th', st', d) = PhaseOf(th, st, d)
    BY <1>6 DEF PhaseOf, ServedBy
  <2> QED BY <2>1, <2>2, PhaseIs, PhaseGoes
<1>9. SyncGone' = SyncGone
  BY <1>0, <1>1, <1>g, GoneIs
<1>10. PICK B \in Seq(Items) : NestedIn(th, th', t, f, B)
  BY <1>0, MovesNest
<1>11. Nest(th[t].stack) = Append(B, <<"served", c>>) /\ Nest(th'[t].stack) = B
  BY <1>0, <1>10, <1>g DEF NestedIn, Shows
<1>12. SyncNest' = [SyncNest EXCEPT ![t] = B] /\ SyncNest[t] = Append(B, <<"served", c>>)
  BY <1>11, NestGoes DEF Moves
<1>13. Sync!Next
  BY <1>3, <1>8, <1>9, <1>12, EndStep
<1> QED BY <1>7, <1>13 DEF Simulates

\* Thread t returns from its call: its top frame is gone.
LEMMA LeavesIt ==
    ASSUME Inv(th, st), PlaceInv(th, st), NEW t \in Threads, Top(t).pc = "test",
           NEW c \in Calls, c = Top(t).call, IsReady(st, c),
           th'[t].stack = Front(th[t].stack),
           \A v \in Threads : v # t => th'[v].stack = th[v].stack,
           \A v \in Threads : th'[v].sendlist = th[v].sendlist,
           st'[c] = "returned", \A d \in Calls : d # c => st'[d] = st[d],
           destroyed' = destroyed
    PROVE  Simulates
<1>s. PICK s : s = th[t].stack
  OBVIOUS
<1>k. PICK k : k = SubSeq(s, 1, Len(s) - 1)
  OBVIOUS
<1>g. PICK g : g = s[Len(s)]
  OBVIOUS
<1>0. /\ StackInv(s, t) /\ g.pc = "test" /\ g.call = c /\ g = Topmost(th[t])
      /\ Len(s) # 1 /\ Len(s) \in Nat \ {0}
  <2>1. Len(s) # 1
    BY <1>s, PcOf DEF LoopPcs
  <2> QED BY <1>s, <1>g, <2>1, OfThread
<1>n. PICK n \in Nat : n = Len(s) - 1
  BY <1>0
<1>1. /\ k \in Seq(Frames) /\ Len(k) = n /\ \A i \in DOMAIN k : Fit(k[i])
      /\ \A i \in DOMAIN k : i \in DOMAIN s /\ k[i] = s[i]
      /\ Fit(g) /\ s = Append(k, g) /\ g.call # None
  <2>1. Piled(s, k, g)
    <3>1. StackInv(s, t)
      BY <1>0
    <3> QED BY <1>k, <1>g, <3>1, Pile
  <2> QED BY <1>0, <1>n, <2>1 DEF Piled
<1>2. th'[t].stack = k
  BY <1>s, <1>k DEF Front
<1>3. n \in DOMAIN k /\ n \in DOMAIN s /\ n < Len(s) /\ Topmost(th'[t]) = s[n]
  BY <1>0, <1>n, <1>1, <1>2 DEF Topmost
<1>4. Topmost(th'[t]).pc \in Below
  BY <1>0, <1>3 DEF StackInv
<1>5. \A v \in Threads : v # t => Topmost(th'[v]) = Topmost(th[v])
  BY DEF Topmost
<1>6. \A v \in Threads, d \in Calls : \A i \in DOMAIN th'[v].stack :
          ServesAt(th'[v].stack, i, d) => i \in DOMAIN th[v].stack /\ ServesAt(th[v].stack, i, d)
  BY <1>1, <1>2, <1>s DEF ServesAt
<1>7. \A v \in Threads, d \in Calls : Serves(th'[v], d) <=> Serves(th[v], d)
  <2>1. \A v \in Threads, d \in Calls : Serves(th'[v], d) => Serves(th[v], d)
    BY <1>6 DEF Serves
  <2>2. \A v \in Threads, d \in Calls : v # t => (Serves(th'[v], d) <=> Serves(th[v], d))
    BY DEF Serves
  <2>3. ASSUME NEW d \in Calls, Serves(th[t], d) PROVE Serves(th'[t], d)
    <3>1. PICK i \in DOMAIN s : ServesAt(s, i, d)
      BY <1>s, <2>3 DEF Serves
    <3>2. i # Len(s)
      BY <1>0, <1>g, <3>1 DEF ServesAt
    <3>3. i \in DOMAIN k
      BY <1>0, <1>1, <1>n, <3>2 DEF StackInv
    <3> QED BY <1>1, <1>2, <3>1, <3>3 DEF Serves, ServesAt
  <2> QED BY <2>1, <2>2, <2>3
<1>8. PlaceInv(th', st')
  <2>0. st[c] # "open"
    BY DEF IsReady
  <2>1. \A v \in Threads, d \in Calls : Waiting(th'[v], d) = Waiting(th[v], d)
    BY DEF Waiting
  <2>2. \A v \in Threads, d \in Calls : Pushes(th'[v], d) => Pushes(th[v], d)
    BY <1>4, <1>5 DEF Pushes, Below
  <2>3. /\ \A v \in Threads : \A i \in DOMAIN th[v].stack : ~ServesAt(th[v].stack, i, c)
        /\ \A v \in Threads : Waiting(th[v], c) = 0 /\ ~Pushes(th[v], c)
    BY <2>0 DEF PlaceInv
  <2>4. Settled(th, st, th', st')
    BY <1>6, <2>1, <2>2, <2>3 DEF Settled
  <2> QED BY <2>4, PlacesKept
<1>9. SyncPhase[c] \in {"done", "lost"} /\ SyncPhase' = [SyncPhase EXCEPT ![c] = "returned"]
  <2>1. PhaseOf(th, st, c) \in {"done", "lost"} /\ PhaseOf(th', st', c) = "returned"
    BY DEF PhaseOf, IsReady
  <2>2. \A d \in Calls : d # c => PhaseOf(th', st', d) = PhaseOf(th, st, d)
    BY <1>7 DEF PhaseOf, ServedBy
  <2> QED BY <2>1, <2>2, PhaseIs, PhaseGoes
<1>10. SyncGone' = SyncGone
  <2>1. \A v \in Threads : Topmost(th'[v]).pc = "gone" <=> Topmost(th[v]).pc = "gone"
    BY <1>0, <1>4, <1>5 DEF Below
  <2> QED BY <2>1, GoneIs
<1>11. Nest(k) \in Seq(Items) /\ Nest(s) = Append(Nest(k), <<"made", c>>)
  <2>1. k \in Seq(Frames) /\ (\A i \in DOMAIN k : Fit(k[i])) /\ Fit(g) /\ s = Append(k, g)
    BY <1>1
  <2>2. Nested(s, k, g)
    BY <2>1, NestTop
  <2> QED BY <1>0, <1>1, <2>2 DEF Base, Nested
<1>B. PICK B \in Seq(Items) : B = Nest(k)
  BY <1>11
<1>12. SyncNest' = [SyncNest EXCEPT ![t] = B] /\ SyncNest[t] = Append(B, <<"made", c>>)
  <2>1. Nest(th'[t].stack) = B
    BY <1>2, <1>B
  <2>2. SyncNest' = [SyncNest EXCEPT ![t] = B] /\ SyncNest[t] = Nest(th[t].stack)
    BY <2>1, NestGoes
  <2> QED BY <1>11, <1>B, <1>s, <2>2
<1>13. Sync!Next
  BY <1>9, <1>10, <1>12, ReturnStep
<1> QED BY <1>8, <1>13 DEF Simulates

\* Thread t makes the call c: a new frame is on its stack.
LEMMA OpensIt ==
    ASSUME Inv(th, st), PlaceInv(th, st), NEW t \in Threads, NEW c \in Calls,
           Top(t).pc \in Below, st[c] = "new", t # To[c],
           th'[t].stack = Append(th[t].stack, Frame(c, "push")),
           \A v \in Threads : v # t => th'[v].stack = th[v].stack,
           \A v \in Threads : th'[v].sendlist = th[v].sendlist,
           st'[c] = "open", \A d \in Calls : d # c => st'[d] = st[d],
           destroyed' = destroyed
    PROVE  Simulates
<1>s. PICK s : s = th[t].stack
  OBVIOUS
<1>k. PICK k : k = SubSeq(s, 1, Len(s) - 1)
  OBVIOUS
<1>g. PICK g : g = s[Len(s)]
  OBVIOUS
<1>f. PICK f : f = Frame(c, "push")
  OBVIOUS
<1>l. PICK l : l = Append(s, f)
  OBVIOUS
<1>0. /\ StackInv(s, t) /\ g.pc \in Below /\ g = Topmost(th[t])
      /\ s \in Seq(Frames) /\ Len(s) \in Nat \ {0}
  BY <1>s, <1>g, OfThread
<1>1. /\ k \in Seq(Frames) /\ \A i \in DOMAIN k : Fit(k[i])
      /\ Fit(g) /\ s = Append(k, g)
      /\ Len(s) = 1 => k = <<>> /\ g.call = None
  <2>1. StackInv(s, t)
    BY <1>0
  <2>2. Piled(s, k, g)
    BY <1>k, <1>g, <2>1, Pile
  <2> QED BY <2>2 DEF Piled
<1>2. f \in Frames /\ Fit(f) /\ f.pc = "push" /\ f.call = c /\ c # None
  <2>1. "push" \in SendPcs /\ c # None
    BY ThreadsAssumption DEF SendPcs
  <2> QED BY <1>f, <2>1 DEF Frame, Frames, Fit
<1>3. \A i \in DOMAIN s : Fit(s[i])
  BY <1>0 DEF StackInv, Fit
<1>4. th'[t].stack = l /\ Topmost(th'[t]) = f
  <2>1. th'[t].stack = l
    BY <1>f, <1>s, <1>l
  <2>2. l[Len(l)] = f
    BY <1>0, <1>2, <1>l
  <2> QED BY <2>1, <2>2 DEF Topmost
<1>5. \A v \in Threads : v # t => Topmost(th'[v]) = Topmost(th[v])
  BY DEF Topmost
<1>6. \A d \in Calls : \A i \in DOMAIN l : ServesAt(l, i, d) => i \in DOMAIN s /\ ServesAt(s, i, d)
  <2>n. PICK n \in Nat : n = Len(s) /\ DOMAIN s = 1 .. n
    BY <1>0
  <2>1. l[n + 1] = f /\ DOMAIN l = 1 .. (n + 1) /\ \A i \in 1 .. n : l[i] = s[i]
    BY <1>0, <1>2, <1>l, <2>n
  <2>2. \A i \in 1 .. (n + 1) : i \in 1 .. n \/ i = n + 1
    OBVIOUS
  <2> QED BY <1>2, <2>n, <2>1, <2>2 DEF ServesAt
<1>7. \A v \in Threads, d \in Calls : \A i \in DOMAIN th'[v].stack :
          ServesAt(th'[v].stack, i, d) => i \in DOMAIN th[v].stack /\ ServesAt(th[v].stack, i, d)
  <2>1. \A d \in Calls : \A i \in DOMAIN th'[t].stack :
          ServesAt(th'[t].stack, i, d) => i \in DOMAIN th[t].stack /\ ServesAt(th[t].stack, i, d)
    BY <1>4, <1>6, <1>s
  <2> QED BY <2>1
<1>8. \A v \in Threads, d \in Calls : Serves(th'[v], d) <=> Serves(th[v], d)
  <2>1. \A v \in Threads, d \in Calls : Serves(th'[v], d) => Serves(th[v], d)
    BY <1>7 DEF Serves
  <2>2. \A v \in Threads, d \in Calls : v # t => (Serves(th'[v], d) <=> Serves(th[v], d))
    BY DEF Serves
  <2>3. \A d \in Calls : Serves(th[t], d) => Serves(th'[t], d)
    <3>1. \A i \in DOMAIN s : i \in DOMAIN l /\ l[i] = s[i]
      BY <1>0, <1>2, <1>l
    <3> QED BY <1>4, <1>s, <3>1 DEF Serves, ServesAt
  <2> QED BY <2>1, <2>2, <2>3
<1>9. \A v \in Threads : Waiting(th[v], c) = 0 /\ ~Pushes(th[v], c) /\ ~Serves(th[v], c)
  BY DEF PlaceInv, Serves
<1>10. /\ \A v \in Threads, d \in Calls : Waiting(th'[v], d) = Waiting(th[v], d)
       /\ \A v \in Threads, d \in Calls : Pushes(th'[v], d) =>
             d = c \/ (Pushes(th[v], d) /\ d # c)
  <2>1. \A v \in Threads, d \in Calls : Waiting(th'[v], d) = Waiting(th[v], d)
    BY DEF Waiting
  <2>2. \A v \in Threads, d \in Calls : Pushes(th'[v], d) =>
           d = c \/ (Pushes(th[v], d) /\ d # c)
    BY <1>2, <1>4, <1>5 DEF Pushes
  <2> QED BY <2>1, <2>2
<1>11. PlaceInv(th', st')
  <2>1. ASSUME NEW d \in Calls, NEW v \in Threads, Pushes(th'[v], d)
        PROVE  st'[d] = "open" /\ \A w \in Threads : Waiting(th'[w], d) = 0 /\ ~Serves(th'[w], d)
    <3>1. CASE d = c
      BY <1>8, <1>9, <1>10, <3>1
    <3>2. CASE d # c
      <4>1. Pushes(th[v], d)
        BY <1>10, <2>1, <3>2
      <4>2. st[d] = "open" /\ \A w \in Threads : Waiting(th[w], d) = 0 /\ ~Serves(th[w], d)
        BY <4>1 DEF PlaceInv
      <4> QED BY <1>8, <1>10, <3>2, <4>2
    <3> QED BY <3>1, <3>2
  <2>2. ASSUME NEW d \in Calls, NEW v \in Threads, Waiting(th'[v], d) # 0
        PROVE  st'[d] = "open" /\ Waiting(th'[v], d) = 1 /\ \A w \in Threads : ~Serves(th'[w], d)
    <3>1. Waiting(th'[v], d) = Waiting(th[v], d) /\ d # c
      BY <1>9, <1>10, <2>2
    <3>2. st[d] = "open" /\ Waiting(th[v], d) = 1 /\ \A w \in Threads : ~Serves(th[w], d)
      BY <2>2, <3>1 DEF PlaceInv
    <3> QED BY <1>8, <3>1, <3>2
  <2>3. ASSUME NEW d \in Calls, NEW v \in Threads, NEW i \in DOMAIN th'[v].stack,
               ServesAt(th'[v].stack, i, d)
        PROVE  /\ st'[d] = "open" /\ To[d] = v
               /\ \A j \in DOMAIN th'[v].stack : ServesAt(th'[v].stack, j, d) => i = j
    <3>1. i \in DOMAIN th[v].stack /\ ServesAt(th[v].stack, i, d)
      BY <1>7, <2>3
    <3>2. /\ st[d] = "open" /\ To[d] = v
          /\ \A j \in DOMAIN th[v].stack : ServesAt(th[v].stack, j, d) => i = j
      BY <3>1 DEF PlaceInv
    <3>3. d # c
      BY <3>2
    <3> QED BY <1>7, <3>2, <3>3
  <2> QED BY <2>1, <2>2, <2>3 DEF PlaceInv
<1>12. SyncPhase[c] = "new" /\ SyncPhase' = [SyncPhase EXCEPT ![c] = "called"]
  <2>1. PhaseOf(th, st, c) = "new" /\ PhaseOf(th', st', c) = "called"
    BY <1>8, <1>9 DEF PhaseOf, ServedBy
  <2>2. \A d \in Calls : d # c => PhaseOf(th', st', d) = PhaseOf(th, st, d)
    BY <1>8 DEF PhaseOf, ServedBy
  <2> QED BY <2>1, <2>2, PhaseIs, PhaseGoes
<1>13. SyncGone' = SyncGone
  <2>1. \A v \in Threads : Topmost(th'[v]).pc = "gone" <=> Topmost(th[v]).pc = "gone"
    BY <1>0, <1>2, <1>4, <1>5 DEF Below
  <2> QED BY <2>1, GoneIs
<1>14. Nested(l, s, f) /\ Nested(s, k, g)
  <2>1. Nested(l, s, f)
    BY <1>0, <1>2, <1>3, <1>l, NestTop
  <2>2. k \in Seq(Frames) /\ (\A i \in DOMAIN k : Fit(k[i])) /\ Fit(g) /\ s = Append(k, g)
    BY <1>1
  <2>3. Nested(s, k, g)
    BY <2>2, NestTop
  <2> QED BY <2>1, <2>3
<1>A. PICK A \in Seq(Items) : A = Nest(s)
  BY <1>14 DEF Nested
<1>15. Nest(l) = Append(A, <<"made", c>>)
  BY <1>2, <1>14, <1>A DEF Nested, Base
<1>16. A # <<>> => A[Len(A)][1] # "made"
  <2>1. CASE g.pc = "serve"
    <3>B. PICK B \in Seq(Items) : B = Base(k, g)
      BY <1>14 DEF Nested
    <3>x. PICK x \in Items : x = <<"served", g.smsg[1]>>
      BY <1>1, <2>1 DEF Fit, Entries, Items
    <3>1. A = Append(B, x)
      BY <1>14, <1>A, <2>1, <3>B, <3>x DEF Nested
    <3>2. A[Len(A)] = x
      BY <3>1, AppendParts
    <3> QED BY <3>2, <3>x
  <2>2. CASE g.pc # "serve"
    <3>0. Top(t) = g /\ (Len(th[t].stack) # 1 => Top(t).pc \in SendPcs)
      BY <1>0, OfThread, PcOf
    <3>1. Len(s) = 1
      BY <1>0, <1>s, <2>2, <3>0 DEF Below, SendPcs
    <3>2. A = <<>>
      BY <1>1, <1>14, <1>A, <2>2, <3>1, NestNone DEF Nested, Base
    <3> QED BY <3>2
  <2> QED BY <2>1, <2>2
<1>17. SyncNest' = [SyncNest EXCEPT ![t] = Append(A, <<"made", c>>)] /\ SyncNest[t] = A
  <2>1. Nest(th'[t].stack) = Append(A, <<"made", c>>)
    BY <1>4, <1>15
  <2>2. SyncNest' = [SyncNest EXCEPT ![t] = Append(A, <<"made", c>>)]
        /\ SyncNest[t] = Nest(th[t].stack)
    BY <2>1, NestGoes
  <2> QED BY <1>A, <1>s, <2>2
<1>18. Sync!Next
  BY <1>12, <1>13, <1>16, <1>17, CallStep
<1> QED BY <1>11, <1>18 DEF Simulates

\* The calls in S are lost, with the object or thread x.
Losing(x, S) ==
    /\ \A c \in Calls : st'[c] = IF c \in S THEN "cleared" ELSE st[c]
    /\ \A c \in S : x \in {Obj[c], To[c]} /\ \E u \in Threads : Waiting(th[u], c) # 0
    /\ \A c \in Calls : st[c] = "open" /\ x \in {Obj[c], To[c]} => c \in S \/ ServedBy(th, c)
    /\ \A c \in Calls, u \in Threads : Waiting(th'[u], c) # 0 =>
          c \notin S /\ Waiting(th'[u], c) = Waiting(th[u], c)

Still ==
    /\ \A u \in Threads, c \in Calls : \A i \in DOMAIN th'[u].stack :
          ServesAt(th'[u].stack, i, c) => i \in DOMAIN th[u].stack /\ ServesAt(th[u].stack, i, c)
    /\ \A u \in Threads, c \in Calls : Serves(th'[u], c) <=> Serves(th[u], c)
    /\ \A u \in Threads, c \in Calls : Pushes(th'[u], c) => Pushes(th[u], c)
    /\ \A u \in Threads : Nest(th'[u].stack) = Nest(th[u].stack)

\* The calls S, listed for x or for a thread x, are lost with x.
LEMMA LosesThem ==
    ASSUME Inv(th, st), PlaceInv(th, st), NEW x \in Threads \cup {Obj[c] : c \in Calls},
           x \notin SyncGone, SyncGone' = SyncGone \cup {x},
           NEW S \in SUBSET Calls, Losing(x, S), Still
    PROVE  Simulates
<1>1. \A c \in S : st[c] = "open" /\ \A u \in Threads : ~Serves(th[u], c) /\ ~Pushes(th[u], c)
  BY DEF Losing, PlaceInv
<1>2. PlaceInv(th', st')
  <2>1. /\ \A c \in Calls, t \in Threads : \A i \in DOMAIN th'[t].stack :
              ServesAt(th'[t].stack, i, c) =>
                 i \in DOMAIN th[t].stack /\ ServesAt(th[t].stack, i, c) /\ c \notin S
    BY <1>1 DEF Still, Serves
  <2>2. \A c \in Calls, t \in Threads : Pushes(th'[t], c) => Pushes(th[t], c) /\ c \notin S
    BY <1>1 DEF Still
  <2>3. Settled(th, st, th', st')
    BY <2>1, <2>2 DEF Settled, Losing
  <2> QED BY <2>3, PlacesKept
<1>3. ASSUME NEW c \in Calls
      PROVE  PhaseOf(th', st', c) =
                IF PhaseOf(th, st, c) = "called" /\ x \in {Obj[c], To[c]}
                THEN "lost" ELSE PhaseOf(th, st, c)
  <2>1. ServedBy(th', c) <=> ServedBy(th, c)
    BY DEF Still, ServedBy
  <2>2. CASE c \in S
    <3>1. PhaseOf(th, st, c) = "called"
      BY <1>1, <2>2 DEF PhaseOf, ServedBy
    <3>2. st'[c] = "cleared" /\ x \in {Obj[c], To[c]}
      BY <2>2 DEF Losing
    <3>3. PhaseOf(th', st', c) = "lost"
      BY <3>2 DEF PhaseOf
    <3> QED BY <3>1, <3>2, <3>3
  <2>3. CASE c \notin S
    <3>1. st'[c] = st[c] /\ (st[c] = "open" /\ x \in {Obj[c], To[c]} => ServedBy(th, c))
      BY <2>3 DEF Losing
    <3>2. st[c] \in Phases
      BY DEF Inv, TypeInv
    <3>3. PhaseOf(th', st', c) = PhaseOf(th, st, c)
      BY <2>1, <3>1 DEF PhaseOf
    <3>4. PhaseOf(th, st, c) = "called" => st[c] = "open" /\ ~ServedBy(th, c)
      BY <3>2 DEF PhaseOf, Phases
    <3> QED BY <3>1, <3>3, <3>4
  <2> QED BY <2>2, <2>3
<1>4. SyncPhase' = [c \in Calls |-> IF SyncPhase[c] = "called" /\ x \in {Obj[c], To[c]}
                                    THEN "lost" ELSE SyncPhase[c]]
  BY <1>3, PhaseIs
<1>5. SyncNest' = SyncNest
  BY NestShown DEF Still
<1>6. Sync!Next
  BY <1>4, <1>5, VanishStep
<1> QED BY <1>2, <1>6 DEF Simulates

\* Objects are not threads, and every object that may be destroyed serves some
\* call (the destruction of any other object is none of SyncCall's steps).
Objects == Mortal \subseteq {Obj[c] : c \in Calls} /\ {Obj[c] : c \in Calls} \cap Threads = {}

\* The calls in S do not wait any more, and the others still do.
Fewest(r, q, S) ==
    \A c \in Calls : /\ c \in S => CountOf(r, {c} \X Threads) = 0
                     /\ c \notin S => CountOf(r, {c} \X Threads) = CountOf(q, {c} \X Threads)

LEMMA WaitingWithout ==
    ASSUME NEW q \in Seq(Entries), NEW S, NEW r, r = Without(q, S \X Threads)
    PROVE  Fewest(r, q, S)
<1>0. SUFFICES ASSUME NEW c \in Calls
               PROVE  /\ c \in S => CountOf(r, {c} \X Threads) = 0
                      /\ c \notin S => CountOf(r, {c} \X Threads) = CountOf(q, {c} \X Threads)
  BY DEF Fewest
<1>P. PICK P : P = S \X Threads
  OBVIOUS
<1>Q. PICK Q : Q = {c} \X Threads
  OBVIOUS
<1>1. CountOf(Without(q, P), Q) = CountOf(q, Q \ P)
  BY CountWithout
<1>2. c \notin S => Q \ P = Q
  BY <1>P, <1>Q
<1>3. c \in S => Q \ P = {}
  BY <1>P, <1>Q
<1>4. CountOf(q, {}) = 0
  BY CountZero
<1> QED BY <1>1, <1>2, <1>3, <1>4, <1>P, <1>Q

\* What is listed waits.
LEMMA ListedWaits ==
    ASSUME Inv(th, st), NEW u \in Threads
    PROVE  \A c \in ListedCalls(u) : c \in Calls /\ Waiting(th[u], c) # 0
BY ListedIs, WaitingLists

LEMMA DestroyObjectShows ==
    ASSUME Objects, Inv(th, st), PlaceInv(th, st), destroyed \subseteq Mortal,
           NEW t \in Threads, NEW o \in Mortal, DestroyObject(t, o)
    PROVE  Simulates
<1>S. PICK S \in SUBSET Calls : S = {c \in Calls : Obj[c] = o /\ st[c] = "open"}
  OBVIOUS
<1>1. /\ S \subseteq Unserved /\ Clear(S) /\ o \notin destroyed
      /\ destroyed' = destroyed \cup {o}
  BY <1>S DEF DestroyObject
<1>2. /\ \A c \in Calls : st'[c] = IF c \in S THEN "cleared" ELSE st[c]
      /\ \A u \in Threads : /\ th'[u].stack = th[u].stack
                            /\ th'[u].sendlist = Without(th[u].sendlist, S \X Threads)
  <2>P. PICK P : P = S \X Threads
    OBVIOUS
  <2>w. PICK woken : woken = {m[2] : m \in {n \in UNION {ToSet(th[u].sendlist) : u \in Threads} : n[1] \in S}}
    OBVIOUS
  <2>1. /\ st' = [c \in Calls |-> IF c \in S THEN "cleared" ELSE st[c]]
        /\ th' = [u \in Threads |-> [th[u] EXCEPT !.sendlist = Without(th[u].sendlist, P),
                                                  !.signaled = th[u].signaled \/ u \in woken]]
    BY <1>1, <2>w, <2>P DEF Clear
  <2>2. ASSUME NEW u \in Threads
        PROVE  th'[u].stack = th[u].stack /\ th'[u].sendlist = Without(th[u].sendlist, P)
    <3>1. th[u] \in States
      BY OfThread
    <3>l. PICK l : l = Without(th[u].sendlist, P)
      OBVIOUS
    <3>v. PICK v : v = (th[u].signaled \/ u \in woken)
      OBVIOUS
    <3>2. th'[u] = [th[u] EXCEPT !.sendlist = l, !.signaled = v]
      BY <2>1, <3>l, <3>v
    <3> QED BY <3>1, <3>2, <3>l DEF States
  <2> QED BY <2>1, <2>2, <2>P
<1>3. ASSUME NEW u \in Threads
      PROVE  \A c \in Calls : /\ c \in S => Waiting(th'[u], c) = 0
                              /\ c \notin S => Waiting(th'[u], c) = Waiting(th[u], c)
  <2>q. PICK q \in Seq(Entries) : q = th[u].sendlist
    BY ListedIs
  <2>r. PICK r : r = Without(q, S \X Threads)
    OBVIOUS
  <2>1. Fewest(r, q, S)
    BY <2>r, WaitingWithout
  <2>2. th'[u].sendlist = r
    BY <1>2, <2>q, <2>r
  <2> QED BY <2>1, <2>2, <2>q DEF Fewest, Waiting
<1>4. o \in {Obj[c] : c \in Calls} /\ o \notin Threads
  BY DEF Objects
<1>5. \A c \in Calls : To[c] # o
  BY <1>4, ThreadsAssumption
<1>6. Losing(o, S)
  <2>1. \A c \in S : \E u \in Threads : Waiting(th[u], c) # 0
    BY <1>1, ListedWaits DEF Unserved
  <2>2. \A c \in S : o \in {Obj[c], To[c]}
    BY <1>S
  <2>3. \A c \in Calls : st[c] = "open" /\ o \in {Obj[c], To[c]} => c \in S
    BY <1>S, <1>5
  <2>4. \A c \in Calls, u \in Threads : Waiting(th'[u], c) # 0 =>
           c \notin S /\ Waiting(th'[u], c) = Waiting(th[u], c)
    BY <1>3
  <2> QED BY <1>2, <2>1, <2>2, <2>3, <2>4 DEF Losing
<1>7. Still
  BY <1>2 DEF Still, Serves, Pushes, Topmost
<1>8. o \notin SyncGone /\ SyncGone' = SyncGone \cup {o}
  <2>1. \A u \in Threads : Topmost(th'[u]) = Topmost(th[u])
    BY <1>2 DEF Topmost
  <2> QED BY <1>1, <1>4, <2>1, GoneIs
<1> QED BY <1>4, <1>6, <1>7, <1>8, LosesThem

LEMMA DeleteThreadShows ==
    ASSUME Objects, Inv(th, st), PlaceInv(th, st), destroyed \subseteq Mortal,
           NEW u \in Threads, DeleteThread(u)
    PROVE  Simulates
<1>1. /\ Top(u).pc = "ended" /\ Topmost(th[u]).pc = "ended"
      /\ th[u] \in States /\ th[u].stack # <<>> /\ StackInv(th[u].stack, u)
      /\ Topmost(th[u]) \in Frames
  BY OfThread DEF DeleteThread, At
<1>S. PICK S : S = ListedCalls(u)
  OBVIOUS
<1>2. /\ S \in SUBSET Calls
      /\ \A c \in S : Waiting(th[u], c) # 0 /\ To[c] = u
  <2>1. \A c \in S : c \in Calls /\ Waiting(th[u], c) # 0
    BY <1>S, ListedWaits
  <2>2. \A c \in S : \E v \in Threads : Lists(th[u], <<c, v>>)
    BY <1>S, ListedIs
  <2> QED BY <2>1, <2>2 DEF Inv, CallInv
<1>w. PICK woken : woken = {m[2] : m \in ToSet(th[u].sendlist)}
  OBVIOUS
<1>a. PICK a : a = Goes(th[u], "gone")
  OBVIOUS
<1>b. PICK b : b = [a EXCEPT !.sendlist = <<>>, !.msgq = 0]
  OBVIOUS
<1>3. /\ st' = [c \in Calls |-> IF c \in S THEN "cleared" ELSE st[c]]
      /\ th' = [t \in Threads |-> IF t = u THEN b
                                  ELSE IF t \in woken THEN WakeUp(th[t]) ELSE th[t]]
      /\ destroyed' = destroyed
      /\ \A c \in Calls : To[c] = u /\ st[c] = "open" => c \in S
  BY <1>S, <1>w, <1>a, <1>b DEF DeleteThread
<1>f. PICK f : f = To0(Topmost(th[u]), "gone")
  OBVIOUS
<1>4. a \in States /\ a.stack = TopTo(th[u].stack, f)
  <2>1. "gone" \in LoopPcs \cup SendPcs
    BY DEF LoopPcs
  <2> QED BY <1>1, <1>a, <1>f, <2>1, GoesGoesOn DEF GoesOn
<1>5. b.stack = TopTo(th[u].stack, f) /\ b.sendlist = <<>>
  BY <1>4, <1>b DEF States
<1>6. Fit(f) /\ f.pc = "gone" /\ f.call = Topmost(th[u]).call
  BY <1>1, <1>f DEF To0, Frames, Fit, LoopPcs
<1>7. /\ \A t \in Threads : t # u => th'[t].stack = th[t].stack /\ th'[t].sendlist = th[t].sendlist
      /\ th'[u].stack = TopTo(th[u].stack, f) /\ th'[u].sendlist = <<>>
  <2>1. ASSUME NEW t \in Threads, t # u
        PROVE  th'[t].stack = th[t].stack /\ th'[t].sendlist = th[t].sendlist
    <3>1. th[t] \in States
      BY OfThread
    <3>2. WakeUp(th[t]).stack = th[t].stack /\ WakeUp(th[t]).sendlist = th[t].sendlist
      BY <3>1 DEF WakeUp, States
    <3> QED BY <1>3, <2>1, <3>2
  <2> QED BY <1>3, <1>5, <2>1
<1>8. Moves(th, th', u, f)
  BY <1>6, <1>7 DEF Moves
<1>9. Atop(th, th', u, f) /\ ServesOn(th, th', u, f)
  BY <1>1, <1>8, MovesAtop, MovesServe
<1>g. PICK g : g = Topmost(th[u])
  OBVIOUS
<1>n. PICK n : n = Len(th[u].stack)
  OBVIOUS
<1>10. /\ Topmost(th'[u]) = f
       /\ \A v \in Threads : v # u => Topmost(th'[v]) = Topmost(th[v])
  BY <1>9 DEF Atop
<1>11. Still
  <2>1. \A v \in Threads, d \in Calls : \A i \in DOMAIN th'[v].stack :
            ServesAt(th'[v].stack, i, d) => i \in DOMAIN th[v].stack /\ ServesAt(th[v].stack, i, d)
    BY <1>6, <1>9, <1>g, <1>n DEF ServesOn
  <2>2. \A v \in Threads, d \in Calls : Serves(th'[v], d) <=> Serves(th[v], d)
    <3>1. \A v \in Threads, d \in Calls : Serves(th'[v], d) => Serves(th[v], d)
      BY <2>1 DEF Serves
    <3>2. g.pc # "serve"
      BY <1>1, <1>g
    <3> QED BY <1>9, <1>g, <1>n, <3>1, <3>2 DEF ServesOn
  <2>3. \A v \in Threads, d \in Calls : Pushes(th'[v], d) => Pushes(th[v], d)
    BY <1>6, <1>10 DEF Pushes
  <2>4. Nest(th'[u].stack) = Nest(th[u].stack)
    <3>1. PICK B \in Seq(Items) : NestedIn(th, th', u, f, B)
      BY <1>1, <1>8, MovesNest
    <3> QED BY <1>1, <1>6, <3>1 DEF NestedIn, Shows
  <2>5. \A v \in Threads : Nest(th'[v].stack) = Nest(th[v].stack)
    BY <1>7, <2>4
  <2> QED BY <2>1, <2>2, <2>3, <2>5 DEF Still
<1>12. \A c \in Calls : Waiting(th'[u], c) = 0
  <2>1. \A c \in Calls : CountOf(<<>>, {c} \X Threads) = 0
    BY CountEmpty
  <2> QED BY <1>7, <2>1 DEF Waiting
<1>13. \A c \in Calls : Obj[c] # u
  BY DEF Objects
<1>14. Losing(u, S)
  <2>1. \A c \in Calls : st'[c] = IF c \in S THEN "cleared" ELSE st[c]
    BY <1>3
  <2>2. \A c \in Calls : st[c] = "open" /\ u \in {Obj[c], To[c]} => c \in S
    BY <1>3, <1>13
  <2>3. ASSUME NEW c \in Calls, NEW v \in Threads, Waiting(th'[v], c) # 0
        PROVE  c \notin S /\ Waiting(th'[v], c) = Waiting(th[v], c)
    <3>1. v # u /\ Waiting(th'[v], c) = Waiting(th[v], c)
      BY <1>7, <1>12, <2>3 DEF Waiting
    <3>2. PICK w \in Threads : Lists(th[v], <<c, w>>)
      BY <2>3, <3>1, WaitingLists
    <3>3. To[c] = v
      BY <3>2 DEF Inv, CallInv
    <3> QED BY <1>2, <3>1, <3>3
  <2> QED BY <1>2, <2>1, <2>2, <2>3 DEF Losing
<1>15. u \notin SyncGone /\ SyncGone' = SyncGone \cup {u}
  <2>1. u \notin destroyed
    BY DEF Objects
  <2>2. \A v \in Threads : Topmost(th'[v]).pc = "gone" <=> v = u \/ Topmost(th[v]).pc = "gone"
    BY <1>6, <1>10
  <2>3. {v \in Threads : Topmost(th'[v]).pc = "gone"} =
           {v \in Threads : Topmost(th[v]).pc = "gone"} \cup {u}
    BY <2>2
  <2> QED BY <1>1, <1>3, <2>1, <2>3, GoneIs
<1> QED BY <1>2, <1>11, <1>14, <1>15, LosesThem

-----------------------------------------------------------------------------
(* The steps of the threads are steps of the call.                         *)

\* The top frame with another pc.
LEMMA PcFits ==
    ASSUME NEW g \in Frames, NEW p \in LoopPcs \cup SendPcs, p # "serve",
           NEW f, f = To0(g, p)
    PROVE  Fit(f) /\ f.call = g.call /\ f.pc = p
BY DEF To0, Frames, Fit

\* A step within a thread that takes no call.
LEMMA GoShows ==
    ASSUME Inv(th, st), PlaceInv(th, st), NEW t \in Threads, NEW p, NEW r,
           GoesOn(th[t], r, p), p \in LoopPcs \cup SendPcs,
           p \notin {"serve", "push", "gone"}, Top(t).pc \notin {"serve", "gone"},
           th' = [th EXCEPT ![t] = r], st' = st, destroyed' = destroyed
    PROVE  Simulates
<1>1. th \in [Threads -> States]
  BY OfThread
<1>2. th'[t] = r /\ \A u \in Threads : u # t => th'[u] = th[u]
  BY <1>1
<1>f. PICK f : f = To0(Topmost(th[t]), p)
  OBVIOUS
<1>3. th'[t].stack = TopTo(th[t].stack, f) /\ th'[t].sendlist = th[t].sendlist
  BY <1>2, <1>f DEF GoesOn
<1>4. Moves(th, th', t, f) /\ f.pc = p
  <2>g. PICK g \in Frames : g = Topmost(th[t])
    BY OfThread
  <2>1. Fit(f) /\ f.call = g.call /\ f.pc = p
    BY <1>f, <2>g, PcFits
  <2> QED BY <1>2, <1>3, <2>g, <2>1 DEF Moves
<1>5. \A u \in Threads : th'[u].sendlist = th[u].sendlist
  BY <1>2, <1>3
<1> QED BY <1>4, <1>5, QuietStep

LEMMA EndDispatchShows ==
    ASSUME Inv(th, st), PlaceInv(th, st), NEW t \in Threads, EndDispatch(t) PROVE Simulates
<1>1. PICK r : r = Goes(th[t], "recv")
  OBVIOUS
<1>2. th' = [th EXCEPT ![t] = r] /\ st' = st /\ destroyed' = destroyed /\ Top(t).pc = "dispatch"
  BY <1>1 DEF EndDispatch, Step, At
<1>3. GoesOn(th[t], r, "recv") /\ "recv" \in LoopPcs \cup SendPcs
  BY <1>1, GoesGoesOn DEF LoopPcs
<1> QED BY <1>2, <1>3, GoShows

LEMMA ServeSocketShows ==
    ASSUME Inv(th, st), PlaceInv(th, st), NEW t \in Threads, ServeSocket(t) PROVE Simulates
<1>1. PICK r : r = Goes(th[t], "io")
  OBVIOUS
<1>2. th' = [th EXCEPT ![t] = r] /\ st' = st /\ destroyed' = destroyed /\ Top(t).pc = "wait"
  BY <1>1 DEF ServeSocket, Step, At
<1>3. GoesOn(th[t], r, "io") /\ "io" \in LoopPcs \cup SendPcs
  BY <1>1, GoesGoesOn DEF LoopPcs
<1> QED BY <1>2, <1>3, GoShows

LEMMA EndSocketShows ==
    ASSUME Inv(th, st), PlaceInv(th, st), NEW t \in Threads, EndSocket(t) PROVE Simulates
<1>p. PICK p \in {"wait", "recv"} : p = IF th[t].fWait THEN "wait" ELSE "recv"
  OBVIOUS
<1>1. PICK r : r = Goes(th[t], p)
  OBVIOUS
<1>2. th' = [th EXCEPT ![t] = r] /\ st' = st /\ destroyed' = destroyed /\ Top(t).pc = "io"
  BY <1>1, <1>p DEF EndSocket, Step, At
<1>3. /\ GoesOn(th[t], r, p) /\ p \in LoopPcs \cup SendPcs
      /\ p \notin {"serve", "push", "gone"}
  BY <1>1, GoesGoesOn DEF LoopPcs
<1> QED BY <1>2, <1>3, GoShows

LEMMA GetMessageShows ==
    ASSUME Inv(th, st), PlaceInv(th, st), NEW t \in Threads, GetMessage(t) PROVE Simulates
<1>1. /\ Top(t).pc = "queue" /\ st' = st /\ destroyed' = destroyed
      /\ th[t] \in States /\ th[t].msgq \in Nat
  BY OfThread DEF GetMessage, At, States
<1>2. Len(th[t].stack) = 1
  BY <1>1, PcOf DEF SendPcs
<1>3. ASSUME NEW p \in {"dispatch", "ended", "wait"}, NEW r, GoesOn(th[t], r, p),
             th' = [th EXCEPT ![t] = r]
      PROVE  Simulates
  <2>1. /\ p \in LoopPcs \cup SendPcs /\ p \notin {"serve", "push", "gone"}
        /\ Top(t).pc \notin {"serve", "gone"}
    BY <1>1 DEF LoopPcs
  <2> QED BY <1>1, <1>3, <2>1, GoShows
<1>4. CASE th[t].msgq > 0
  <2>1. PICK q : q = Goes(th[t], "dispatch")
    OBVIOUS
  <2>2. GoesOn(th[t], q, "dispatch") /\ q.msgq = th[t].msgq
    BY <2>1, GoesGoesOn DEF LoopPcs, Frame7
  <2>3. PICK r : r = [q EXCEPT !.msgq = q.msgq - 1]
    OBVIOUS
  <2>4. q.msgq - 1 \in Nat
    BY <1>1, <1>4, <2>2
  <2>5. GoesOn(th[t], r, "dispatch")
    BY <1>1, <1>2, <2>2, <2>3, <2>4, GoesOnFields
  <2>6. th' = [th EXCEPT ![t] = r]
    BY <1>4, <2>1, <2>3 DEF GetMessage, Step
  <2> QED BY <1>3, <2>5, <2>6
<1>5. CASE ~(th[t].msgq > 0) /\ th[t].fStop
  <2>1. PICK r : r = Goes(th[t], "ended")
    OBVIOUS
  <2>2. GoesOn(th[t], r, "ended")
    BY <2>1, GoesGoesOn DEF LoopPcs
  <2>3. th' = [th EXCEPT ![t] = r]
    BY <1>5, <2>1 DEF GetMessage, Step
  <2> QED BY <1>3, <2>2, <2>3
<1>6. CASE ~(th[t].msgq > 0) /\ ~th[t].fStop
  <2>1. PICK q : q = Goes(th[t], "wait")
    OBVIOUS
  <2>2. GoesOn(th[t], q, "wait")
    BY <2>1, GoesGoesOn DEF LoopPcs
  <2>3. PICK r : r = [q EXCEPT !.fWait = TRUE]
    OBVIOUS
  <2>4. GoesOn(th[t], r, "wait")
    BY <1>1, <2>2, <2>3, GoesOnFields
  <2>5. th' = [th EXCEPT ![t] = r]
    BY <1>6, <2>1, <2>3 DEF GetMessage, Step
  <2> QED BY <1>3, <2>4, <2>5
<1> QED BY <1>4, <1>5, <1>6

\* ReceiveSends is over.
LEMMA ReceivedShows ==
    ASSUME Inv(th, st), PlaceInv(th, st), NEW t \in Threads, th[t].sendlist = <<>>,
           Top(t).pc \in {"recv", "pop", "next"}, NEW h \in BOOLEAN,
           NEW r, r = IF h THEN [Received(t) EXCEPT !.has_sends = FALSE] ELSE Received(t),
           th' = [th EXCEPT ![t] = r], st' = st, destroyed' = destroyed
    PROVE  Simulates
<1>0. th[t] \in States
  BY OfThread
<1>p. PICK p \in {"queue", "wait"} : p = IF InLoop(t) THEN "queue" ELSE "wait"
  OBVIOUS
<1>q. PICK q : q = Goes(th[t], p)
  OBVIOUS
<1>1. GoesOn(th[t], q, p)
  BY <1>q, GoesGoesOn DEF LoopPcs
<1>2. PICK a : a = Received(t)
  OBVIOUS
<1>3. a = IF InLoop(t) THEN q ELSE [q EXCEPT !.fWait = TRUE]
  BY <1>p, <1>q, <1>2 DEF Received
<1>4. GoesOn(th[t], a, p)
  BY <1>0, <1>1, <1>3, GoesOnFields
<1>5. GoesOn(th[t], r, p)
  <2>1. CASE h
    BY <1>0, <1>2, <1>4, <2>1, GoesOnFields
  <2>2. CASE ~h
    BY <1>2, <1>4, <2>2
  <2> QED BY <2>1, <2>2
<1>6. /\ p \in LoopPcs \cup SendPcs /\ p \notin {"serve", "push", "gone"}
      /\ Top(t).pc \notin {"serve", "gone"}
  BY DEF LoopPcs
<1> QED BY <1>5, <1>6, GoShows

LEMMA TestSendsShows ==
    ASSUME Inv(th, st), PlaceInv(th, st), NEW t \in Threads, TestSends(t) PROVE Simulates
<1>1. Top(t).pc = "recv" /\ st' = st /\ destroyed' = destroyed
  BY DEF TestSends, At
<1>2. CASE th[t].has_sends
  <2>1. PICK r : r = Goes(th[t], "pop")
    OBVIOUS
  <2>2. th' = [th EXCEPT ![t] = r]
    BY <1>2, <2>1 DEF TestSends, Step
  <2>3. GoesOn(th[t], r, "pop") /\ "pop" \in LoopPcs \cup SendPcs
    BY <2>1, GoesGoesOn DEF LoopPcs
  <2> QED BY <1>1, <2>2, <2>3, GoShows
<1>3. CASE ~th[t].has_sends
  <2>1. th[t].sendlist = <<>>
    BY <1>3 DEF Inv, CallInv
  <2>2. PICK r : r = Received(t)
    OBVIOUS
  <2>3. PICK h \in BOOLEAN : h = FALSE
    OBVIOUS
  <2>4. r = IF h THEN [Received(t) EXCEPT !.has_sends = FALSE] ELSE Received(t)
    BY <2>2, <2>3
  <2>5. th' = [th EXCEPT ![t] = r]
    BY <1>3, <2>2 DEF TestSends, Step
  <2> QED BY <1>1, <2>1, <2>4, <2>5, ReceivedShows
<1> QED BY <1>2, <1>3

\* Taking the first entry of a list leaves the others.
OneLess(r, q, m) ==
    \A c \in Calls : /\ CountOf(q, {c} \X Threads) \in Nat
                     /\ c = m[1] => /\ CountOf(r, {c} \X Threads) = CountOf(q, {c} \X Threads) - 1
                                    /\ CountOf(q, {c} \X Threads) # 0
                     /\ c # m[1] => CountOf(r, {c} \X Threads) = CountOf(q, {c} \X Threads)

LEMMA WaitingTail ==
    ASSUME NEW q \in Seq(Entries), q # <<>>, NEW m \in Entries, m = Head(q),
           NEW r, r = Tail(q)
    PROVE  OneLess(r, q, m)
<1>0. SUFFICES ASSUME NEW c \in Calls
               PROVE  /\ CountOf(q, {c} \X Threads) \in Nat
                      /\ c = m[1] => /\ CountOf(r, {c} \X Threads) = CountOf(q, {c} \X Threads) - 1
                                     /\ CountOf(q, {c} \X Threads) # 0
                      /\ c # m[1] => CountOf(r, {c} \X Threads) = CountOf(q, {c} \X Threads)
  BY DEF OneLess
<1>P. PICK P : P = {c} \X Threads
  OBVIOUS
<1>1. CountOf(Tail(q), P) = CountOf(q, P) - (IF Head(q) \in P THEN 1 ELSE 0)
  BY CountTail
<1>2. m \in P <=> c = m[1]
  BY <1>P DEF Entries
<1>3. CountOf(q, P) \in Nat
  BY PlacesFinite
<1>4. m \in P => CountOf(q, P) # 0
  <2>1. 1 \in DOMAIN q /\ q[1] = m
    OBVIOUS
  <2>2. CountOf(q, P) = 0 <=> \A i \in DOMAIN q : q[i] \notin P
    BY CountZero
  <2> QED BY <2>1, <2>2
<1> QED BY <1>1, <1>2, <1>3, <1>4, <1>P

LEMMA PopSendShows ==
    ASSUME Inv(th, st), PlaceInv(th, st), NEW t \in Threads, PopSend(t) PROVE Simulates
<1>1. /\ Top(t).pc \in {"pop", "next"} /\ st' = st /\ destroyed' = destroyed
      /\ th[t] \in States /\ th[t].stack # <<>> /\ StackInv(th[t].stack, t)
      /\ Topmost(th[t]) \in Frames /\ th \in [Threads -> States]
      /\ th[t].stack \in Seq(Frames)
  BY OfThread DEF PopSend, At
<1>2. CASE th[t].sendlist = <<>>
  <2>1. PICK h \in BOOLEAN : h = TRUE
    OBVIOUS
  <2>2. PICK r : r = [Received(t) EXCEPT !.has_sends = FALSE]
    OBVIOUS
  <2>3. r = IF h THEN [Received(t) EXCEPT !.has_sends = FALSE] ELSE Received(t)
    BY <2>1, <2>2
  <2>4. th' = [th EXCEPT ![t] = r]
    BY <1>2, <2>2 DEF PopSend, Step
  <2>5. Top(t).pc \in {"recv", "pop", "next"}
    BY <1>1
  <2> QED BY <1>1, <1>2, <2>3, <2>4, <2>5, ReceivedShows
<1>3. CASE th[t].sendlist # <<>>
  <2>1. PICK m : m = Head(th[t].sendlist)
    OBVIOUS
  <2>q. PICK q \in Seq(Entries) : q = th[t].sendlist
    BY ListedIs
  <2>2. m \in Entries /\ Lists(th[t], m)
    <3>1. 1 \in DOMAIN q /\ q[1] = m /\ m \in Entries
      BY <1>3, <2>1, <2>q
    <3> QED BY <2>q, <3>1 DEF Lists
  <2>3. PICK a : a = Goes(th[t], "serve")
    OBVIOUS
  <2>4. PICK b : b = Holds(a, m)
    OBVIOUS
  <2>5. PICK r : r = [b EXCEPT !.sendlist = Tail(b.sendlist)]
    OBVIOUS
  <2>6. th' = [th EXCEPT ![t] = r]
    BY <1>3, <2>1, <2>3, <2>4, <2>5 DEF PopSend, Step
  <2>f. PICK f : f = [[Topmost(th[t]) EXCEPT !.pc = "serve"] EXCEPT !.smsg = m]
    OBVIOUS
  <2>7. /\ a \in States /\ Frame7(th[t], a)
        /\ a.stack = TopTo(th[t].stack, [Topmost(th[t]) EXCEPT !.pc = "serve"])
    <3>1. "serve" \in LoopPcs \cup SendPcs
      BY DEF LoopPcs
    <3> QED BY <1>1, <2>3, <3>1, GoesIs
  <2>8. /\ a.stack # <<>> /\ Len(a.stack) = Len(th[t].stack)
        /\ Topmost(a) = [Topmost(th[t]) EXCEPT !.pc = "serve"]
    BY <1>1, <2>7 DEF TopTo, Topmost
  <2>9. /\ b \in States /\ Frame7(a, b) /\ b.stack = TopTo(a.stack, f)
    <3>1. m \in Entries \cup {None} /\ f = [Topmost(a) EXCEPT !.smsg = m]
      BY <2>2, <2>8, <2>f
    <3>2. a \in States /\ a.stack # <<>>
      BY <2>7, <2>8
    <3> QED BY <2>4, <3>1, <3>2, HoldsIs
  <2>10. TopTo(a.stack, f) = TopTo(th[t].stack, f)
    BY <1>1, <2>7, <2>8 DEF TopTo
  <2>11. r.sendlist = Tail(q) /\ r.stack = TopTo(th[t].stack, f)
    BY <2>5, <2>7, <2>9, <2>10, <2>q DEF Frame7, States
  <2>12. /\ f \in Frames /\ f.pc = "serve" /\ f.smsg = m /\ f.call = Topmost(th[t]).call
    <3>1. "serve" \in LoopPcs \cup SendPcs
      BY DEF LoopPcs
    <3> QED BY <1>1, <2>2, <2>f, <3>1 DEF Frames
  <2>13. Fit(f)
    BY <2>2, <2>12 DEF Fit
  <2>14. th'[t] = r /\ \A u \in Threads : u # t => th'[u] = th[u]
    BY <1>1, <2>6
  <2>15. Moves(th, th', t, f)
    BY <2>11, <2>12, <2>13, <2>14 DEF Moves
  <2>l. PICK l : l = Tail(q)
    OBVIOUS
  <2>16. OneLess(l, q, m)
    BY <1>3, <2>1, <2>2, <2>l, <2>q, WaitingTail
  <2>c. PICK c \in Calls : c = m[1]
    BY <2>2 DEF Entries
  <2>17. \A d \in Calls : /\ d = c => /\ Waiting(th'[t], d) = Waiting(th[t], d) - 1
                                      /\ Waiting(th[t], d) # 0
                          /\ d # c => Waiting(th'[t], d) = Waiting(th[t], d)
    BY <2>11, <2>14, <2>16, <2>c, <2>l, <2>q DEF Waiting, OneLess
  <2>18. /\ Waiting(th'[t], m[1]) = Waiting(th[t], m[1]) - 1 /\ Waiting(th[t], m[1]) # 0
         /\ \A d \in Calls : d # m[1] => Waiting(th'[t], d) = Waiting(th[t], d)
    BY <2>17, <2>c
  <2>19. \A u \in Threads : u # t => th'[u].sendlist = th[u].sendlist
    BY <2>14
  <2> QED BY <1>1, <2>2, <2>12, <2>15, <2>18, <2>19, TakesUp
<1> QED BY <1>2, <1>3

LEMMA EndServeShows ==
    ASSUME Inv(th, st), PlaceInv(th, st), NEW t \in Threads, EndServe(t) PROVE Simulates
<1>g. PICK g : g = Topmost(th[t])
  OBVIOUS
<1>1. /\ g.pc = "serve" /\ Top(t) = g /\ StackInv(th[t].stack, t) /\ g \in Frames
      /\ th \in [Threads -> States] /\ st \in [Calls -> Phases]
      /\ th[t].stack \in Seq(Frames) /\ th[t].stack # <<>>
      /\ destroyed' = destroyed
  BY <1>g, OfThread DEF EndServe, At
<1>2. g.smsg[1] \in Calls
  <2>1. g.smsg \in Entries
    BY <1>1, <1>g DEF StackInv, Topmost
  <2> QED BY <2>1 DEF Entries
<1>c. PICK c \in Calls : c = g.smsg[1]
  BY <1>2
<1>3. st'[c] = "done" /\ \A d \in Calls : d # c => st'[d] = st[d]
  BY <1>1, <1>c DEF EndServe
<1>r. PICK r : r = Goes(th[t], "ready")
  OBVIOUS
<1>4. th' = [th EXCEPT ![t] = r]
  BY <1>r DEF EndServe, Step
<1>5. th'[t] = r /\ \A u \in Threads : u # t => th'[u] = th[u]
  BY <1>1, <1>4
<1>f. PICK f : f = To0(g, "ready")
  OBVIOUS
<1>6. r.stack = TopTo(th[t].stack, f) /\ r.sendlist = th[t].sendlist
  BY <1>f, <1>g, <1>r, GoesGoesOn DEF LoopPcs, GoesOn
<1>7. Fit(f) /\ f.call = g.call /\ f.pc = "ready"
  <2>1. "ready" \in LoopPcs \cup SendPcs
    BY DEF LoopPcs
  <2> QED BY <1>1, <1>f, <2>1, PcFits
<1>8. Moves(th, th', t, f)
  BY <1>5, <1>6, <1>7, <1>g DEF Moves
<1>9. \A u \in Threads : th'[u].sendlist = th[u].sendlist
  BY <1>5, <1>6
<1> QED BY <1>1, <1>3, <1>7, <1>8, <1>9, <1>c, EndsIt

\* What a wake-up leaves alone.
LEMMA WakeUpIs ==
    ASSUME NEW s \in States
    PROVE  WakeUp(s).stack = s.stack /\ WakeUp(s).sendlist = s.sendlist
BY DEF WakeUp, States

\* Thread t goes on, and wakes u.
LEMMA WakesShow ==
    ASSUME Inv(th, st), PlaceInv(th, st), NEW t \in Threads, NEW u \in Threads, u # t,
           NEW f, Fit(f), f.call = Topmost(th[t]).call, f.pc \notin {"serve", "push", "gone"},
           NEW a, a.stack = TopTo(th[t].stack, f), a.sendlist = th[t].sendlist,
           Top(t).pc \notin {"serve", "gone"},
           th' = [th EXCEPT ![t] = a, ![u] = WakeUp(@)], st' = st, destroyed' = destroyed
    PROVE  Simulates
<1>1. th \in [Threads -> States] /\ th[u] \in States
  BY OfThread
<1>2. /\ th'[t] = a /\ th'[u] = WakeUp(th[u])
      /\ \A v \in Threads : v # t /\ v # u => th'[v] = th[v]
  BY <1>1
<1>3. \A v \in Threads : v # t => th'[v].stack = th[v].stack /\ th'[v].sendlist = th[v].sendlist
  BY <1>1, <1>2, WakeUpIs
<1>4. Moves(th, th', t, f)
  BY <1>2, <1>3 DEF Moves
<1>5. \A v \in Threads : th'[v].sendlist = th[v].sendlist
  BY <1>2, <1>3
<1> QED BY <1>4, <1>5, QuietStep

\* The top frame of a Send makes a call to another thread.
LEMMA CallOf ==
    ASSUME Inv(th, st), NEW t \in Threads, Topmost(th[t]).pc \in {"push", "wake", "test"}
    PROVE  Topmost(th[t]).call \in Calls /\ To[Topmost(th[t]).call] # t
<1>1. /\ Top(t) = Topmost(th[t]) /\ StackInv(th[t].stack, t)
      /\ Topmost(th[t]) = th[t].stack[Len(th[t].stack)]
      /\ Len(th[t].stack) \in Nat \ {0} /\ th[t].stack \in Seq(Frames)
  BY OfThread
<1>2. Len(th[t].stack) # 1
  BY <1>1, PcOf DEF LoopPcs
<1>n. PICK n \in Nat \ {0} : n = Len(th[t].stack)
  BY <1>1
<1>3. n \in DOMAIN th[t].stack /\ Topmost(th[t]) = th[t].stack[n]
  BY <1>1, <1>n
<1>4. n > 1
  <2>1. n # 1
    BY <1>2, <1>n
  <2> QED BY <2>1
<1> QED BY <1>1, <1>3, <1>4 DEF StackInv

LEMMA WakeTargetShows ==
    ASSUME Inv(th, st), PlaceInv(th, st), NEW t \in Threads, WakeTarget(t) PROVE Simulates
<1>g. PICK g : g = Topmost(th[t])
  OBVIOUS
<1>1. /\ g.pc = "wake" /\ Top(t) = g /\ g \in Frames /\ StackInv(th[t].stack, t)
      /\ st' = st /\ destroyed' = destroyed
  BY <1>g, OfThread DEF WakeTarget, At
<1>2. g.call \in Calls /\ To[g.call] # t
  BY <1>1, <1>g, CallOf
<1>u. PICK u \in Threads \ {t} : u = To[g.call]
  BY <1>2, ThreadsAssumption
<1>a. PICK a : a = Goes(th[t], "test")
  OBVIOUS
<1>f. PICK f : f = To0(g, "test")
  OBVIOUS
<1>3. a.stack = TopTo(th[t].stack, f) /\ a.sendlist = th[t].sendlist
  BY ZenonT(60), <1>a, <1>f, <1>g, GoesGoesOn DEF SendPcs, GoesOn
<1>4. Fit(f) /\ f.call = g.call /\ f.pc = "test"
  <2>1. "test" \in LoopPcs \cup SendPcs
    BY DEF SendPcs
  <2> QED BY <1>1, <1>f, <2>1, PcFits
<1>5. th' = [th EXCEPT ![t] = a, ![u] = WakeUp(@)]
  BY <1>1, <1>a, <1>u DEF WakeTarget
<1> QED BY <1>1, <1>3, <1>4, <1>5, <1>g, <1>u, WakesShow

LEMMA WakeSenderShows ==
    ASSUME Inv(th, st), PlaceInv(th, st), NEW t \in Threads, WakeSender(t) PROVE Simulates
<1>1. /\ Top(t).pc = "ready" /\ Top(t) = Topmost(th[t])
      /\ st' = st /\ destroyed' = destroyed
      /\ th[t] \in States /\ th[t].stack # <<>> /\ StackInv(th[t].stack, t)
      /\ Topmost(th[t]) = th[t].stack[Len(th[t].stack)] /\ Topmost(th[t]) \in Frames
      /\ th[t].stack \in Seq(Frames)
  BY OfThread DEF WakeSender, At
<1>g. PICK g : g = Topmost(th[t])
  OBVIOUS
<1>2. g.smsg \in Entries /\ Has(th[t], g.smsg)
  BY <1>1, <1>g DEF StackInv, Has, Keeps
<1>3. g.smsg = <<g.smsg[1], g.smsg[2]>> /\ g.smsg[1] \in Calls /\ g.smsg[2] \in Threads
  BY <1>2 DEF Entries
<1>u. PICK u \in Threads \ {t} : u = g.smsg[2]
  BY <1>2, <1>3 DEF Inv, CallInv
<1>b. PICK b : b = Goes(th[t], "next")
  OBVIOUS
<1>a. PICK a : a = Holds(b, None)
  OBVIOUS
<1>4. b \in States /\ Frame7(th[t], b) /\ b.stack = TopTo(th[t].stack, [g EXCEPT !.pc = "next"])
  <2>1. "next" \in LoopPcs \cup SendPcs
    BY DEF SendPcs
  <2> QED BY <1>1, <1>b, <1>g, <2>1, GoesIs
<1>5. /\ b.stack # <<>> /\ Len(b.stack) = Len(th[t].stack)
      /\ Topmost(b) = [g EXCEPT !.pc = "next"]
  BY <1>1, <1>4 DEF TopTo, Topmost
<1>f. PICK f : f = [[g EXCEPT !.pc = "next"] EXCEPT !.smsg = None]
  OBVIOUS
<1>6. Frame7(b, a) /\ a.stack = TopTo(b.stack, f)
  <2>1. None \in Entries \cup {None} /\ f = [Topmost(b) EXCEPT !.smsg = None]
    BY <1>5, <1>f
  <2>2. b \in States /\ b.stack # <<>>
    BY <1>4, <1>5
  <2> QED BY <1>a, <2>1, <2>2, HoldsIs
<1>7. TopTo(b.stack, f) = TopTo(th[t].stack, f)
  BY <1>1, <1>4, <1>5 DEF TopTo
<1>8. a.stack = TopTo(th[t].stack, f) /\ a.sendlist = th[t].sendlist
  BY <1>4, <1>6, <1>7 DEF Frame7
<1>9. Fit(f) /\ f.call = g.call /\ f.pc = "next"
  <2>1. "next" \in LoopPcs \cup SendPcs
    BY DEF LoopPcs
  <2> QED BY <1>1, <1>f, <1>g, <2>1 DEF Frames, Fit
<1>10. th' = [th EXCEPT ![t] = a, ![u] = WakeUp(@)]
  BY <1>1, <1>a, <1>b, <1>g, <1>u DEF WakeSender
<1>11. /\ f.call = Topmost(th[t]).call /\ f.pc \notin {"serve", "push", "gone"}
       /\ Top(t).pc \notin {"serve", "gone"} /\ u # t
  BY <1>1, <1>9, <1>g
<1> QED BY <1>1, <1>8, <1>9, <1>10, <1>11, WakesShow

LEMMA EndWaitShows ==
    ASSUME Inv(th, st), PlaceInv(th, st), NEW t \in Threads, EndWait(t) PROVE Simulates
<1>1. /\ Top(t).pc = "wait" /\ Top(t) = Topmost(th[t])
      /\ st' = st /\ destroyed' = destroyed
      /\ th[t] \in States /\ th[t].stack # <<>>
      /\ Topmost(th[t]) = th[t].stack[Len(th[t].stack)] /\ Topmost(th[t]) \in Frames
      /\ Len(th[t].stack) \in Nat \ {0} /\ th[t].stack \in Seq(Frames)
      /\ th \in [Threads -> States]
  BY OfThread DEF EndWait, At
<1>g. PICK g : g = Topmost(th[t])
  OBVIOUS
<1>w. PICK w \in BOOLEAN : w = ~InLoop(t)
  OBVIOUS
<1>p. PICK p \in {"recv", "test"} : p = IF InLoop(t) THEN "recv" ELSE "test"
  OBVIOUS
<1>q. p \in LoopPcs \cup SendPcs
  BY DEF LoopPcs, SendPcs
<1>a. PICK a : a = Goes(th[t], p)
  OBVIOUS
<1>2. a \in States /\ Frame7(th[t], a) /\ a.stack = TopTo(th[t].stack, [g EXCEPT !.pc = p])
  BY <1>1, <1>a, <1>g, <1>q, GoesIs
<1>f. PICK f : f = [[g EXCEPT !.pc = p] EXCEPT !.waited = w]
  OBVIOUS
<1>3. Fit(f) /\ f.pc = p /\ f.call = g.call
  BY <1>1, <1>f, <1>g, <1>q DEF Frames, Fit
<1>r. PICK r : th' = [th EXCEPT ![t] = r] /\
               r = [a EXCEPT !.signaled = FALSE, !.fWait = FALSE,
                             !.stack[Len(th[t].stack)].waited = w]
  BY <1>a, <1>p, <1>w DEF EndWait, Step
<1>k. PICK k : k = [a.stack EXCEPT ![Len(th[t].stack)].waited = w]
  OBVIOUS
<1>4. k = TopTo(th[t].stack, f)
  <2>1. /\ Len(a.stack) = Len(th[t].stack) /\ Len(th[t].stack) \in DOMAIN a.stack
        /\ a.stack[Len(th[t].stack)] = [g EXCEPT !.pc = p]
    BY <1>1, <1>2 DEF TopTo
  <2>2. k = [a.stack EXCEPT ![Len(th[t].stack)] = f]
    BY <1>f, <1>k, <2>1
  <2> QED BY <1>1, <1>2, <2>2 DEF TopTo
<1>5. r = [a EXCEPT !.signaled = FALSE, !.fWait = FALSE, !.stack = k]
  BY <1>k, <1>r
<1>6. r.stack = TopTo(th[t].stack, f) /\ r.sendlist = th[t].sendlist
  BY <1>2, <1>4, <1>5 DEF States, Frame7
<1>7. th'[t] = r /\ \A u \in Threads : u # t => th'[u] = th[u]
  BY <1>1, <1>r
<1>8. Moves(th, th', t, f)
  BY <1>3, <1>6, <1>7, <1>g DEF Moves
<1>9. \A u \in Threads : th'[u].sendlist = th[u].sendlist
  BY <1>6, <1>7
<1>10. f.pc \notin {"serve", "push", "gone"} /\ Top(t).pc \notin {"serve", "gone"}
  BY <1>1, <1>3
<1> QED BY <1>1, <1>8, <1>9, <1>10, QuietStep

LEMMA TestReadyShows ==
    ASSUME Inv(th, st), PlaceInv(th, st), NEW t \in Threads, TestReady(t) PROVE Simulates
<1>1. /\ Top(t).pc = "test" /\ Top(t) = Topmost(th[t]) /\ destroyed' = destroyed
      /\ th[t] \in States /\ th \in [Threads -> States] /\ st \in [Calls -> Phases]
      /\ th[t].stack \in Seq(Frames)
  BY OfThread DEF TestReady, At
<1>c. PICK c \in Calls : c = Top(t).call
  BY <1>1, CallOf
<1>2. CASE Ready(c)
  <2>s. PICK s : s = IF Top(t).waited THEN WakeUp(th[t]) ELSE th[t]
    OBVIOUS
  <2>1. th' = [th EXCEPT ![t] = Leave(s)] /\ st' = [st EXCEPT ![c] = "returned"]
    BY <1>2, <1>c, <2>s DEF TestReady, Step
  <2>2. s \in States /\ s.stack = th[t].stack /\ s.sendlist = th[t].sendlist
    <3>1. CASE Top(t).waited
      BY <1>1, <2>s, <3>1 DEF WakeUp, States
    <3>2. CASE ~Top(t).waited
      BY <1>1, <2>s, <3>2
    <3> QED BY <3>1, <3>2
  <2>3. Leave(s).stack = Front(th[t].stack) /\ Leave(s).sendlist = th[t].sendlist
    BY <2>2 DEF Leave, States
  <2>4. /\ th'[t].stack = Front(th[t].stack) /\ th'[t].sendlist = th[t].sendlist
        /\ \A v \in Threads : v # t => th'[v] = th[v]
    BY <1>1, <2>1, <2>3
  <2>5. st'[c] = "returned" /\ \A d \in Calls : d # c => st'[d] = st[d]
    BY <1>1, <2>1
  <2>6. IsReady(st, c)
    BY <1>2 DEF Ready, IsReady
  <2>7. /\ \A v \in Threads : v # t => th'[v].stack = th[v].stack
        /\ \A v \in Threads : th'[v].sendlist = th[v].sendlist
    BY <2>4
  <2> QED BY <1>1, <1>c, <2>4, <2>5, <2>6, <2>7, LeavesIt
<1>3. CASE ~Ready(c)
  <2>1. PICK r : r = Goes(th[t], "recv")
    OBVIOUS
  <2>2. th' = [th EXCEPT ![t] = r] /\ st' = st
    BY <1>3, <1>c, <2>1 DEF TestReady, Step
  <2>3. GoesOn(th[t], r, "recv") /\ "recv" \in LoopPcs \cup SendPcs
    BY <2>1, GoesGoesOn DEF LoopPcs
  <2> QED BY <1>1, <2>2, <2>3, GoShows
<1> QED BY <1>2, <1>3

LEMMA SendShows ==
    ASSUME Inv(th, st), PlaceInv(th, st), NEW t \in Threads, NEW c \in Calls, Send(t, c)
    PROVE  Simulates
<1>1. /\ st[c] = "new" /\ t # To[c] /\ Top(t).pc \in Below /\ destroyed' = destroyed
      /\ th \in [Threads -> States] /\ st \in [Calls -> Phases]
  BY OfThread DEF Send, Executes, Below
<1>2. CASE th[To[c]].fStop
  <2>1. th' = th /\ st' = [st EXCEPT ![c] = "refused"]
    BY <1>2 DEF Send
  <2>2. \A d \in Calls : st'[d] = st[d] \/ (st[d] = "new" /\ st'[d] = "refused")
    BY <1>1, <2>1
  <2> QED BY <1>1, <2>1, <2>2, CalmStep
<1>3. CASE ~th[To[c]].fStop
  <2>f. PICK f : f = Frame(c, "push")
    OBVIOUS
  <2>1. th' = [th EXCEPT ![t] = Enter(th[t], f)] /\ st' = [st EXCEPT ![c] = "open"]
    BY <1>3, <2>f DEF Send, Step
  <2>2. th[t] \in States
    BY OfThread
  <2>3. Enter(th[t], f).stack = Append(th[t].stack, f) /\ Enter(th[t], f).sendlist = th[t].sendlist
    BY <2>2 DEF Enter, States
  <2>4. /\ th'[t].stack = Append(th[t].stack, f) /\ th'[t].sendlist = th[t].sendlist
        /\ \A v \in Threads : v # t => th'[v] = th[v]
    BY <1>1, <2>1, <2>3
  <2>5. st'[c] = "open" /\ \A d \in Calls : d # c => st'[d] = st[d]
    BY <1>1, <2>1
  <2>6. /\ \A v \in Threads : v # t => th'[v].stack = th[v].stack
        /\ \A v \in Threads : th'[v].sendlist = th[v].sendlist
    BY <2>4
  <2> QED BY <1>1, <2>4, <2>5, <2>6, <2>f, OpensIt
<1> QED BY <1>2, <1>3

LEMMA PushShows ==
    ASSUME Inv(th, st), PlaceInv(th, st), NEW t \in Threads, Push(t) PROVE Simulates
<1>g. PICK g : g = Topmost(th[t])
  OBVIOUS
<1>1. /\ g.pc = "push" /\ Top(t) = g /\ g \in Frames
      /\ st' = st /\ destroyed' = destroyed /\ th \in [Threads -> States]
  BY <1>g, OfThread DEF Push, At
<1>c. PICK c \in Calls : c = g.call /\ To[c] # t
  BY <1>1, <1>g, CallOf
<1>u. PICK u \in Threads \ {t} : u = To[c]
  BY <1>c, ThreadsAssumption
<1>a. PICK a : a = Goes(th[t], "wake")
  OBVIOUS
<1>f. PICK f : f = To0(g, "wake")
  OBVIOUS
<1>2. a.stack = TopTo(th[t].stack, f) /\ a.sendlist = th[t].sendlist
  BY <1>a, <1>f, <1>g, GoesGoesOn DEF SendPcs, GoesOn
<1>3. Fit(f) /\ f.call = g.call /\ f.pc = "wake"
  <2>1. "wake" \in LoopPcs \cup SendPcs
    BY DEF SendPcs
  <2> QED BY <1>1, <1>f, <2>1, PcFits
<1>l. PICK l : l = Append(th[u].sendlist, <<c, t>>)
  OBVIOUS
<1>4. th' = [th EXCEPT ![t] = a, ![u].sendlist = l, ![u].has_sends = TRUE]
  BY ZenonT(40), <1>1, <1>a, <1>c, <1>l, <1>u DEF Push
<1>r. PICK r : r = [th[u] EXCEPT !.sendlist = l, !.has_sends = TRUE]
  OBVIOUS
<1>5. /\ th'[t] = a /\ th'[u] = r
      /\ \A v \in Threads : v # t /\ v # u => th'[v] = th[v]
  BY <1>1, <1>4, <1>r
<1>6. r.stack = th[u].stack /\ r.sendlist = l
  <2>1. th[u] \in States
    BY OfThread
  <2> QED BY <1>r, <2>1 DEF States
<1>7. \A v \in Threads : v # t => th'[v].stack = th[v].stack
  BY <1>5, <1>6
<1>8. Moves(th, th', t, f)
  BY <1>2, <1>3, <1>5, <1>7, <1>g DEF Moves
<1>9. /\ OneMore(th'[u].sendlist, th[u].sendlist, c)
      /\ \A v \in Threads : v # u => th'[v].sendlist = th[v].sendlist
  <2>q. PICK q \in Seq(Entries) : q = th[u].sendlist
    BY ListedIs
  <2>1. l = Append(q, <<c, t>>)
    BY <1>l, <2>q
  <2>2. OneMore(l, q, c)
    BY <2>1, WaitingAppend
  <2> QED BY <1>2, <1>5, <1>6, <2>2, <2>q
<1> QED BY SMTT(40), <1>1, <1>3, <1>8, <1>9, <1>c, <1>u, ListsIt

\* A thread gets something to look at.
LEMMA SignalShows ==
    ASSUME Inv(th, st), PlaceInv(th, st), NEW u \in Threads, NEW r,
           r.stack = th[u].stack, r.sendlist = th[u].sendlist,
           th' = [th EXCEPT ![u] = r], st' = st, destroyed' = destroyed
    PROVE  Simulates
<1>1. th \in [Threads -> States]
  BY OfThread
<1>2. th'[u] = r /\ \A v \in Threads : v # u => th'[v] = th[v]
  BY <1>1
<1>3. \A v \in Threads : th'[v].stack = th[v].stack /\ th'[v].sendlist = th[v].sendlist
  BY <1>2
<1> QED BY <1>3, CalmStep

LEMMA PostShows ==
    ASSUME Inv(th, st), PlaceInv(th, st), NEW t \in Threads, NEW u \in Threads, Post(t, u)
    PROVE  Simulates
<1>1. st' = st /\ destroyed' = destroyed /\ th[u] \in States
  BY OfThread DEF Post
<1>2. CASE th[u].fStop
  <2>1. th' = th
    BY <1>2 DEF Post
  <2> QED BY <1>1, <2>1, CalmStep
<1>3. CASE ~th[u].fStop
  <2>a. PICK a : a = [th[u] EXCEPT !.msgq = th[u].msgq + 1]
    OBVIOUS
  <2>1. PICK r : r = WakeUp(a)
    OBVIOUS
  <2>2. th' = [th EXCEPT ![u] = r]
    BY <1>3, <2>a, <2>1 DEF Post
  <2>3. r.stack = th[u].stack /\ r.sendlist = th[u].sendlist
    BY <1>1, <2>a, <2>1 DEF WakeUp, States
  <2> QED BY <1>1, <2>2, <2>3, SignalShows
<1> QED BY <1>2, <1>3

LEMMA QuitShows ==
    ASSUME Inv(th, st), PlaceInv(th, st), NEW t \in Threads, NEW u \in Threads, Quit(t, u)
    PROVE  Simulates
<1>1. st' = st /\ destroyed' = destroyed /\ th[u] \in States
  BY OfThread DEF Quit
<1>a. PICK a : a = [th[u] EXCEPT !.fStop = TRUE]
  OBVIOUS
<1>2. PICK r : r = WakeUp(a)
  OBVIOUS
<1>3. th' = [th EXCEPT ![u] = r]
  BY <1>a, <1>2 DEF Quit
<1>4. r.stack = th[u].stack /\ r.sendlist = th[u].sendlist
  BY <1>1, <1>a, <1>2 DEF WakeUp, States
<1> QED BY <1>1, <1>3, <1>4, SignalShows

-----------------------------------------------------------------------------
(* The refinement.                                                         *)

\* No call is anywhere yet.
LEMMA InitShows ==
    ASSUME Init PROVE PlaceInv(th, st) /\ Sync!Init
<1>f. PICK f : f = Frame(None, "recv")
  OBVIOUS
<1>1. f \in Frames /\ f.call = None /\ f.pc = "recv" /\ Fit(f)
  BY <1>f DEF Frame, Frames, LoopPcs, Fit
<1>k. PICK k : k = <<f>>
  OBVIOUS
<1>2. Len(k) = 1 /\ DOMAIN k = {1} /\ k[1] = f
  BY <1>1, <1>k
<1>3. \A t \in Threads : th[t].stack = k /\ th[t].sendlist = <<>>
  BY <1>f, <1>k DEF Init
<1>4. \A t \in Threads, c \in Calls : ~Serves(th[t], c) /\ ~Pushes(th[t], c)
  BY <1>1, <1>2, <1>3 DEF Serves, ServesAt, Pushes, Topmost
<1>5. \A t \in Threads, c \in Calls : Waiting(th[t], c) = 0
  <2>1. \A c \in Calls : CountOf(<<>>, {c} \X Threads) = 0
    BY CountEmpty
  <2> QED BY <1>3, <2>1 DEF Waiting
<1>6. PlaceInv(th, st)
  BY <1>4, <1>5 DEF PlaceInv, Serves
<1>7. SyncPhase = [c \in Calls |-> "new"]
  <2>1. \A c \in Calls : PhaseOf(th, st, c) = "new"
    BY DEF Init, PhaseOf
  <2> QED BY <2>1, PhaseIs
<1>8. Nest(k) = <<>>
  <2>e. PICK e : e = << >>
    OBVIOUS
  <2>1. e \in Seq(Frames) /\ (\A i \in DOMAIN e : Fit(e[i])) /\ k = Append(e, f)
    BY <1>1, <1>k, <2>e
  <2>2. Nested(k, e, f)
    BY <1>1, <2>1, NestTop
  <2>3. Nest(k) = Nest(e)
    BY <1>1, <2>2 DEF Nested, Base
  <2> QED BY <2>3, <2>e, NestNone
<1>9. SyncNest = [t \in Threads |-> <<>>]
  BY <1>3, <1>8, NestShown
<1>10. SyncGone = {}
  <2>1. \A t \in Threads : Topmost(th[t]).pc # "gone"
    BY <1>1, <1>2, <1>3 DEF Topmost
  <2> QED BY <2>1, GoneIs DEF Init
<1> QED BY <1>6, <1>7, <1>9, <1>10 DEF Sync!Init

\* The inductive invariant of the places, next to ThreadsInv.
PlacesInv == PlaceInv(th, st) /\ destroyed \subseteq Mortal

LEMMA NextShows ==
    ASSUME Objects, ThreadsInv, PlacesInv, [Next]_vars
    PROVE  PlacesInv' /\ [Sync!Next]_Shown
<1>1. Inv(th, st) /\ PlaceInv(th, st) /\ destroyed \subseteq Mortal
  BY DEF ThreadsInv, PlacesInv
<1>2. SUFFICES Simulates /\ destroyed' \subseteq Mortal
  BY DEF Simulates, PlacesInv
<1>3. CASE UNCHANGED vars
  <2>1. th' = th /\ st' = st /\ destroyed' = destroyed
    BY <1>3 DEF vars
  <2>2. Simulates
    BY <1>1, <2>1, CalmStep
  <2> QED BY <1>1, <2>1, <2>2
<1>4. ASSUME NEW t \in Threads, Run(t) \/ ServeSocket(t)
      PROVE  Simulates /\ destroyed' \subseteq Mortal
  <2>1. Simulates
    BY <1>1, <1>4, PushShows, WakeTargetShows, TestReadyShows, TestSendsShows, PopSendShows,
       EndServeShows, WakeSenderShows, GetMessageShows, EndDispatchShows, EndWaitShows,
       EndSocketShows, DeleteThreadShows, ServeSocketShows DEF Run
  <2>2. destroyed' = destroyed
    BY ZenonT(40), <1>4 DEF Run, Push, WakeTarget, TestReady, TestSends, PopSend, EndServe, WakeSender,
       GetMessage, EndDispatch, EndWait, EndSocket, DeleteThread, ServeSocket
  <2> QED BY <1>1, <2>1, <2>2
<1>5. ASSUME NEW t \in Threads, NEW c \in Calls, Send(t, c)
      PROVE  Simulates /\ destroyed' \subseteq Mortal
  <2>1. destroyed' = destroyed
    BY <1>5 DEF Send
  <2> QED BY <1>1, <1>5, <2>1, SendShows
<1>6. ASSUME NEW t \in Threads, NEW u \in Threads, Post(t, u) \/ Quit(t, u)
      PROVE  Simulates /\ destroyed' \subseteq Mortal
  <2>1. destroyed' = destroyed
    BY <1>6 DEF Post, Quit
  <2> QED BY <1>1, <1>6, <2>1, PostShows, QuitShows
<1>7. ASSUME NEW t \in Threads, NEW o \in Mortal, DestroyObject(t, o)
      PROVE  Simulates /\ destroyed' \subseteq Mortal
  <2>1. destroyed' = destroyed \cup {o}
    BY <1>7 DEF DestroyObject
  <2> QED BY <1>1, <1>7, <2>1, DestroyObjectShows
<1> QED BY <1>3, <1>4, <1>5, <1>6, <1>7 DEF Next

\* Between Send and its return a call is about to be listed, or once in the
\* sendlist_ of its target, or served by one frame of its target's stack, and
\* never two of these: no interleaving of Send, ReceiveSends, Clear and the
\* destruction of objects and threads lists or serves a call twice.
THEOREM CallsAreServedOnce ==
    ASSUME Objects PROVE Spec => []PlacesInv
<1>1. Init => PlacesInv
  BY InitShows DEF PlacesInv, Init
<1>2. ThreadsInv /\ PlacesInv /\ [Next]_vars => PlacesInv'
  BY NextShows
<1> QED BY <1>1, <1>2, ThreadsInvariant, PTL DEF Spec

\* Thread::Send is the synchronous call of SyncCall, as far as safety goes: its
\* list, flags, wake-ups and nested frames show nobody a step that is not a call,
\* the beginning or end of its service, its return, or an object or thread going
\* with the calls that wait for it.
THEOREM SendRefined ==
    ASSUME Objects PROVE Spec => Sync!Safe
<1>1. Init => Sync!Init
  BY InitShows
<1>2. ThreadsInv /\ PlacesInv /\ [Next]_vars => [Sync!Next]_Shown
  BY NextShows
<1> QED BY <1>1, <1>2, ThreadsInvariant, CallsAreServedOnce, PTL DEF Spec, Sync!Safe, Shown, Sync!vars
=============================================================================
