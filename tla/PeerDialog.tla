----------------------------- MODULE PeerDialog -----------------------------
(***************************************************************************)
(* The dialog server together with its clients, the Peer objects of        *)
(* peer.cpp, used by any application: a peer connects, logs in once, sends *)
(* words to anybody, reads what arrives, and may disappear at any time.    *)
(* Several processes may log in under one name (a second copy, or a        *)
(* restart racing the server's notice of the first one's death).           *)
(***************************************************************************)
EXTENDS DialogServer

CONSTANTS
    MyName,    \* the id each process logs in with
    Bodies,    \* message bodies
    Senders,   \* processes whose application sends words
    MaxSends   \* bound: words each of them sends

ASSUME PeerAssumption ==
    /\ MyName \in [Procs -> Names]
    /\ MaxSends \in Nat

VARIABLES
    sock,      \* the client's end of the socket
    view,      \* names whose last presence word read was not "offline"
    sends      \* words sent so far (counts to MaxSends)

peerVars == <<sock, view, sends>>
vars == <<serverVars, peerVars>>

Init ==
    /\ ServerInit
    /\ sock = [p \in Procs |-> "none"]
    /\ view = [p \in Procs |-> {}]
    /\ sends = [p \in Procs |-> 0]

\* Word w tells its reader something about n's presence.
About(w, n) == n \in w.who /\ w.type \in {"online", "login", "offline"}

\* The names a reader who believed v online believes online after word w.
Learn(v, w) ==
    {n \in v \cup w.who : IF About(w, n) THEN w.type # "offline" ELSE n \in v}

-----------------------------------------------------------------------------
(* Peer's handlers.                                                        *)

\* onConnectEvent, with the server's onAccept.
OnConnectEvent(p) ==
    /\ up
    /\ sock[p] = "none"
    /\ sock' = [sock EXCEPT ![p] = "open"]
    /\ conn' = [conn EXCEPT ![p] = "open"]
    /\ c2s' = [c2s EXCEPT ![p] = Append(@, LoginWord(MyName[p]))]
    /\ UNCHANGED <<up, pid, peerObjects, s2c, view, sends>>

SendMessage(p) ==
    /\ sock[p] = "open"
    /\ p \in Senders
    /\ sends[p] < MaxSends
    /\ sends' = [sends EXCEPT ![p] = @ + 1]
    /\ \E to \in Names, b \in Bodies :
           c2s' = [c2s EXCEPT ![p] = Append(@, SendWord(to, b))]
    /\ UNCHANGED <<up, conn, pid, peerObjects, s2c, sock, view>>

\* onReadEvent and processXML: one word, handed to the application.
ProcessXML(p) ==
    /\ sock[p] = "open"
    /\ s2c[p] # <<>>
    /\ Head(s2c[p]).type # "fin"
    /\ view' = [view EXCEPT ![p] = Learn(@, Head(s2c[p]))]
    /\ s2c' = [s2c EXCEPT ![p] = Tail(@)]
    /\ UNCHANGED <<up, conn, pid, peerObjects, c2s, sock, sends>>

\* Mutation: the destructor forgets the socket.
CloseSocketQuiet(p) ==
    /\ sock' = [sock EXCEPT ![p] = "closed"]
    /\ UNCHANGED <<serverVars, view, sends>>

\* The socket closes on the client's side: its kernel sends the fin.
CloseSocket(p) ==
    /\ sock' = [sock EXCEPT ![p] = "closed"]
    /\ c2s' = [c2s EXCEPT ![p] = Append(@, FinWord)]
    /\ UNCHANGED <<up, conn, pid, peerObjects, s2c, view, sends>>

\* onCloseEvent: the server ended the connection.
OnCloseEvent(p) ==
    /\ sock[p] = "open"
    /\ s2c[p] # <<>>
    /\ Head(s2c[p]) = FinWord
    /\ CloseSocket(p)

\* The process exits or is killed.
Exit(p) ==
    /\ sock[p] = "open"
    /\ CloseSocket(p)

PeerStep(p) ==
    \/ OnConnectEvent(p)
    \/ SendMessage(p)
    \/ ProcessXML(p)
    \/ OnCloseEvent(p)
    \/ Exit(p)

Next ==
    \/ \E p \in Procs : ServerStep(p) /\ UNCHANGED peerVars
    \/ \E p \in Procs : PeerStep(p)
    \/ ServerDies /\ UNCHANGED peerVars

\* Node keeps serving sockets that have data; a Peer keeps reading.
Fairness ==
    \A p \in Procs : /\ WF_vars(ServerStep(p) /\ UNCHANGED peerVars)
                     /\ WF_vars(ProcessXML(p))
                     /\ WF_vars(OnCloseEvent(p))

Spec == Init /\ [][Next]_vars /\ Fairness

-----------------------------------------------------------------------------
(* Properties.                                                             *)

Words == [type : {"login", "online", "offline", "send", "message", "fin"},
          who : SUBSET (Names \cup {NoName}),
          body : Bodies \cup {NoBody}]

\* Every variable of the server (index.js) and of its clients (peer.cpp) has
\* its type.
TypeOK ==
    /\ up \in BOOLEAN
    /\ conn \in [Procs -> {"none", "open", "ended", "closed"}]
    /\ pid \in [Procs -> Names \cup {NoName}]
    /\ peerObjects \in [Names -> Procs \cup {NoProc}]
    /\ c2s \in [Procs -> Seq(Words)]
    /\ s2c \in [Procs -> Seq(Words)]
    /\ sock \in [Procs -> {"none", "open", "closed"}]
    /\ view \in [Procs -> SUBSET (Names \cup {NoName})]
    /\ sends \in [Procs -> 0 .. MaxSends]

\* peerObjects and the PeerClass objects agree: an entry's socket carries
\* that very pid, is the open one, and belongs to a process of that name.
\* (index.js keys the table by peer.pid and never re-validates an entry.)
RegistryCoherent ==
    \A n \in Registered :
        LET p == peerObjects[n] IN
        pid[p] = n /\ conn[p] = "open" /\ MyName[p] = n

\* Whether a reader who believes v online, with q still to read, will end
\* up believing n online: what the last word about n says, else v.
Belief(v, q, n) ==
    \/ /\ n \in v
       /\ \A j \in DOMAIN q : ~About(q[j], n)
    \/ \E i \in DOMAIN q :
         /\ About(q[i], n)
         /\ q[i].type # "offline"
         /\ \A j \in DOMAIN q : j > i => ~About(q[j], n)

\* Presence is exact: every logged-in peer that is still reading ends up
\* believing online exactly the other names in the table, whatever order
\* logins, kicks and closes came in (processDialog's online list, the login
\* and offline broadcasts and the table update must fit together).
PresenceExact ==
    \A p \in Users, n \in Names :
        (sock[p] = "open" /\ n # pid[p])
            => (Belief(view[p], s2c[p], n) <=> n \in Registered)

\* "We delete *REAL* user only" (index.js:89): an entry leaves the table of
\* a running server only in a step that closes that entry's own socket.
RealUserOnly ==
    [][\A n \in Registered :
          (up' /\ peerObjects'[n] = NoProc) =>
              conn'[peerObjects[n]] = "closed"]_vars

\* A process that is gone does not stay in the table (onClose runs for every
\* socket): otherwise its name could never log in again.
GoneIsForgotten ==
    \A p \in Procs : (sock[p] = "closed") ~> (p \notin Users)

\* A peer that connected gets an answer: it is in the table, or its socket
\* ends (kicked, or the server died).
LoginAnswered ==
    \A p \in Procs : (sock[p] = "open") ~> (p \in Users \/ sock[p] = "closed")
=============================================================================
