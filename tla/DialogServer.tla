---------------------------- MODULE DialogServer ----------------------------
(***************************************************************************)
(* The chat server of dialog_server/index.js: one Node.js process that     *)
(* keeps the table peerObjects of logged-in peers and relays words between *)
(* their sockets.  Node runs one callback at a time, so each callback is   *)
(* one action.                                                             *)
(*                                                                         *)
(* A socket is named by the client process that opened it.  c2s[p] and     *)
(* s2c[p] are the two directions of p's TCP connection: FIFO sequences of  *)
(* whole words ("<...>"), the unit that onData (and Peer::onReadEvent on   *)
(* the other side) cuts the byte stream into; "fin" ends a direction.      *)
(***************************************************************************)
EXTENDS Naturals, Sequences, FiniteSets

CONSTANTS
    Procs,      \* client processes; each opens at most one socket
    Names,      \* the ids peers log in with
    NoName,     \* peer.pid before login
    NoProc,     \* a name with no entry in peerObjects
    NoBody,     \* the body of the words that carry none
    Addr, Port  \* remoteAddress and remotePort of each socket, as characters

ASSUME ServerAssumption ==
    /\ NoName \notin Names
    /\ NoProc \notin Procs
    /\ Addr \in [Procs -> Seq(Nat)]
    /\ Port \in [Procs -> Seq(Nat)]

VARIABLES
    up,          \* the server process is running
    conn,        \* the server's end of each socket
    pid,         \* PeerClass.pid of each socket
    peerObjects, \* name -> socket, NoProc when absent
    c2s, s2c     \* words in flight to and from the server

serverVars == <<up, conn, pid, peerObjects, c2s, s2c>>

(***************************************************************************)
(* Words.  A run of consecutive "<online:x>" words is one "online" word    *)
(* about a set of names: the server writes the run in one callback.        *)
(***************************************************************************)
Word(type, who, body) == [type |-> type, who |-> who, body |-> body]
LoginWord(n)         == Word("login", {n}, NoBody)
OnlineWord(S)        == Word("online", S, NoBody)
OfflineWord(n)       == Word("offline", {n}, NoBody)
SendWord(to, b)      == Word("send", {to}, b)
MessageWord(from, b) == Word("message", {from}, b)
FinWord              == Word("fin", {}, NoBody)

\* PeerClass.sid: address and port written next to each other.
sid(p) == Addr[p] \o Port[p]

Registered == {n \in Names : peerObjects[n] # NoProc}
Users      == {peerObjects[n] : n \in Registered}

\* "for (var p in table) table[p].sock.write(word)" for the sockets in S.
WriteAll(S, word) ==
    [p \in Procs |-> IF p \in S THEN Append(s2c[p], word) ELSE s2c[p]]

\* Mutation: the PeerClass constructor forgets pid.
ServerInitNoPid ==
    /\ up = TRUE
    /\ conn = [p \in Procs |-> "none"]
    /\ pid = [p \in Procs |-> "undefined"]
    /\ peerObjects = [n \in Names |-> NoProc]
    /\ c2s = [p \in Procs |-> <<>>]
    /\ s2c = [p \in Procs |-> <<>>]

ServerInit ==
    /\ up = TRUE
    /\ conn = [p \in Procs |-> "none"]
    /\ pid = [p \in Procs |-> NoName]
    /\ peerObjects = [n \in Names |-> NoProc]
    /\ c2s = [p \in Procs |-> <<>>]
    /\ s2c = [p \in Procs |-> <<>>]

\* The server's next word from p is w.
Receives(p, w) ==
    /\ up
    /\ conn[p] \in {"open", "ended"}
    /\ c2s[p] # <<>>
    /\ w = Head(c2s[p])
    /\ c2s' = [c2s EXCEPT ![p] = Tail(@)]

\* Mutation: a refused login returns without sock.end().
KickSilently == <<>>

\* peer.sock.end().
Kick == <<FinWord>>

\* processDialog, "login" with an id that is taken: pid is assigned first,
\* then the newcomer's socket is ended.
LoginKicked(p) ==
    \E n \in Names :
        /\ Receives(p, LoginWord(n))
        /\ n \in Registered
        /\ pid' = [pid EXCEPT ![p] = n]
        /\ conn' = [conn EXCEPT ![p] = "ended"]
        /\ s2c' = [s2c EXCEPT ![p] = @ \o Kick]
        /\ UNCHANGED <<up, peerObjects>>

\* Mutation: the newcomer is not told who is there.
NoOnlineList == <<>>

\* The words that tell a newcomer who is there.
OnlineList == IF Registered = {} THEN <<>> ELSE <<OnlineWord(Registered)>>

\* processDialog, "login" with a free id: the online list to the newcomer,
\* "<login:n>" to everybody else, then the entry in the table.
LoginAccepted(p) ==
    \E n \in Names :
        /\ Receives(p, LoginWord(n))
        /\ n \notin Registered
        /\ pid' = [pid EXCEPT ![p] = n]
        /\ s2c' = [WriteAll(Users, LoginWord(n)) EXCEPT
                     ![p] = @ \o OnlineList]
        /\ peerObjects' = [peerObjects EXCEPT ![n] = p]
        /\ UNCHANGED <<up, conn>>

\* processDialog, "send": relayed under the sender's pid when the addressee
\* is in the table, dropped without a word otherwise or before a login.
Send(p) ==
    \E to \in Names :
        /\ Receives(p, SendWord(to, Head(c2s[p]).body))
        /\ s2c' = IF pid[p] # NoName /\ to \in Registered
                  THEN WriteAll({peerObjects[to]},
                                MessageWord(pid[p], Head(c2s[p]).body))
                  ELSE s2c
        /\ UNCHANGED <<up, conn, pid, peerObjects>>

\* Mutations: no comparison of sids; the comparison the wrong way round.
OwnsEntryByName(p) == pid[p] \in Registered
OwnsEntryInverted(p) ==
    pid[p] \in Registered /\ sid(p) # sid(peerObjects[pid[p]])

\* onClose: only the socket whose sid the table holds removes the entry.
OwnsEntry(p) ==
    /\ pid[p] \in Registered
    /\ sid(p) = sid(peerObjects[pid[p]])

OnClose(p) ==
    /\ Receives(p, FinWord)
    /\ conn' = [conn EXCEPT ![p] = "closed"]
    /\ IF OwnsEntry(p)
       THEN /\ peerObjects' = [peerObjects EXCEPT ![pid[p]] = NoProc]
            /\ s2c' = WriteAll({peerObjects[n] : n \in Registered \ {pid[p]}},
                               OfflineWord(pid[p]))
       ELSE UNCHANGED <<peerObjects, s2c>>
    /\ UNCHANGED <<up, pid>>

\* The server process dies (index.js installs no "error" listener, so any
\* socket error is an uncaught exception): its table is gone and the kernel
\* ends every connection.
ServerDies ==
    /\ up
    /\ up' = FALSE
    /\ peerObjects' = [n \in Names |-> NoProc]
    /\ conn' = [p \in Procs |-> IF conn[p] = "none" THEN "none" ELSE "closed"]
    /\ s2c' = WriteAll({p \in Procs : conn[p] = "open"}, FinWord)
    /\ UNCHANGED <<pid, c2s>>

ServerStep(p) ==
    LoginKicked(p) \/ LoginAccepted(p) \/ Send(p) \/ OnClose(p)
=============================================================================
