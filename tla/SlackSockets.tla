---------------------------- MODULE SlackSockets ----------------------------
(***************************************************************************)
(* The realtime side of slack/main.go: socket.io connections of the open   *)
(* pages, the "hearbeat" event that binds a user id to a connection in     *)
(* wsMap, disconnects (which leave wsMap alone), and the loss of           *)
(* everything kept in memory when the process dies.                        *)
(*                                                                         *)
(* wsMap is a plain Go map written by every heartbeat handler and read by  *)
(* every push without a lock; the Go runtime may abort the process when    *)
(* two of them overlap.  Crash stands for that outcome of the race as well *)
(* as for any other death of the process, followed by a restart.           *)
(***************************************************************************)
EXTENDS SlackDb, Sequences

CONSTANTS
    Page,       \* open browser pages
    PageName,   \* PageName[p]: the name the user of page p registers with
    Conn,       \* socket.io connections, each used once
    ConnPage,   \* ConnPage[c]: the page that opens connection c
    MaxCrash    \* bound on the number of crashes

ASSUME SocketAssumption ==
    /\ None \notin Page \cup Conn
    /\ PageName \in [Page -> UserName]
    /\ ConnPage \in [Conn -> Page]
    /\ MaxCrash \in Nat

VARIABLES
    pageUser,   \* pageUser[p]: userId in the page's URL, None before login
    conn,       \* life cycle of each connection
    beat,       \* beat[c]: a heartbeat of c not yet handled by the server
    wsMap,      \* wsMap[u]: the connection pushes to u go to
    inbox,      \* inbox[c]: texts received over c, in order
    crashes

pageVars == <<pageUser>>
connVars == <<conn, beat, wsMap, crashes>>
socketVars == <<connVars, inbox>>

\* new: not yet opened; open; stalled: the client is gone but the server has
\* not noticed and its buffers still take what it writes; full: they do not
\* any more; closed.
ConnState == {"new", "open", "stalled", "full", "closed"}

SocketTypeOK ==
    /\ pageUser \in [Page -> UserId \cup {None}]
    /\ conn \in [Conn -> ConnState]
    /\ beat \in [Conn -> BOOLEAN]
    /\ wsMap \in [UserId -> Conn \cup {None}]
    /\ inbox \in [Conn -> Seq(Request)]
    /\ crashes \in 0 .. MaxCrash

\* Pages of seeded users are already past the login form.
SocketInit ==
    /\ pageUser \in [Page -> UserId \cup {None}]
    /\ \A p \in Page :
          IF IdsOf(PageName[p]) = {} THEN pageUser[p] = None
                                     ELSE pageUser[p] \in IdsOf(PageName[p])
    /\ conn = [c \in Conn |-> "new"]
    /\ beat = [c \in Conn |-> FALSE]
    /\ wsMap = [u \in UserId |-> None]
    /\ inbox = [c \in Conn |-> <<>>]
    /\ crashes = 0

-----------------------------------------------------------------------------
\* The page's client opens a connection once it considers its previous one
\* gone, and emits a heartbeat as soon as it is connected.
Connect(c) ==
    /\ conn[c] = "new"
    /\ pageUser[ConnPage[c]] # None
    /\ \A d \in Conn : ConnPage[d] = ConnPage[c] => conn[d] # "open"
    /\ conn' = [conn EXCEPT ![c] = "open"]
    /\ beat' = [beat EXCEPT ![c] = TRUE]
    /\ UNCHANGED <<wsMap, crashes, inbox, pageVars, dbVars>>

\* setInterval of the page: one more heartbeat every ten seconds.
Beat(c) ==
    /\ conn[c] = "open" /\ ~beat[c]
    /\ beat' = [beat EXCEPT ![c] = TRUE]
    /\ UNCHANGED <<conn, wsMap, crashes, inbox, pageVars, dbVars>>

\* Mutant: a user who is already registered keeps the old connection.
Heartbeat_Mut(c) ==
    LET u == pageUser[ConnPage[c]]
    IN  /\ beat[c]
        /\ beat' = [beat EXCEPT ![c] = FALSE]
        /\ wsMap' = [wsMap EXCEPT ![u] = IF @ = None THEN c ELSE @]
        /\ UNCHANGED <<conn, crashes, inbox, pageVars, dbVars>>

\* Handler of event "hearbeat".  It may run after its connection is gone.
\* The upsert can fail after the map was written.
Heartbeat(c) ==
    LET u == pageUser[ConnPage[c]]
    IN  /\ beat[c]
        /\ beat' = [beat EXCEPT ![c] = FALSE]
        /\ wsMap' = [wsMap EXCEPT ![u] = c]
        /\ \/ UpsertUser(u, PageName[ConnPage[c]])
           \/ UNCHANGED dbVars
        /\ UNCHANGED <<conn, crashes, inbox, pageVars>>

\* The client vanishes without closing the TCP connection; later the buffers
\* towards it are full.
Stall(c) ==
    /\ conn[c] \in {"open", "stalled"}
    /\ conn' = [conn EXCEPT ![c] = IF @ = "open" THEN "stalled" ELSE "full"]
    /\ UNCHANGED <<beat, wsMap, crashes, inbox, pageVars, dbVars>>

\* Mutant: no read or write deadline, a silent client is never given up.
Disconnect_Mut(c) ==
    /\ conn[c] = "open"
    /\ conn' = [conn EXCEPT ![c] = "closed"]
    /\ UNCHANGED <<beat, wsMap, crashes, inbox, pageVars, dbVars>>

\* OnDisconnect only logs: the entry of wsMap stays.
Disconnect(c) ==
    /\ conn[c] \in {"open", "stalled", "full"}
    /\ conn' = [conn EXCEPT ![c] = "closed"]
    /\ UNCHANGED <<beat, wsMap, crashes, inbox, pageVars, dbVars>>

\* The process dies and is started again: connections, unhandled heartbeats
\* and wsMap are gone, the database and what the clients received is not.
SocketsCrash ==
    /\ crashes < MaxCrash
    /\ crashes' = crashes + 1
    /\ conn' = [c \in Conn |-> IF conn[c] = "new" THEN "new" ELSE "closed"]
    /\ beat' = [c \in Conn |-> FALSE]
    /\ wsMap' = [u \in UserId |-> None]
    /\ UNCHANGED <<inbox, pageVars, dbVars>>

\* Emit hands the text to the connection's writer, or gives up when the
\* connection is closed; it blocks while neither is possible.  What the
\* writer took reaches an open page unless the connection breaks first.
Emit(c, text) ==
    /\ conn[c] # "full"
    /\ \/ conn[c] = "open" /\ inbox' = [inbox EXCEPT ![c] = Append(@, text)]
       \/ UNCHANGED inbox

ConnStep(c) == Connect(c) \/ Beat(c) \/ Heartbeat(c) \/ Stall(c) \/ Disconnect(c)

-----------------------------------------------------------------------------
\* A registered connection belongs to the user it is registered for: a push
\* addressed to u can only leave through a page logged in as u
\* (wsMap[int64(userId)] = &conn).
RegisteredIsOwn ==
    \A u \in UserId :
        wsMap[u] # None => pageUser[ConnPage[wsMap[u]]] = u
=============================================================================
