------------------------------ MODULE CrowChat ------------------------------
(***************************************************************************)
(* slack/chat_server.cpp: the chat server written with Crow, on the tables *)
(* of SlackDb.  All handlers share one database connection, which each of  *)
(* them uses under dbMutex from its first statement to its answer;         *)
(* statements still commit one by one.  wsMap, the websockets of a user,   *)
(* is used under wsMutex, which a handler that pushes takes while it holds *)
(* dbMutex.                                                                *)
(*                                                                         *)
(* The vector of a user's connections is a bag: how often each occurs.     *)
(* Crow runs the callbacks of one connection one after the other and       *)
(* destroys the connection after onclose; send_text queues and returns.    *)
(***************************************************************************)
EXTENDS SlackDb

CONSTANTS
    Conn,       \* websocket connections, each used once
    ConnUser,   \* ConnUser[c]: the id the client of c sends in its heartbeats
    MaxBeat,    \* bound on the heartbeats of a connection
    MaxCrash    \* bound on the number of crashes

Op == {"createUser", "createChannel", "sendMessage"}

\* Clients, like the pages of the Go server, never open a channel with
\* themselves.
ASSUME CrowAssumption ==
    /\ Request \subseteq [n : Nat, op : Op, from : UserName, to : UserName]
    /\ \A r \in Request : r.op = "createChannel" => r.from # r.to
    /\ \A u, v \in UserId :
          SeedUser[u] = SeedUser[v] /\ SeedUser[u] # None => u = v
    /\ ConnUser \in [Conn -> UserId]
    /\ \A c \in Conn : SeedUser[ConnUser[c]] # None
    /\ None \notin Conn \cup Request
    /\ MaxBeat \in Nat /\ MaxCrash \in Nat

VARIABLES
    dbMutex,   \* the request or connection that holds dbMutex
    wsMutex,   \* the request or connection that holds wsMutex
    wsMap,     \* wsMap[u][c]: occurrences of c in the vector of u
    pc,        \* pc[r]: what the handler of r does next
    sid, rid,  \* sid[r], rid[r]: ids of sender and receiver
    chan,      \* chan[r]: the channel found, created or addressed
    todo,      \* todo[r]: members still to be pushed to
    cpc,       \* cpc[c]: what the callbacks of c do next
    here,      \* here[c]: the client of c is connected
    beats,     \* beats[c]: heartbeats received over c
    got,       \* got[c][r]: copies of r's text received over c
    crashes

handlerVars == <<pc, sid, rid, chan, todo>>
connVars == <<cpc, here, beats>>
vars == <<dbVars, dbMutex, wsMutex, wsMap, handlerVars, connVars, got, crashes>>

\* Statements executed under dbMutex.
DbPc == {"findUser", "insertUser", "findChannel", "history", "insertChannel",
         "insertMessage", "insertSender", "insertReceiver",
         "persist", "members"}
WsPc == {"wantWs", "push"}
EndPc == {"done", "failed"}
Running(r) == pc[r] \in DbPc \cup WsPc \cup {"wantDb"}

TypeOK ==
    /\ DbTypeOK
    /\ dbMutex \in Request \cup Conn \cup {None}
    /\ wsMutex \in Request \cup Conn \cup {None}
    /\ wsMap \in [UserId -> [Conn -> Nat]]
    /\ pc \in [Request -> DbPc \cup WsPc \cup EndPc \cup {"idle", "wantDb"}]
    /\ sid \in [Request -> UserId \cup {None}]
    /\ rid \in [Request -> UserId \cup {None}]
    /\ chan \in [Request -> ChannelId \cup {None}]
    /\ todo \in [Request -> SUBSET UserId]
    /\ cpc \in [Conn -> {"new", "ready", "append", "upsert", "erase", "destroyed"}]
    /\ here \in [Conn -> BOOLEAN]
    /\ beats \in [Conn -> 0 .. MaxBeat]
    /\ got \in [Conn -> [Request -> Nat]]
    /\ crashes \in 0 .. MaxCrash

Init ==
    /\ DbInit
    /\ dbMutex = None /\ wsMutex = None
    /\ wsMap = [u \in UserId |-> [c \in Conn |-> 0]]
    /\ pc = [r \in Request |-> "idle"]
    /\ sid = [r \in Request |-> None]
    /\ rid = [r \in Request |-> None]
    /\ chan = [r \in Request |-> None]
    /\ todo = [r \in Request |-> {}]
    /\ cpc = [c \in Conn |-> "new"]
    /\ here = [c \in Conn |-> FALSE]
    /\ beats = [c \in Conn |-> 0]
    /\ got = [c \in Conn |-> [r \in Request |-> 0]]
    /\ crashes = 0

Goto(r, label) == pc' = [pc EXCEPT ![r] = label]

\* The handler answers and its lock_guard releases dbMutex.
Return(r, label) == Goto(r, label) /\ dbMutex' = None

\* What no statement of a handler touches.
Sockets == <<wsMutex, wsMap, connVars, got, crashes>>

-----------------------------------------------------------------------------
\* Arrival of requests.  sendMessage carries the sender's id and any
\* channel id.
Send(r) ==
    /\ pc[r] = "idle"
    /\ Goto(r, "wantDb")
    /\ IF r.op = "sendMessage"
       THEN \E u \in IdsOf(r.from), ch \in ChannelId :
                /\ sid' = [sid EXCEPT ![r] = u]
                /\ chan' = [chan EXCEPT ![r] = ch]
       ELSE UNCHANGED <<sid, chan>>
    /\ UNCHANGED <<dbVars, dbMutex, rid, todo, Sockets>>

\* A body that is no JSON or has no text is answered with 400.
Reject(r) ==
    /\ pc[r] = "idle" /\ r.op = "sendMessage"
    /\ Goto(r, "failed")
    /\ UNCHANGED <<dbVars, dbMutex, sid, rid, chan, todo, Sockets>>

FirstPc(r) ==
    CASE r.op = "createUser"    -> "findUser"
      [] r.op = "createChannel" -> "findChannel"
      [] r.op = "sendMessage"   -> "persist"

\* Mutant: the handler does without std::lock_guard lk(dbMutex).
LockDb_Mut(r) ==
    /\ pc[r] = "wantDb"
    /\ dbMutex' = r
    /\ Goto(r, FirstPc(r))
    /\ UNCHANGED <<dbVars, sid, rid, chan, todo, Sockets>>

LockDb(r) ==
    /\ pc[r] = "wantDb"
    /\ dbMutex = None /\ dbMutex' = r
    /\ Goto(r, FirstPc(r))
    /\ UNCHANGED <<dbVars, sid, rid, chan, todo, Sockets>>

-----------------------------------------------------------------------------
\* /createUser/<name>
FindUser(r) ==
    /\ pc[r] = "findUser"
    /\ IF IdsOf(r.from) = {} THEN Goto(r, "insertUser") /\ UNCHANGED dbMutex
                              ELSE Return(r, "done")
    /\ UNCHANGED <<dbVars, sid, rid, chan, todo, Sockets>>

\* The query for LAST_INSERT_ID() can still throw once the row is there.
NewUser(r) ==
    /\ pc[r] = "insertUser"
    /\ \E u \in UserId : InsertUser(u, r.from)
    /\ \E label \in EndPc : Return(r, label)
    /\ UNCHANGED <<sid, rid, chan, todo, Sockets>>

-----------------------------------------------------------------------------
\* /channel/<sender>/<receiver>

\* findUserId: 0 when there is no such user.
FoundIds(name) == IF IdsOf(name) = {} THEN {None} ELSE IdsOf(name)

\* Both ids, and the first row of the join, in no particular order.
FindChannel(r) ==
    /\ pc[r] = "findChannel"
    /\ \E s \in FoundIds(r.from), t \in FoundIds(r.to) :
          /\ sid' = [sid EXCEPT ![r] = s]
          /\ rid' = [rid EXCEPT ![r] = t]
          /\ \/ /\ ChannelsBetween(s, t) = {}
                /\ Goto(r, "insertChannel") /\ UNCHANGED chan
             \/ \E ch \in ChannelsBetween(s, t) :
                   Goto(r, "history") /\ chan' = [chan EXCEPT ![r] = ch]
    /\ UNCHANGED <<dbVars, dbMutex, todo, Sockets>>

\* The last ten messages go into the answer.
FetchHistory(r) ==
    /\ pc[r] = "history"
    /\ Return(r, "done")
    /\ UNCHANGED <<dbVars, sid, rid, chan, todo, Sockets>>

\* LAST_INSERT_ID() on the connection nobody else is using.
NewChannel(r) ==
    /\ pc[r] = "insertChannel"
    /\ \E ch \in ChannelId :
          InsertChannel(ch) /\ chan' = [chan EXCEPT ![r] = ch]
    /\ Goto(r, "insertMessage")
    /\ UNCHANGED <<dbMutex, sid, rid, todo, Sockets>>

NewMessage(r) ==
    /\ pc[r] = "insertMessage"
    /\ InsertMessage(r, sid[r], chan[r])
    /\ Goto(r, "insertSender")
    /\ UNCHANGED <<dbMutex, sid, rid, chan, todo, Sockets>>

NewSender(r) ==
    /\ pc[r] = "insertSender"
    /\ InsertMembership(chan[r], sid[r])
    /\ Goto(r, "insertReceiver")
    /\ UNCHANGED <<dbMutex, sid, rid, chan, todo, Sockets>>

\* Mutant: an error of the second insert is ignored.
NewReceiver_Mut(r) ==
    /\ pc[r] = "insertReceiver"
    /\ InsertMembership(chan[r], rid[r]) \/ UNCHANGED dbVars
    /\ todo' = [todo EXCEPT ![r] = {rid[r]} \ {None}]
    /\ Goto(r, "wantWs")
    /\ UNCHANGED <<dbMutex, sid, rid, chan, Sockets>>

\* The receiver is notified once both memberships exist.
NewReceiver(r) ==
    /\ pc[r] = "insertReceiver"
    /\ InsertMembership(chan[r], rid[r])
    /\ todo' = [todo EXCEPT ![r] = {rid[r]}]
    /\ Goto(r, "wantWs")
    /\ UNCHANGED <<dbMutex, sid, rid, chan, Sockets>>

-----------------------------------------------------------------------------
\* /message/<senderId>/<channelId>
Persist(r) ==
    /\ pc[r] = "persist"
    /\ InsertMessage(r, sid[r], chan[r])
    /\ Goto(r, "members")
    /\ UNCHANGED <<dbMutex, sid, rid, chan, todo, Sockets>>

\* Members except the sender; the sender's name is looked up as well.
FetchMembers(r) ==
    /\ pc[r] = "members"
    /\ todo' = [todo EXCEPT ![r] = Members(chan[r]) \ {sid[r]}]
    /\ Goto(r, "wantWs")
    /\ UNCHANGED <<dbVars, dbMutex, sid, rid, chan, Sockets>>

-----------------------------------------------------------------------------
\* sendMessageOverWebSocket
LockWs(r) ==
    /\ pc[r] = "wantWs"
    /\ wsMutex = None /\ wsMutex' = r
    /\ Goto(r, "push")
    /\ UNCHANGED <<dbVars, dbMutex, sid, rid, chan, todo, wsMap, connVars, got,
                   crashes>>

\* send_text on every entry of one member's vector: a client that is there
\* receives the text as often as its connection occurs, unless the
\* connection breaks first.
PushMember(r) ==
    /\ pc[r] = "push"
    /\ \E u \in todo[r], broken \in SUBSET Conn :
          /\ todo' = [todo EXCEPT ![r] = @ \ {u}]
          /\ got' = [c \in Conn |->
                IF here[c] /\ c \notin broken
                THEN [got[c] EXCEPT ![r] = @ + wsMap[u][c]] ELSE got[c]]
    /\ UNCHANGED <<dbVars, dbMutex, wsMutex, wsMap, pc, sid, rid, chan,
                   connVars, crashes>>

PushDone(r) ==
    /\ pc[r] = "push" /\ todo[r] = {}
    /\ wsMutex' = None
    /\ Return(r, "done")
    /\ UNCHANGED <<dbVars, sid, rid, chan, todo, wsMap, connVars, got,
                   crashes>>

-----------------------------------------------------------------------------
\* A statement throws sql::SQLException: 500, nothing is undone.
Fail(r) ==
    /\ pc[r] \in DbPc
    /\ Return(r, "failed")
    /\ UNCHANGED <<dbVars, sid, rid, chan, todo, Sockets>>

-----------------------------------------------------------------------------
\* The callbacks of a websocket.

\* What no callback touches.
Handlers == <<handlerVars, got, crashes>>

Cgoto(c, label) == cpc' = [cpc EXCEPT ![c] = label]

Open(c) ==
    /\ cpc[c] = "new"
    /\ Cgoto(c, "ready")
    /\ here' = [here EXCEPT ![c] = TRUE]
    /\ UNCHANGED <<dbVars, dbMutex, wsMutex, wsMap, beats, Handlers>>

\* The client closes the connection or vanishes.
Leave(c) ==
    /\ here[c]
    /\ here' = [here EXCEPT ![c] = FALSE]
    /\ UNCHANGED <<dbVars, dbMutex, wsMutex, wsMap, cpc, beats, Handlers>>

\* onmessage with "userId,userName".
Beat(c) ==
    /\ cpc[c] = "ready" /\ here[c] /\ beats[c] < MaxBeat
    /\ beats' = [beats EXCEPT ![c] = @ + 1]
    /\ Cgoto(c, "append")
    /\ UNCHANGED <<dbVars, dbMutex, wsMutex, wsMap, here, Handlers>>

\* Mutant: without the inner block wsMutex is held until onmessage returns.
AppendConn_Mut(c) ==
    /\ cpc[c] = "append" /\ wsMutex = None
    /\ wsMap' = [wsMap EXCEPT ![ConnUser[c]][c] = @ + 1]
    /\ wsMutex' = c
    /\ Cgoto(c, "upsert")
    /\ UNCHANGED <<dbVars, dbMutex, here, beats, Handlers>>

\* wsMap[uid].push_back(&conn), in a block that takes and releases wsMutex.
AppendConn(c) ==
    /\ cpc[c] = "append" /\ wsMutex = None
    /\ wsMap' = [wsMap EXCEPT ![ConnUser[c]][c] = @ + 1]
    /\ Cgoto(c, "upsert")
    /\ UNCHANGED <<dbVars, dbMutex, wsMutex, here, beats, Handlers>>

\* insert into user ... on duplicate key update last_timestamp, under
\* dbMutex.  The client has an id, so the row exists and only last_timestamp
\* changes.  An exception is caught and logged.
Upsert(c) ==
    /\ cpc[c] = "upsert" /\ dbMutex = None
    /\ Cgoto(c, "ready")
    /\ UNCHANGED <<dbVars, dbMutex, wsMutex, wsMap, here, beats, Handlers>>

\* onclose is called once the callbacks before it have returned.
Close(c) ==
    /\ cpc[c] = "ready" /\ ~here[c]
    /\ Cgoto(c, "erase")
    /\ UNCHANGED <<dbVars, dbMutex, wsMutex, wsMap, here, beats, Handlers>>

\* Mutant: only the first occurrence is erased.
EraseConn_Mut(c) ==
    /\ cpc[c] = "erase" /\ wsMutex = None
    /\ wsMap' = [u \in UserId |-> [d \in Conn |->
                    IF d = c /\ wsMap[u][d] > 0 THEN wsMap[u][d] - 1 ELSE wsMap[u][d]]]
    /\ Cgoto(c, "destroyed")
    /\ UNCHANGED <<dbVars, dbMutex, wsMutex, here, beats, Handlers>>

\* vec.erase(std::remove(...)) for every user, under wsMutex; when onclose
\* has returned Crow destroys the connection.
EraseConn(c) ==
    /\ cpc[c] = "erase" /\ wsMutex = None
    /\ wsMap' = [u \in UserId |-> [d \in Conn |-> IF d = c THEN 0 ELSE wsMap[u][d]]]
    /\ Cgoto(c, "destroyed")
    /\ UNCHANGED <<dbVars, dbMutex, wsMutex, here, beats, Handlers>>

\* The process dies and is started again; connections that were open are gone.
Crash ==
    /\ crashes < MaxCrash /\ crashes' = crashes + 1
    /\ dbMutex' = None /\ wsMutex' = None
    /\ wsMap' = [u \in UserId |-> [c \in Conn |-> 0]]
    /\ pc' = [r \in Request |-> IF Running(r) THEN "failed" ELSE pc[r]]
    /\ todo' = [r \in Request |-> {}]
    /\ cpc' = [c \in Conn |-> IF cpc[c] = "new" THEN "new" ELSE "destroyed"]
    /\ here' = [c \in Conn |-> FALSE]
    /\ UNCHANGED <<dbVars, sid, rid, chan, beats, got>>

-----------------------------------------------------------------------------
Handle(r) ==
    \/ LockDb(r) \/ FindUser(r) \/ NewUser(r) \/ FindChannel(r) \/ FetchHistory(r)
    \/ NewChannel(r) \/ NewMessage(r) \/ NewSender(r)
    \/ NewReceiver(r) \/ Persist(r) \/ FetchMembers(r) \/ LockWs(r)
    \/ PushMember(r) \/ PushDone(r) \/ Fail(r)

Callback(c) ==
    AppendConn(c) \/ Upsert(c) \/ Close(c) \/ EraseConn(c)

Next ==
    \/ \E r \in Request : Send(r) \/ Reject(r) \/ Handle(r)
    \/ \E c \in Conn : Open(c) \/ Leave(c) \/ Beat(c) \/ Callback(c)
    \/ Crash

\* The threads of app.multithreaded() run and statements return or throw.
\* Nothing is assumed of the mutexes beyond a free one being taken by some
\* thread that waits for it as long as it stays free.
Fairness ==
    /\ \A r \in Request : WF_vars(Handle(r))
    /\ \A c \in Conn : WF_vars(Callback(c))

Spec == Init /\ [][Next]_vars /\ Fairness

-----------------------------------------------------------------------------
\* A pair of users has at most one channel: whoever clicks whom and when,
\* and whatever half-made channels failures and crashes leave behind, since
\* createChannel looks up and inserts under one hold of dbMutex.
OneChannelPerPair ==
    \A u, v \in UserId :
        u # v => \A ch1, ch2 \in ChannelsBetween(u, v) : ch1 = ch2

\* A name has at most one id although the table may have no UNIQUE index:
\* createUser looks up and inserts under dbMutex.
OneIdPerName ==
    \A u, v \in UserId : user[u] # None /\ user[u] = user[v] => u = v

\* No push writes to a connection Crow has destroyed: onclose removes every
\* occurrence that repeated heartbeats added (erase-remove), and no
\* heartbeat adds one later.
NoDangling ==
    \A u \in UserId, c \in Conn : wsMap[u][c] > 0 => cpc[c] # "destroyed"

\* Whoever receives a text is a member of its channel, the text is in the
\* database, and it is not the sender's own (createChannel pushes last).
ReceivedByMember ==
    \A c \in Conn : \A r \in Request : got[c][r] > 0 =>
        /\ message[r] # None
        /\ <<message[r].channel, ConnUser[c]>> \in membership
        /\ message[r].sender # ConnUser[c]

\* Every request comes to an end: dbMutex and wsMutex are never each held
\* by one who waits for the other.
EveryRequestEnds ==
    \A r \in Request : Running(r) ~> pc[r] \in EndPc

\* "WebSocket map: userId -> vector of websocket connections (for simplicity
\* one connection per user in this example)" (chat_server.cpp:58): a user
\* has one entry, so a text is sent to a connection once.
SentOnce == \A c \in Conn : \A r \in Request : got[c][r] <= 1
=============================================================================
