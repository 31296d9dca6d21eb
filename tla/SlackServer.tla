---------------------------- MODULE SlackServer ----------------------------
(***************************************************************************)
(* The chat server slack/main.go composed with its pages (slack/asset):    *)
(* the HTTP handlers createUser, createChannel and sendMessage, each       *)
(* running in a goroutine of its own, one step per database statement, on  *)
(* top of the tables of SlackDb and the connections of SlackSockets.       *)
(*                                                                         *)
(* A request is sent at most once.  Its handler's local variables are kept *)
(* in functions indexed by the request.  `before` and `cut` are history    *)
(* variables: the one orders requests by real time, the other tells which  *)
(* requests met a read error that rows.Next() took for the end of the rows *)
(* (the code never asks rows.Err()).  No step reads them.                  *)
(***************************************************************************)
EXTENDS SlackSockets

Op == {"createUser", "createChannel", "sendMessage"}

\* A page never offers its own user's name (message.html:84).
ASSUME RequestAssumption ==
    /\ Request \subseteq [n : Nat, op : Op, page : Page, to : UserName]
    /\ \A r \in Request :
          r.op = "createChannel" => r.to # PageName[r.page]

VARIABLES
    cur,      \* cur[p]: channelIdObj of page p
    pc,       \* pc[r]: the statement request r executes next
    sid,      \* sid[r]: the sender's id (createUser: user.Id)
    rid,      \* rid[r]: the receiver's id
    chan,     \* chan[r]: the channel found, created or addressed
    shown,    \* shown[r]: the messages of the answer
    todo,     \* todo[r]: members still to be pushed to
    target,   \* target[r]: the connection being written to
    before,   \* before[r]: the requests answered when r was sent
    cut       \* the requests whose rows a read error cut short unnoticed

handlerVars == <<pc, sid, rid, chan, shown, todo, target>>
vars == <<dbVars, socketVars, pageVars, cur, handlerVars, before, cut>>

\* The statements a handler can be about to execute, by handler.
UserPc == {"fetchUser", "insertUser"}
ChannelPc == {"fetchSender", "fetchReceiver", "findChannel", "history",
              "insertChannel", "insertMessage", "insertSender",
              "insertReceiver"}
MessagePc == {"persist", "members"}
DbPc == UserPc \cup ChannelPc \cup MessagePc
EndPc == {"answered", "lost", "failed"}

Running(r) == pc[r] \in DbPc \cup {"respond"}

TypeOK ==
    /\ DbTypeOK /\ SocketTypeOK
    /\ cur \in [Page -> ChannelId \cup {None}]
    /\ pc \in [Request -> DbPc \cup EndPc \cup {"idle", "respond"}]
    /\ sid \in [Request -> UserId \cup {None}]
    /\ rid \in [Request -> UserId \cup {None}]
    /\ chan \in [Request -> ChannelId \cup {None}]
    /\ shown \in [Request -> SUBSET Request]
    /\ todo \in [Request -> SUBSET UserId]
    /\ target \in [Request -> Conn \cup {None}]
    /\ before \in [Request -> SUBSET Request]
    /\ cut \subseteq Request

Init ==
    /\ DbInit /\ SocketInit
    /\ cur = [p \in Page |-> None]
    /\ pc = [r \in Request |-> "idle"]
    /\ sid = [r \in Request |-> None]
    /\ rid = [r \in Request |-> None]
    /\ chan = [r \in Request |-> None]
    /\ shown = [r \in Request |-> {}]
    /\ todo = [r \in Request |-> {}]
    /\ target = [r \in Request |-> None]
    /\ before = [r \in Request |-> {}]
    /\ cut = {}

-----------------------------------------------------------------------------
\* The page sends a request.  The login form sends createUser; the dropdown
\* of the message page sends createChannel; its send button sends
\* sendMessage for the page's user and the channel selected at that moment,
\* unless no channel has been selected yet.

Goto(r, label) == pc' = [pc EXCEPT ![r] = label]

Send(r) ==
    /\ pc[r] = "idle"
    /\ before' = [before EXCEPT ![r] = {q \in Request : pc[q] = "answered"}]
    /\ \/ /\ r.op = "createUser" /\ pageUser[r.page] = None
          /\ Goto(r, "fetchUser")
          /\ UNCHANGED <<sid, chan>>
       \/ /\ r.op = "createChannel" /\ pageUser[r.page] # None
          /\ Goto(r, "fetchSender")
          /\ UNCHANGED <<sid, chan>>
       \/ /\ r.op = "sendMessage" /\ cur[r.page] # None
          /\ Goto(r, "persist")
          /\ sid' = [sid EXCEPT ![r] = pageUser[r.page]]
          /\ chan' = [chan EXCEPT ![r] = cur[r.page]]
    /\ UNCHANGED <<dbVars, socketVars, pageVars, cur, rid, shown, todo, target,
                   cut>>

-----------------------------------------------------------------------------
\* createUser

\* Mutant: every error of Scan is taken for "no rows".
FetchUser_Mut(r) ==
    /\ pc[r] = "fetchUser"
    /\ \/ Goto(r, "insertUser") /\ UNCHANGED sid
       \/ \E u \in IdsOf(PageName[r.page]) :
             Goto(r, "respond") /\ sid' = [sid EXCEPT ![r] = u]
    /\ UNCHANGED <<dbVars, socketVars, pageVars, cur, rid, chan, shown, todo,
                   target, before, cut>>

\* select id, userName from user where userName = ?
FetchUser(r) ==
    /\ pc[r] = "fetchUser"
    /\ \/ /\ IdsOf(PageName[r.page]) = {}
          /\ Goto(r, "insertUser") /\ UNCHANGED sid
       \/ \E u \in IdsOf(PageName[r.page]) :
             Goto(r, "respond") /\ sid' = [sid EXCEPT ![r] = u]
    /\ UNCHANGED <<dbVars, socketVars, pageVars, cur, rid, chan, shown, todo,
                   target, before, cut>>

\* insert into user.
NewUser(r) ==
    /\ pc[r] = "insertUser"
    /\ \E u \in UserId :
          /\ InsertUser(u, PageName[r.page])
          /\ sid' = [sid EXCEPT ![r] = u]
    /\ Goto(r, "respond")
    /\ UNCHANGED <<socketVars, pageVars, cur, rid, chan, shown, todo, target,
                   before, cut>>

-----------------------------------------------------------------------------
\* createChannel

\* QueryRow + Scan of an id by name: sql.ErrNoRows is swallowed, which leaves
\* the id at its zero value.
ScannedIds(name) == IF IdsOf(name) = {} THEN {None} ELSE IdsOf(name)

FetchSender(r) ==
    /\ pc[r] = "fetchSender"
    /\ \E u \in ScannedIds(PageName[r.page]) : sid' = [sid EXCEPT ![r] = u]
    /\ Goto(r, "fetchReceiver")
    /\ UNCHANGED <<dbVars, socketVars, pageVars, cur, rid, chan, shown, todo,
                   target, before, cut>>

FetchReceiver(r) ==
    /\ pc[r] = "fetchReceiver"
    /\ \E u \in ScannedIds(r.to) : rid' = [rid EXCEPT ![r] = u]
    /\ Goto(r, "findChannel")
    /\ UNCHANGED <<dbVars, socketVars, pageVars, cur, sid, chan, shown, todo,
                   target, before, cut>>

\* Mutant: the loop scans into a variable of its own, ch stays zero.
FindChannel_Mut(r) ==
    /\ pc[r] = "findChannel"
    /\ Goto(r, "insertChannel")
    /\ UNCHANGED <<dbVars, socketVars, pageVars, cur, sid, rid, chan, shown,
                   todo, target, before, cut>>

\* The loop over the rows of the join keeps the last one; the query has no
\* ORDER BY, so any of them can be last.  A read error ends the loop like the
\* end of the rows: before the first row it leaves ch at zero.
FindChannel(r) ==
    LET found == ChannelsBetween(sid[r], rid[r])
    IN  /\ pc[r] = "findChannel"
        /\ \/ /\ found = {}
              /\ Goto(r, "insertChannel") /\ UNCHANGED <<chan, cut>>
           \/ \E ch \in found :
                 /\ Goto(r, "history")
                 /\ chan' = [chan EXCEPT ![r] = ch]
                 /\ UNCHANGED cut
           \/ /\ found # {} /\ cut' = cut \cup {r}
              /\ Goto(r, "insertChannel") /\ UNCHANGED chan
        /\ UNCHANGED <<dbVars, socketVars, pageVars, cur, sid, rid, shown,
                       todo, target, before>>

NewChannel(r) ==
    /\ pc[r] = "insertChannel"
    /\ \E ch \in ChannelId :
          InsertChannel(ch) /\ chan' = [chan EXCEPT ![r] = ch]
    /\ Goto(r, "insertMessage")
    /\ UNCHANGED <<socketVars, pageVars, cur, sid, rid, shown, todo, target,
                   before, cut>>

\* Mutant: the members are entered before the first message is written.
NewChannelMessage_Mut(r) ==
    /\ pc[r] = "insertMessage"
    /\ rid[r] # None
    /\ membership' = membership \cup {<<chan[r], sid[r]>>, <<chan[r], rid[r]>>}
    /\ Goto(r, "insertSender")
    /\ UNCHANGED <<user, channel, message, socketVars, pageVars, cur, sid, rid,
                   chan, shown, todo, target, before, cut>>

\* insert into message, then `go sendMessageOverWebSocket` to the receiver:
\* from here on the push runs beside the rest of the handler.
NewChannelMessage(r) ==
    /\ pc[r] = "insertMessage"
    /\ InsertMessage(r, sid[r], chan[r])
    /\ shown' = [shown EXCEPT ![r] = {r}]
    /\ todo' = [todo EXCEPT ![r] = {rid[r]} \ {None}]
    /\ Goto(r, "insertSender")
    /\ UNCHANGED <<socketVars, pageVars, cur, sid, rid, chan, target, before,
                   cut>>

NewSenderMembership(r) ==
    /\ pc[r] = "insertSender"
    /\ InsertMembership(chan[r], sid[r])
    /\ Goto(r, "insertReceiver")
    /\ UNCHANGED <<socketVars, pageVars, cur, sid, rid, chan, shown, todo,
                   target, before, cut>>

\* Mutant: the error of the insert is ignored.
NewReceiverMembership_Mut(r) ==
    /\ pc[r] = "insertReceiver"
    /\ InsertMembership(chan[r], rid[r]) \/ UNCHANGED dbVars
    /\ Goto(r, "respond")
    /\ UNCHANGED <<socketVars, pageVars, cur, sid, rid, chan, shown, todo,
                   target, before, cut>>

NewReceiverMembership(r) ==
    /\ pc[r] = "insertReceiver"
    /\ InsertMembership(chan[r], rid[r])
    /\ Goto(r, "respond")
    /\ UNCHANGED <<socketVars, pageVars, cur, sid, rid, chan, shown, todo,
                   target, before, cut>>

\* The loop over the rows of the history; after a read error only those
\* before it are answered.
FetchHistory(r) ==
    /\ pc[r] = "history"
    /\ \E h \in Histories(chan[r]) :
          \/ shown' = [shown EXCEPT ![r] = h] /\ UNCHANGED cut
          \/ \E part \in SUBSET h \ {h} :
                shown' = [shown EXCEPT ![r] = part] /\ cut' = cut \cup {r}
    /\ Goto(r, "respond")
    /\ UNCHANGED <<dbVars, socketVars, pageVars, cur, sid, rid, chan, todo,
                   target, before>>

-----------------------------------------------------------------------------
\* sendMessage

\* Mutant: an error of the insert does not end the handler.
Persist_Mut(r) ==
    /\ pc[r] = "persist"
    /\ InsertMessage(r, sid[r], chan[r]) \/ UNCHANGED dbVars
    /\ Goto(r, "members")
    /\ UNCHANGED <<socketVars, pageVars, cur, sid, rid, chan, shown, todo,
                   target, before, cut>>

Persist(r) ==
    /\ pc[r] = "persist"
    /\ InsertMessage(r, sid[r], chan[r])
    /\ Goto(r, "members")
    /\ UNCHANGED <<socketVars, pageVars, cur, sid, rid, chan, shown, todo,
                   target, before, cut>>

\* Mutant: the test for the sender is dropped.
FetchMembers_Mut(r) ==
    /\ pc[r] = "members"
    /\ todo' = [todo EXCEPT ![r] = Members(chan[r])]
    /\ Goto(r, "respond")
    /\ UNCHANGED <<dbVars, socketVars, pageVars, cur, sid, rid, chan, shown,
                   target, before, cut>>

\* The channel's members except the sender, or after a read error only those
\* read before it; the query of the sender's name that follows decides
\* nothing.  The push itself runs inside the handler.
FetchMembers(r) ==
    LET others == Members(chan[r]) \ {sid[r]}
    IN  /\ pc[r] = "members"
        /\ \/ todo' = [todo EXCEPT ![r] = others] /\ UNCHANGED cut
           \/ \E part \in SUBSET others \ {others} :
                 todo' = [todo EXCEPT ![r] = part] /\ cut' = cut \cup {r}
        /\ Goto(r, "respond")
        /\ UNCHANGED <<dbVars, socketVars, pageVars, cur, sid, rid, chan, shown,
                       target, before>>

-----------------------------------------------------------------------------
\* sendMessageOverWebSocket, one member at a time.

\* Mutant: the loop never advances past a registered member.
PushLookup_Mut(r) ==
    /\ target[r] = None
    /\ \E u \in todo[r] :
          /\ todo' = [todo EXCEPT ![r] = IF wsMap[u] = None THEN @ \ {u} ELSE @]
          /\ target' = [target EXCEPT ![r] = wsMap[u]]
    /\ UNCHANGED <<dbVars, socketVars, pageVars, cur, pc, sid, rid, chan,
                   shown, before, cut>>

\* wsServer, present := wsMap[member.UserID]
PushLookup(r) ==
    /\ target[r] = None
    /\ \E u \in todo[r] :
          /\ todo' = [todo EXCEPT ![r] = @ \ {u}]
          /\ target' = [target EXCEPT ![r] = wsMap[u]]
    /\ UNCHANGED <<dbVars, socketVars, pageVars, cur, pc, sid, rid, chan,
                   shown, before, cut>>

\* (*wsServer).Emit("realtime", ...)
PushEmit(r) ==
    /\ target[r] # None
    /\ Emit(target[r], r)
    /\ target' = [target EXCEPT ![r] = None]
    /\ UNCHANGED <<dbVars, connVars, pageVars, cur, pc, sid, rid, chan, shown,
                   todo, before, cut>>

-----------------------------------------------------------------------------
\* Ends of a handler.

\* The answer reaches the page.  createUser's loads the message page (a
\* second answer finds the form gone); createChannel's sets channelIdObj
\* once per message listed.  sendMessage answers after its pushes.
Respond(r) ==
    /\ pc[r] = "respond"
    /\ r.op = "sendMessage" => todo[r] = {} /\ target[r] = None
    /\ Goto(r, "answered")
    /\ pageUser' = IF r.op = "createUser" /\ pageUser[r.page] = None
                   THEN [pageUser EXCEPT ![r.page] = sid[r]] ELSE pageUser
    /\ cur' = IF r.op = "createChannel" /\ shown[r] # {}
              THEN [cur EXCEPT ![r.page] = chan[r]] ELSE cur
    /\ UNCHANGED <<dbVars, socketVars, sid, rid, chan, shown, todo, target,
                   before, cut>>

\* The handler finishes but the client never sees the answer.
LoseResponse(r) ==
    /\ pc[r] = "respond"
    /\ r.op = "sendMessage" => todo[r] = {} /\ target[r] = None
    /\ Goto(r, "lost")
    /\ UNCHANGED <<dbVars, socketVars, pageVars, cur, sid, rid, chan, shown,
                   todo, target, before, cut>>

\* Query, Exec or Scan returns an error: the handler answers 500 and returns,
\* undoing nothing and leaving a push it has spawned running.
Fail(r) ==
    /\ pc[r] \in DbPc
    /\ Goto(r, "failed")
    /\ UNCHANGED <<dbVars, socketVars, pageVars, cur, sid, rid, chan, shown,
                   todo, target, before, cut>>

\* The process dies: requests in flight end without an answer, pushes stop.
Crash ==
    /\ SocketsCrash
    /\ pc' = [r \in Request |-> IF Running(r) THEN "failed" ELSE pc[r]]
    /\ todo' = [r \in Request |-> {}]
    /\ target' = [r \in Request |-> None]
    /\ UNCHANGED <<cur, sid, rid, chan, shown, before, cut>>

-----------------------------------------------------------------------------
CreateUserStep(r) == FetchUser(r) \/ NewUser(r)

CreateChannelStep(r) ==
    \/ FetchSender(r) \/ FetchReceiver(r) \/ FindChannel(r) \/ NewChannel(r)
    \/ NewChannelMessage(r) \/ NewSenderMembership(r)
    \/ NewReceiverMembership(r) \/ FetchHistory(r)

SendMessageStep(r) == Persist(r) \/ FetchMembers(r)

Push(r) == PushLookup(r) \/ PushEmit(r)

\* What the server does for r once it has been received.
Handle(r) ==
    \/ CreateUserStep(r) \/ CreateChannelStep(r) \/ SendMessageStep(r)
    \/ Respond(r) \/ LoseResponse(r) \/ Fail(r)

QuietHandlers == UNCHANGED <<cur, handlerVars, before, cut>>

SocketStep == (\E c \in Conn : ConnStep(c)) /\ QuietHandlers

Next ==
    \/ \E r \in Request : Send(r) \/ Handle(r) \/ Push(r)
    \/ SocketStep
    \/ Crash

\* The client of c is gone and the server has not noticed.
Silent(c) == conn[c] \in {"stalled", "full"}

\* The Go scheduler runs every handler and spawned push, the driver answers
\* every statement with a result or an error, pages keep beating while they
\* are connected, event handlers run, and the engine.io deadline (PingTimeout)
\* closes a client that has gone silent.  Sending, connecting, stalling and
\* crashing are nobody's duty.
Fairness ==
    /\ \A r \in Request : WF_vars(Handle(r)) /\ WF_vars(Push(r))
    /\ \A c \in Conn :
          /\ WF_vars(Beat(c) /\ QuietHandlers)
          /\ WF_vars(Heartbeat(c) /\ QuietHandlers)
          /\ WF_vars(Silent(c) /\ Disconnect(c) /\ QuietHandlers)

Spec == Init /\ [][Next]_vars /\ Fairness

-----------------------------------------------------------------------------
\* Safety.

Received(c) == {inbox[c][i] : i \in 1 .. Len(inbox[c])}

\* "first persit the chat" (main.go:271): a text that any client received,
\* or whose sender was told it was sent, is in the database, whatever
\* statement failed and whenever the server crashed.
Durable ==
    \A r \in Request :
        \/ \E c \in Conn : r \in Received(c)
        \/ r.op = "sendMessage" /\ pc[r] = "answered"
        => message[r] # None

\* A text is pushed only to pages of its addressees, never to the sender:
\* members of its channel, or for the notice of a new channel, which is
\* pushed before the memberships exist, the receiver named in the request.
DeliveredToAddressee ==
    \A c \in Conn : \A r \in Received(c) :
        LET u == pageUser[ConnPage[c]]
        IN  /\ u # sid[r]
            /\ \/ r.op = "sendMessage" /\ <<chan[r], u>> \in membership
               \/ r.op = "createChannel" /\ u = rid[r]

\* A member receives a text at most once, over however many connections and
\* pages that member uses (sendMessageOverWebSocket emits to one connection).
AtMostOnce ==
    \A c, d \in Conn : \A i \in 1 .. Len(inbox[c]), j \in 1 .. Len(inbox[d]) :
        /\ pageUser[ConnPage[c]] = pageUser[ConnPage[d]]
        /\ inbox[c][i] = inbox[d][j]
        => c = d /\ i = j

\* An answered click lists messages of one channel that both users are
\* members of, and at least one unless a read error cut the rows short.  The
\* page takes its channel from the listed messages (message.html:186): an
\* empty list leaves it sending to the channel selected before.
ClickSelectsPair ==
    \A r \in Request :
        r.op = "createChannel" /\ pc[r] \in {"respond", "answered", "lost"} =>
            /\ r \notin cut => shown[r] # {}
            /\ \A m \in shown[r] : message[m] # None
                                   /\ message[m].channel = chan[r]
            /\ <<chan[r], sid[r]>> \in membership
            /\ <<chan[r], rid[r]>> \in membership

SamePair(q, r) ==
    {PageName[q.page], q.to} = {PageName[r.page], r.to}

\* Where names are unique, a click made after a click on the same pair was
\* answered, from either end, opens an existing channel and creates none,
\* unless a read error hid that channel from it.
CreateOnce ==
    UniqueNames =>
        \A r \in Request \ cut : \A q \in before[r] :
            /\ q.op = "createChannel" /\ r.op = "createChannel"
            /\ SamePair(q, r)
            => message[r] = None

\* Where names are unique, a page's channel is one its user can use: the user
\* and somebody else are members, so a message sent there has an addressee.
SelectedIsUsable ==
    UniqueNames =>
        \A p \in Page : cur[p] # None =>
            /\ <<cur[p], pageUser[p]>> \in membership
            /\ Members(cur[p]) # {pageUser[p]}

\* A login sent after a login under that name was answered, by the same page
\* or another, before or after a crash, registers nobody: it finds the row
\* (main.go:66-71).  Overlapping logins may register the name twice.
LoginOnce ==
    \A r \in Request : \A q \in before[r] :
        /\ q.op = "createUser" /\ r.op = "createUser"
        /\ PageName[q.page] = PageName[r.page]
        => pc[r] # "insertUser"

-----------------------------------------------------------------------------
\* What the repository promises and the code does not keep.

\* "nothing to worry(data presisted) ... user click channel it will
\* eventually get it" (slack/brainstroming.md:75): a click on the sender's
\* name, made by the receiver after a message was sent, shows that message.
\* Two clicks at once give the pair two channels, and it may not.  Checked
\* where HistoryLimit exceeds the number of messages and nothing was cut.
ClickShowsSent ==
    cut = {} => \A q \in Request : \A r \in before[q] :
        /\ r.op = "sendMessage"
        /\ q.op = "createChannel" /\ pc[q] = "answered"
        /\ sid[r] = rid[q] /\ Members(chan[r]) = {sid[q], rid[q]}
        => r \in shown[q]

-----------------------------------------------------------------------------
\* Liveness.

\* Every request the server received comes to an end, although sendMessage
\* pushes inside the handler and Emit blocks on a client that went silent.
EveryRequestEnds ==
    \A r \in Request : Running(r) ~> pc[r] \in EndPc

\* A page whose connection stays up becomes reachable and stays so, although
\* OnDisconnect leaves stale entries in wsMap, a late heartbeat of an older
\* connection may overwrite a newer one, and a crash empties the map: the
\* periodic heartbeat repairs the entry.
Reachable ==
    \A c \in Conn :
        <>[](conn[c] = "open")
            => <>[](LET t == wsMap[pageUser[ConnPage[c]]]
                    IN  t # None /\ conn[t] = "open")
=============================================================================
