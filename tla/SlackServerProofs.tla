-------------------------- MODULE SlackServerProofs --------------------------
(***************************************************************************)
(* Proofs about SlackServer, for all sets of users, pages, connections and *)
(* requests: type correctness, and the safety of the realtime push.        *)
(***************************************************************************)
EXTENDS SlackServer, TLAPS

-----------------------------------------------------------------------------
\* Type correctness.

\* The initial tables, sockets and handlers are well typed.
LEMMA InitTypeOK == Init => TypeOK
  BY DbAssumption, SocketAssumption, RequestAssumption
     DEF Init, DbInit, SocketInit, TypeOK, DbTypeOK, SocketTypeOK, ConnState

\* Every step keeps them so; the foreign keys type the rows inserted.
LEMMA StepTypeOK == TypeOK /\ [Next]_vars => TypeOK'
<1> SUFFICES ASSUME TypeOK, [Next]_vars PROVE TypeOK'
  OBVIOUS
<1> USE DbAssumption, SocketAssumption, RequestAssumption
<1> USE DEF TypeOK, DbTypeOK, SocketTypeOK, ConnState, DbPc, UserPc, ChannelPc,
            MessagePc, EndPc, dbVars, connVars, socketVars, pageVars, Goto
<1>1. ASSUME NEW r \in Request, Send(r) PROVE TypeOK'
  <2>1. CASE r.op = "sendMessage" /\ pc' = [pc EXCEPT ![r] = "persist"]
               /\ sid' = [sid EXCEPT ![r] = pageUser[r.page]]
               /\ chan' = [chan EXCEPT ![r] = cur[r.page]]
    BY <1>1, <2>1 DEF Send
  <2>2. CASE UNCHANGED <<sid, chan>>
               /\ (\/ pc' = [pc EXCEPT ![r] = "fetchUser"]
                   \/ pc' = [pc EXCEPT ![r] = "fetchSender"])
    BY <1>1, <2>2 DEF Send
  <2> QED
    BY <1>1, <2>1, <2>2 DEF Send
<1>2. ASSUME NEW r \in Request, FetchUser(r) PROVE TypeOK'
  <2>1. CASE pc' = [pc EXCEPT ![r] = "insertUser"] /\ UNCHANGED sid
    BY <1>2, <2>1 DEF FetchUser
  <2>2. ASSUME NEW u \in UserId, pc' = [pc EXCEPT ![r] = "respond"],
               sid' = [sid EXCEPT ![r] = u]
        PROVE  TypeOK'
    BY <1>2, <2>2 DEF FetchUser
  <2> QED
    BY <1>2, <2>1, <2>2 DEF FetchUser, IdsOf
<1>3. ASSUME NEW r \in Request, NewUser(r) PROVE TypeOK'
  BY <1>3 DEF NewUser, InsertUser
<1>4. ASSUME NEW r \in Request, FetchSender(r) PROVE TypeOK'
  BY <1>4 DEF FetchSender, ScannedIds, IdsOf
<1>5. ASSUME NEW r \in Request, FetchReceiver(r) PROVE TypeOK'
  BY <1>5 DEF FetchReceiver, ScannedIds, IdsOf
<1>6. ASSUME NEW r \in Request, FindChannel(r) PROVE TypeOK'
  <2>1. CASE pc' = [pc EXCEPT ![r] = "insertChannel"] /\ UNCHANGED chan
    BY <1>6, <2>1 DEF FindChannel
  <2>2. ASSUME NEW ch \in ChannelId, pc' = [pc EXCEPT ![r] = "history"],
               chan' = [chan EXCEPT ![r] = ch]
        PROVE  TypeOK'
    BY <1>6, <2>2 DEF FindChannel
  <2> QED
    BY <1>6, <2>1, <2>2 DEF FindChannel, ChannelsBetween
<1>7. ASSUME NEW r \in Request, NewChannel(r) PROVE TypeOK'
  BY <1>7 DEF NewChannel, InsertChannel
<1>8. ASSUME NEW r \in Request, NewChannelMessage(r) PROVE TypeOK'
  BY <1>8 DEF NewChannelMessage, InsertMessage, UserExists, Message
<1>9. ASSUME NEW r \in Request, NewSenderMembership(r) PROVE TypeOK'
  BY <1>9 DEF NewSenderMembership, InsertMembership, UserExists
<1>10. ASSUME NEW r \in Request, NewReceiverMembership(r) PROVE TypeOK'
  BY <1>10 DEF NewReceiverMembership, InsertMembership, UserExists
<1>11. ASSUME NEW r \in Request, FetchHistory(r) PROVE TypeOK'
  <2>1. \A h \in Histories(chan[r]) : h \in SUBSET Request
    BY DEF Histories, MessagesIn
  <2>2. ASSUME NEW part \in SUBSET Request, shown' = [shown EXCEPT ![r] = part],
               cut' \subseteq Request
        PROVE  TypeOK'
    BY <1>11, <2>2 DEF FetchHistory
  <2> QED
    BY <1>11, <2>1, <2>2 DEF FetchHistory
<1>12. ASSUME NEW r \in Request, Persist(r) PROVE TypeOK'
  BY <1>12 DEF Persist, InsertMessage, UserExists, Message
<1>13. ASSUME NEW r \in Request, FetchMembers(r) PROVE TypeOK'
  <2>1. Members(chan[r]) \subseteq UserId
    BY DEF Members
  <2>2. ASSUME NEW part \in SUBSET UserId, todo' = [todo EXCEPT ![r] = part],
               cut' \subseteq Request
        PROVE  TypeOK'
    BY <1>13, <2>2 DEF FetchMembers
  <2> QED
    BY <1>13, <2>1, <2>2 DEF FetchMembers
<1>14. ASSUME NEW r \in Request, PushLookup(r) PROVE TypeOK'
  BY <1>14 DEF PushLookup
<1>15. ASSUME NEW r \in Request, PushEmit(r) PROVE TypeOK'
  <2>1. inbox' \in [Conn -> Seq(Request)]
    <3>1. CASE inbox' = [inbox EXCEPT ![target[r]] = Append(@, r)]
      BY <1>15, <3>1 DEF PushEmit
    <3>2. CASE UNCHANGED inbox
      BY <3>2
    <3> QED
      BY <1>15, <3>1, <3>2 DEF PushEmit, Emit
  <2> QED
    BY <1>15, <2>1 DEF PushEmit
<1>16. ASSUME NEW r \in Request, Respond(r) PROVE TypeOK'
  BY <1>16 DEF Respond
<1>17. ASSUME NEW r \in Request, LoseResponse(r) PROVE TypeOK'
  BY <1>17 DEF LoseResponse
<1>18. ASSUME NEW r \in Request, Fail(r) PROVE TypeOK'
  BY <1>18 DEF Fail
<1>19. CASE SocketStep
  <2>1. ASSUME NEW c \in Conn, Connect(c) PROVE TypeOK'
    BY <1>19, <2>1 DEF SocketStep, QuietHandlers, handlerVars, Connect
  <2>2. ASSUME NEW c \in Conn, Beat(c) PROVE TypeOK'
    BY <1>19, <2>2 DEF SocketStep, QuietHandlers, handlerVars, Beat
  <2>3. ASSUME NEW c \in Conn, Heartbeat(c) PROVE TypeOK'
    <3> DEFINE u == pageUser[ConnPage[c]]
               name == PageName[ConnPage[c]]
    <3>1. wsMap' \in [UserId -> Conn \cup {None}]
      BY <2>3 DEF Heartbeat
    <3>2. user' \in [UserId -> UserName \cup {None}]
      <4>1. CASE UNCHANGED user
        BY <4>1
      <4>2. CASE user' = [user EXCEPT ![u] = IF @ = None THEN name ELSE @]
        BY <4>2
      <4> QED
        BY <2>3, <4>1, <4>2 DEF Heartbeat, UpsertUser
    <3>3. UNCHANGED <<channel, message, membership, conn, inbox, crashes>>
      BY <2>3 DEF Heartbeat, UpsertUser
    <3>4. beat' \in [Conn -> BOOLEAN]
      BY <2>3 DEF Heartbeat
    <3> QED
      BY <1>19, <2>3, <3>1, <3>2, <3>3, <3>4
         DEF SocketStep, QuietHandlers, handlerVars, Heartbeat
  <2>4. ASSUME NEW c \in Conn, Stall(c) PROVE TypeOK'
    BY <1>19, <2>4 DEF SocketStep, QuietHandlers, handlerVars, Stall
  <2>5. ASSUME NEW c \in Conn, Disconnect(c) PROVE TypeOK'
    BY <1>19, <2>5 DEF SocketStep, QuietHandlers, handlerVars, Disconnect
  <2> QED
    BY <1>19, <2>1, <2>2, <2>3, <2>4, <2>5 DEF SocketStep, ConnStep
<1>20. CASE Crash
  BY <1>20 DEF Crash, SocketsCrash, Running
<1>21. CASE UNCHANGED vars
  BY <1>21 DEF vars, handlerVars
<1> QED
  BY <1>1, <1>2, <1>3, <1>4, <1>5, <1>6, <1>7, <1>8, <1>9, <1>10, <1>11, <1>12,
     <1>13, <1>14, <1>15, <1>16, <1>17, <1>18, <1>19, <1>20, <1>21
     DEF Next, Handle, CreateUserStep, CreateChannelStep, SendMessageStep, Push

\* Every table, socket, page and handler variable keeps its type.
THEOREM TypeCorrect == Spec => []TypeOK
  BY InitTypeOK, StepTypeOK, PTL DEF Spec

-----------------------------------------------------------------------------
(***************************************************************************)
(* The push.  A user is Pending for request r while r's loop has not come  *)
(* to it, InFlight while Emit writes to one of its connections, and Got r  *)
(* when one of its connections received it.  The invariant says that a     *)
(* user goes through these at most once and only as an addressee.          *)
(***************************************************************************)

\* Statements before the push: sid, rid and chan may still change.
PrePush == {"idle", "fetchUser", "insertUser", "fetchSender", "fetchReceiver",
            "findChannel", "history", "insertChannel", "insertMessage",
            "persist", "members"}

Owner(c) == pageUser[ConnPage[c]]
Pending(r, u) == u \in todo[r]
InFlight(r, u) == target[r] # None /\ Owner(target[r]) = u
Got(r, u) == \E c \in Conn : r \in Received(c) /\ Owner(c) = u
Reached(r, u) == Pending(r, u) \/ InFlight(r, u) \/ Got(r, u)

Addressee(r, u) ==
    /\ u # sid[r]
    /\ \/ r.op = "sendMessage" /\ <<chan[r], u>> \in membership
       \/ r.op = "createChannel" /\ u = rid[r]

\* Only pages that are logged in are written to.
LoggedIn ==
    /\ \A r \in Request : target[r] # None => Owner(target[r]) # None
    /\ \A c \in Conn : \A r \in Request : r \in Received(c) => Owner(c) # None

\* A text reaches nobody before its push has started, and is saved by then.
Started ==
    \A r \in Request, u \in UserId :
        Reached(r, u) => pc[r] \notin PrePush /\ message[r] # None

AddressedOnly ==
    \A r \in Request, u \in UserId : Reached(r, u) => Addressee(r, u)

Once ==
    \A r \in Request, u \in UserId :
        /\ Pending(r, u) => ~ InFlight(r, u) /\ ~ Got(r, u)
        /\ InFlight(r, u) => ~ Got(r, u)

PushInv == LoggedIn /\ Started /\ AddressedOnly /\ Once /\ AtMostOnce

\* What the handlers know when they get there.
OpPc ==
    \A r \in Request :
        /\ pc[r] \in UserPc => r.op = "createUser"
        /\ pc[r] \in ChannelPc => r.op = "createChannel"
        /\ pc[r] \in MessagePc => r.op = "sendMessage"

Names ==
    \A r \in Request : r.op = "createChannel" =>
        /\ sid[r] # None => user[sid[r]] = PageName[r.page]
        /\ rid[r] # None => user[rid[r]] = r.to

Saved ==
    \A r \in Request :
        r.op = "sendMessage" /\ pc[r] \in {"members", "respond", "answered", "lost"}
            => message[r] # None

HandlerInv == OpPc /\ Names /\ Saved /\ RegisteredIsOwn

IInv == TypeOK /\ HandlerInv /\ PushInv

-----------------------------------------------------------------------------
\* A step that pushes nothing and forgets nothing the push relies on.
Quiet ==
    /\ UNCHANGED <<todo, target, inbox>>
    /\ \A p \in Page : pageUser[p] # None => pageUser'[p] = pageUser[p]
    /\ \A r \in Request : message[r] # None => message'[r] # None
    /\ membership \subseteq membership'
    /\ \A r \in Request : pc[r] \notin PrePush =>
          /\ pc'[r] \notin PrePush
          /\ sid'[r] = sid[r] /\ rid'[r] = rid[r] /\ chan'[r] = chan[r]

\* Quiet steps preserve the invariant of the push.
LEMMA QuietKeepsPush ==
    ASSUME TypeOK, PushInv, Quiet
    PROVE  PushInv'
<1> USE SocketAssumption
<1>1. \A c \in Conn : Received(c)' = Received(c)
  BY DEF Quiet, Received
<1>2. \A c \in Conn : Owner(c) # None => Owner(c)' = Owner(c)
  BY DEF Quiet, Owner
<1>3. \A r \in Request : target[r] # None => target[r] \in Conn
  BY DEF TypeOK
<1>4. LoggedIn'
  BY <1>1, <1>2, <1>3 DEF PushInv, LoggedIn, Quiet, Owner
<1>5. ASSUME NEW r \in Request, NEW u \in UserId
      PROVE  /\ Pending(r, u)' <=> Pending(r, u)
             /\ InFlight(r, u)' <=> InFlight(r, u)
             /\ Got(r, u)' <=> Got(r, u)
  <2>1. Pending(r, u)' <=> Pending(r, u)
    BY DEF Pending, Quiet
  <2>2. InFlight(r, u)' <=> InFlight(r, u)
    BY <1>2, <1>3 DEF InFlight, Quiet, PushInv, LoggedIn, Owner
  <2>3. Got(r, u)' <=> Got(r, u)
    BY <1>1, <1>2 DEF Got, PushInv, LoggedIn
  <2> QED
    BY <2>1, <2>2, <2>3
<1>6. Started'
  BY <1>5 DEF PushInv, Started, Reached, Quiet
<1>7. AddressedOnly'
  BY <1>5 DEF PushInv, AddressedOnly, Started, Reached, Addressee, Quiet
<1>8. Once'
  BY <1>5 DEF PushInv, Once
<1>9. AtMostOnce'
  <2> SUFFICES ASSUME NEW c \in Conn, NEW d \in Conn,
                      NEW i \in 1 .. Len(inbox[c]), NEW j \in 1 .. Len(inbox[d]),
                      Owner(c)' = Owner(d)', inbox[c][i] = inbox[d][j]
               PROVE  c = d /\ i = j
    BY DEF AtMostOnce, Owner, Quiet
  <2>1. inbox[c][i] \in Request /\ inbox[d][j] \in Request
    BY DEF TypeOK, SocketTypeOK
  <2>2. inbox[c][i] \in Received(c) /\ inbox[d][j] \in Received(d)
    BY DEF Received
  <2>3. Owner(c) = Owner(d)
    BY <1>2, <2>1, <2>2 DEF PushInv, LoggedIn
  <2> QED
    BY <2>3 DEF PushInv, AtMostOnce, Owner
<1> QED
  BY <1>4, <1>6, <1>7, <1>8, <1>9 DEF PushInv

-----------------------------------------------------------------------------
\* The steps that push nothing.

\* Sending, the database statements before a push, and the ends of a handler.
LEMMA QuietRequestStep ==
    ASSUME TypeOK, OpPc, NEW r \in Request,
           \/ Send(r) \/ FetchUser(r) \/ NewUser(r) \/ FetchSender(r)
           \/ FetchReceiver(r) \/ FindChannel(r) \/ NewChannel(r)
           \/ NewSenderMembership(r) \/ NewReceiverMembership(r)
           \/ FetchHistory(r) \/ Persist(r) \/ Respond(r) \/ LoseResponse(r) \/ Fail(r)
    PROVE  Quiet
<1> USE DbAssumption, SocketAssumption, RequestAssumption
<1> USE DEF TypeOK, DbTypeOK, SocketTypeOK, dbVars, connVars, socketVars,
            pageVars, Goto, Quiet, PrePush
<1>1. ASSUME Send(r) PROVE Quiet
  BY <1>1 DEF Send
<1>2. ASSUME FetchUser(r) PROVE Quiet
  BY <1>2 DEF FetchUser
<1>3. ASSUME NewUser(r) PROVE Quiet
  BY <1>3 DEF NewUser, InsertUser
<1>4. ASSUME FetchSender(r) PROVE Quiet
  BY <1>4 DEF FetchSender
<1>5. ASSUME FetchReceiver(r) PROVE Quiet
  BY <1>5 DEF FetchReceiver
<1>6. ASSUME FindChannel(r) PROVE Quiet
  BY <1>6 DEF FindChannel
<1>7. ASSUME NewChannel(r) PROVE Quiet
  BY <1>7 DEF NewChannel, InsertChannel
<1>8. ASSUME NewSenderMembership(r) PROVE Quiet
  BY <1>8 DEF NewSenderMembership, InsertMembership
<1>9. ASSUME NewReceiverMembership(r) PROVE Quiet
  BY <1>9 DEF NewReceiverMembership, InsertMembership
<1>10. ASSUME FetchHistory(r) PROVE Quiet
  BY <1>10 DEF FetchHistory
<1>11. ASSUME Persist(r) PROVE Quiet
  BY <1>11 DEF Persist, InsertMessage, UserExists, Message
<1>12. ASSUME Respond(r) PROVE Quiet
  BY <1>12 DEF Respond
<1>13. ASSUME LoseResponse(r) PROVE Quiet
  BY <1>13 DEF LoseResponse
<1>14. ASSUME Fail(r) PROVE Quiet
  BY <1>14 DEF Fail, DbPc, UserPc, ChannelPc, MessagePc
<1> QED
  BY <1>1, <1>2, <1>3, <1>4, <1>5, <1>6, <1>7,
     <1>8, <1>9, <1>10, <1>11, <1>12, <1>13, <1>14

\* Connections and heartbeats.
LEMMA QuietSocketStep ==
    ASSUME TypeOK, SocketStep
    PROVE  Quiet
<1> USE DEF TypeOK, SocketTypeOK, dbVars, connVars, socketVars, pageVars,
            handlerVars, Quiet, SocketStep, QuietHandlers
<1>1. UNCHANGED <<inbox, pageUser, message, membership>>
  BY DEF ConnStep, Connect, Beat, Heartbeat, UpsertUser, Stall, Disconnect
<1> QED
  BY <1>1

-----------------------------------------------------------------------------
\* What the handlers know survives every step.

\* One case per action of the specification.
LEMMA HandlerStep ==
    ASSUME TypeOK, HandlerInv, [Next]_vars
    PROVE  HandlerInv'
<1> USE DbAssumption, SocketAssumption, RequestAssumption
<1> USE DEF TypeOK, DbTypeOK, SocketTypeOK, dbVars, connVars, socketVars,
            pageVars, Goto, HandlerInv, OpPc, Names, Saved, RegisteredIsOwn,
            UserPc, ChannelPc, MessagePc
<1>1. ASSUME NEW r \in Request, Send(r) PROVE HandlerInv'
  <2>1. OpPc'
    BY <1>1 DEF Send
  <2>2. Names'
    BY <1>1 DEF Send
  <2>3. Saved'
    BY <1>1 DEF Send
  <2>4. RegisteredIsOwn'
    BY <1>1 DEF Send
  <2> QED
    BY <2>1, <2>2, <2>3, <2>4
<1>2. ASSUME NEW r \in Request, FetchUser(r) PROVE HandlerInv'
  <2>1. r.op = "createUser" /\ \A q \in Request \ {r} : sid'[q] = sid[q]
    BY <1>2 DEF FetchUser
  <2>2. OpPc'
    BY <1>2, <2>1 DEF FetchUser
  <2>3. Names'
    BY <1>2, <2>1 DEF FetchUser
  <2>4. Saved' /\ RegisteredIsOwn'
    BY <1>2, <2>1 DEF FetchUser
  <2> QED
    BY <2>2, <2>3, <2>4
<1>3. ASSUME NEW r \in Request, NewUser(r) PROVE HandlerInv'
  BY <1>3 DEF NewUser, InsertUser
<1>4. ASSUME NEW r \in Request, FetchSender(r) PROVE HandlerInv'
  BY <1>4 DEF FetchSender, ScannedIds, IdsOf
<1>5. ASSUME NEW r \in Request, FetchReceiver(r) PROVE HandlerInv'
  BY <1>5 DEF FetchReceiver, ScannedIds, IdsOf
<1>6. ASSUME NEW r \in Request, FindChannel(r) PROVE HandlerInv'
  BY <1>6 DEF FindChannel
<1>7. ASSUME NEW r \in Request, NewChannel(r) PROVE HandlerInv'
  BY <1>7 DEF NewChannel, InsertChannel
<1>8. ASSUME NEW r \in Request, NewChannelMessage(r) PROVE HandlerInv'
  BY <1>8 DEF NewChannelMessage, InsertMessage, UserExists, Message
<1>9. ASSUME NEW r \in Request, NewSenderMembership(r) PROVE HandlerInv'
  BY <1>9 DEF NewSenderMembership, InsertMembership
<1>10. ASSUME NEW r \in Request, NewReceiverMembership(r) PROVE HandlerInv'
  BY <1>10 DEF NewReceiverMembership, InsertMembership
<1>11. ASSUME NEW r \in Request, FetchHistory(r) PROVE HandlerInv'
  BY <1>11 DEF FetchHistory
<1>12. ASSUME NEW r \in Request, Persist(r) PROVE HandlerInv'
  BY <1>12 DEF Persist, InsertMessage, UserExists, Message
<1>13. ASSUME NEW r \in Request, FetchMembers(r) PROVE HandlerInv'
  BY <1>13 DEF FetchMembers
<1>14. ASSUME NEW r \in Request, PushLookup(r) PROVE HandlerInv'
  BY <1>14 DEF PushLookup
<1>15. ASSUME NEW r \in Request, PushEmit(r) PROVE HandlerInv'
  BY <1>15 DEF PushEmit, Emit
<1>16. ASSUME NEW r \in Request, Respond(r) PROVE HandlerInv'
  BY <1>16 DEF Respond
<1>17. ASSUME NEW r \in Request, LoseResponse(r) PROVE HandlerInv'
  BY <1>17 DEF LoseResponse
<1>18. ASSUME NEW r \in Request, Fail(r) PROVE HandlerInv'
  BY <1>18 DEF Fail, DbPc
<1>19. CASE SocketStep
  <2>1. ASSUME NEW c \in Conn, Connect(c) PROVE HandlerInv'
    BY <1>19, <2>1 DEF SocketStep, QuietHandlers, handlerVars, Connect
  <2>2. ASSUME NEW c \in Conn, Beat(c) PROVE HandlerInv'
    BY <1>19, <2>2 DEF SocketStep, QuietHandlers, handlerVars, Beat
  <2>3. ASSUME NEW c \in Conn, Heartbeat(c) PROVE HandlerInv'
    BY <1>19, <2>3 DEF SocketStep, QuietHandlers, handlerVars, Heartbeat, UpsertUser
  <2>4. ASSUME NEW c \in Conn, Stall(c) PROVE HandlerInv'
    BY <1>19, <2>4 DEF SocketStep, QuietHandlers, handlerVars, Stall
  <2>5. ASSUME NEW c \in Conn, Disconnect(c) PROVE HandlerInv'
    BY <1>19, <2>5 DEF SocketStep, QuietHandlers, handlerVars, Disconnect
  <2> QED
    BY <1>19, <2>1, <2>2, <2>3, <2>4, <2>5 DEF SocketStep, ConnStep
<1>20. CASE Crash
  BY <1>20 DEF Crash, SocketsCrash, Running
<1>21. CASE UNCHANGED vars
  BY <1>21 DEF vars, handlerVars
<1> QED
  BY <1>1, <1>2, <1>3, <1>4, <1>5, <1>6, <1>7, <1>8, <1>9, <1>10, <1>11,
     <1>12, <1>13, <1>14, <1>15, <1>16, <1>17, <1>18, <1>19, <1>20, <1>21
     DEF Next, Handle, CreateUserStep, CreateChannelStep, SendMessageStep, Push

-----------------------------------------------------------------------------
\* The steps of the push.

\* A push to the users of T starts.  Nobody has been reached before.
LEMMA StartPush ==
    ASSUME TypeOK, PushInv,
           NEW r \in Request, pc[r] \in PrePush,
           NEW T \in SUBSET UserId, todo' = [todo EXCEPT ![r] = T],
           NEW x, x \notin PrePush, pc' = [pc EXCEPT ![r] = x],
           UNCHANGED <<target, inbox, pageUser, sid, rid, chan, membership>>,
           \A q \in Request : message[q] # None => message'[q] # None,
           message'[r] # None,
           \A u \in T : Addressee(r, u)
    PROVE  PushInv'
<1>1. \A c \in Conn : Received(c)' = Received(c) /\ Owner(c)' = Owner(c)
  BY DEF Received, Owner
<1>2. \A q \in Request : target[q] # None => Owner(target[q])' = Owner(target[q])
  BY DEF Owner
<1>3. \A u \in UserId : ~ Reached(r, u)
  BY DEF PushInv, Started
<1>4. ASSUME NEW q \in Request, NEW u \in UserId
      PROVE  /\ InFlight(q, u)' <=> InFlight(q, u)
             /\ Got(q, u)' <=> Got(q, u)
             /\ q # r => (Pending(q, u)' <=> Pending(q, u))
             /\ Pending(r, u)' => u \in T
  BY <1>1, <1>2 DEF InFlight, Got, Pending, TypeOK, Owner
<1>5. LoggedIn'
  BY <1>1, <1>2 DEF PushInv, LoggedIn
<1>6. Started'
  <2> SUFFICES ASSUME NEW q \in Request, NEW u \in UserId, Reached(q, u)'
               PROVE  pc'[q] \notin PrePush /\ message'[q] # None
    BY DEF Started
  <2>1. CASE q = r
    BY <2>1 DEF TypeOK
  <2>2. CASE q # r
    BY <1>4, <2>2 DEF PushInv, Started, Reached, TypeOK
  <2> QED
    BY <2>1, <2>2
<1>7. AddressedOnly'
  <2> SUFFICES ASSUME NEW q \in Request, NEW u \in UserId, Reached(q, u)'
               PROVE  Addressee(q, u)'
    BY DEF AddressedOnly
  <2>1. Addressee(q, u)
    BY <1>3, <1>4 DEF PushInv, AddressedOnly, Reached
  <2> QED
    BY <2>1 DEF Addressee
<1>8. Once'
  BY <1>3, <1>4 DEF PushInv, Once, Reached
<1>9. AtMostOnce'
  BY DEF PushInv, AtMostOnce
<1> QED
  BY <1>5, <1>6, <1>7, <1>8, <1>9 DEF PushInv

\* createChannel spawns a push to the receiver, whose name differs from the
\* sender's.
LEMMA NewChannelMessagePush ==
    ASSUME IInv, NEW r \in Request, NewChannelMessage(r)
    PROVE  PushInv'
<1> USE DbAssumption, RequestAssumption
<1> DEFINE T == {rid[r]} \ {None}
<1>1. r.op = "createChannel" /\ pc[r] \in PrePush
  BY DEF NewChannelMessage, IInv, HandlerInv, OpPc, ChannelPc, PrePush
<1>2. sid[r] \in UserId /\ user[sid[r]] # None /\ chan[r] \in ChannelId
  BY DEF NewChannelMessage, InsertMessage, UserExists, IInv, TypeOK, DbTypeOK
<1>3. rid[r] # None => rid[r] # sid[r]
  BY <1>1, <1>2 DEF IInv, HandlerInv, Names
<1>4. \A u \in T : Addressee(r, u)
  BY <1>1, <1>3 DEF Addressee
<1>5. message' = [message EXCEPT ![r] = [sender |-> sid[r], channel |-> chan[r]]]
  BY DEF NewChannelMessage, InsertMessage
<1>6. /\ \A q \in Request : message[q] # None => message'[q] # None
      /\ message'[r] # None
  BY <1>2, <1>5 DEF IInv, TypeOK, DbTypeOK, Message
<1>7. T \in SUBSET UserId
  BY DEF IInv, TypeOK
<1>8. /\ todo' = [todo EXCEPT ![r] = T]
      /\ pc' = [pc EXCEPT ![r] = "insertSender"]
      /\ UNCHANGED <<target, inbox, pageUser, sid, rid, chan, membership>>
  BY DEF NewChannelMessage, InsertMessage, Goto, socketVars, pageVars
<1>9. "insertSender" \notin PrePush
  BY DEF PrePush
<1> HIDE DEF T
<1> QED
  BY <1>1, <1>4, <1>6, <1>7, <1>8, <1>9, StartPush DEF IInv

\* sendMessage pushes to members other than the sender.
LEMMA FetchMembersPush ==
    ASSUME IInv, NEW r \in Request, FetchMembers(r)
    PROVE  PushInv'
<1>0. PICK T \in SUBSET (Members(chan[r]) \ {sid[r]}) :
        todo' = [todo EXCEPT ![r] = T]
  BY DEF FetchMembers
<1>1. r.op = "sendMessage" /\ pc[r] \in PrePush /\ pc[r] = "members"
  BY DEF FetchMembers, IInv, HandlerInv, OpPc, MessagePc, PrePush
<1>2. \A u \in T : Addressee(r, u)
  BY <1>1 DEF Addressee, Members
<1>3. T \in SUBSET UserId
  BY DEF Members
<1>4. message[r] # None
  BY <1>1 DEF IInv, HandlerInv, Saved
<1>5. /\ pc' = [pc EXCEPT ![r] = "respond"]
      /\ UNCHANGED <<target, inbox, pageUser, sid, rid, chan, membership, message>>
  BY DEF FetchMembers, Goto, dbVars, socketVars, pageVars
<1>6. "respond" \notin PrePush
  BY DEF PrePush
<1> QED
  BY <1>0, <1>1, <1>2, <1>3, <1>4, <1>5, <1>6, StartPush DEF IInv

\* One member leaves todo and, if registered, is written to.
LEMMA PushLookupPush ==
    ASSUME IInv, NEW r \in Request, PushLookup(r)
    PROVE  PushInv'
<1> USE DbAssumption, SocketAssumption
<1>1. PICK w \in todo[r] : /\ todo' = [todo EXCEPT ![r] = @ \ {w}]
                           /\ target' = [target EXCEPT ![r] = wsMap[w]]
  BY DEF PushLookup
<1>2. /\ target[r] = None
      /\ UNCHANGED <<inbox, pageUser, sid, rid, chan, membership, message, pc>>
  BY DEF PushLookup, dbVars, socketVars, pageVars
<1>3. w \in UserId /\ Pending(r, w)
  BY DEF IInv, TypeOK, Pending
<1>4. wsMap[w] # None => wsMap[w] \in Conn /\ Owner(wsMap[w]) = w
  BY <1>3 DEF IInv, TypeOK, SocketTypeOK, HandlerInv, RegisteredIsOwn, Owner
<1>5. \A c \in Conn : Received(c)' = Received(c) /\ Owner(c)' = Owner(c)
  BY <1>2 DEF Received, Owner
<1>6. ASSUME NEW q \in Request, NEW u \in UserId
      PROVE  /\ Got(q, u)' <=> Got(q, u)
             /\ Pending(q, u)' <=> Pending(q, u) /\ ~(q = r /\ u = w)
             /\ q # r => (InFlight(q, u)' <=> InFlight(q, u))
             /\ InFlight(r, u)' => u = w
  <2>1. Got(q, u)' <=> Got(q, u)
    BY <1>5 DEF Got
  <2>2. Pending(q, u)' <=> Pending(q, u) /\ ~(q = r /\ u = w)
    BY <1>1 DEF Pending, IInv, TypeOK
  <2>3. q # r => (InFlight(q, u)' <=> InFlight(q, u))
    BY <1>1, <1>2 DEF InFlight, IInv, TypeOK, Owner
  <2>4. InFlight(r, u)' => u = w
    BY <1>1, <1>2, <1>4 DEF InFlight, IInv, TypeOK, Owner
  <2> QED
    BY <2>1, <2>2, <2>3, <2>4
<1>7. LoggedIn'
  <2>1. ASSUME NEW q \in Request, target'[q] # None PROVE Owner(target[q])' # None
    <3>1. CASE q = r
      BY <1>1, <1>2, <1>3, <1>4, <2>1, <3>1 DEF IInv, TypeOK, Owner
    <3>2. CASE q # r
      BY <1>1, <1>2, <2>1, <3>2 DEF IInv, TypeOK, PushInv, LoggedIn, Owner
    <3> QED
      BY <3>1, <3>2
  <2> QED
    BY <1>5, <2>1 DEF IInv, PushInv, LoggedIn
<1>8. ASSUME NEW q \in Request, NEW u \in UserId, Reached(q, u)'
      PROVE  Reached(q, u)
  BY <1>3, <1>6, <1>8 DEF Reached
<1>9. Started'
  BY <1>2, <1>8 DEF IInv, PushInv, Started
<1>10. AddressedOnly'
  BY <1>2, <1>8 DEF IInv, PushInv, AddressedOnly, Addressee
<1>11. Once'
  BY <1>3, <1>6 DEF IInv, PushInv, Once
<1>12. AtMostOnce'
  BY <1>2 DEF IInv, PushInv, AtMostOnce
<1> QED
  BY <1>7, <1>9, <1>10, <1>11, <1>12 DEF PushInv

\* Emit on a closed connection, or a text lost on its way: the member is given
\* up.
LEMMA DroppedPush ==
    ASSUME IInv, NEW r \in Request, PushEmit(r), UNCHANGED inbox
    PROVE  PushInv'
<1> USE DbAssumption, SocketAssumption
<1>1. /\ target' = [target EXCEPT ![r] = None]
      /\ UNCHANGED <<pageUser, sid, rid, chan, membership, message, pc, todo>>
  BY DEF PushEmit, dbVars, pageVars
<1>2. \A c \in Conn : Received(c)' = Received(c) /\ Owner(c)' = Owner(c)
  BY <1>1 DEF Received, Owner
<1>3. ASSUME NEW q \in Request, NEW u \in UserId
      PROVE  /\ Got(q, u)' <=> Got(q, u)
             /\ Pending(q, u)' <=> Pending(q, u)
             /\ InFlight(q, u)' => InFlight(q, u)
  <2>1. Got(q, u)' <=> Got(q, u)
    BY <1>2 DEF Got
  <2>2. Pending(q, u)' <=> Pending(q, u)
    BY <1>1 DEF Pending
  <2>3. InFlight(q, u)' => InFlight(q, u)
    BY <1>1 DEF InFlight, IInv, TypeOK, Owner
  <2> QED
    BY <2>1, <2>2, <2>3
<1>4. LoggedIn'
  BY <1>1, <1>2 DEF IInv, TypeOK, PushInv, LoggedIn, Owner
<1>5. Started'
  BY <1>1, <1>3 DEF IInv, PushInv, Started, Reached
<1>6. AddressedOnly'
  BY <1>1, <1>3 DEF IInv, PushInv, AddressedOnly, Addressee, Reached
<1>7. Once'
  BY <1>3 DEF IInv, PushInv, Once
<1>8. AtMostOnce'
  BY <1>1 DEF IInv, PushInv, AtMostOnce
<1> QED
  BY <1>4, <1>5, <1>6, <1>7, <1>8 DEF PushInv

\* Emit on an open connection: the member in flight becomes one that got r.
LEMMA DeliveredPush ==
    ASSUME IInv, NEW r \in Request, PushEmit(r),
           inbox' = [inbox EXCEPT ![target[r]] = Append(@, r)]
    PROVE  PushInv'
<1> USE DbAssumption, SocketAssumption
<1>0. PICK k \in Conn : k = target[r]
  BY DEF PushEmit, IInv, TypeOK
<1>1. /\ target' = [target EXCEPT ![r] = None]
      /\ target[r] # None
      /\ UNCHANGED <<pageUser, sid, rid, chan, membership, message, pc, todo>>
  BY DEF PushEmit, dbVars, pageVars
<1>2. PICK w \in UserId : w = Owner(k) /\ InFlight(r, w)
  BY <1>0, <1>1 DEF IInv, TypeOK, SocketTypeOK, PushInv, LoggedIn, InFlight, Owner
<1>3. \A c \in Conn : Owner(c)' = Owner(c)
  BY <1>1 DEF Owner
<1>4. inbox \in [Conn -> Seq(Request)]
  BY DEF IInv, TypeOK, SocketTypeOK
<1>5. /\ Len(inbox'[k]) = Len(inbox[k]) + 1
      /\ inbox'[k][Len(inbox[k]) + 1] = r
      /\ \A i \in 1 .. Len(inbox[k]) : inbox'[k][i] = inbox[k][i]
      /\ Len(inbox[k]) \in Nat
  BY <1>0, <1>4
<1>6. \A c \in Conn : c # k => inbox'[c] = inbox[c]
  BY <1>0, <1>4
<1>7. Received(k)' = Received(k) \cup {r}
  <2>1. ASSUME NEW m, m \in Received(k)' PROVE m \in Received(k) \cup {r}
    BY <1>5, <2>1 DEF Received
  <2>2. ASSUME NEW m, m \in Received(k) PROVE m \in Received(k)'
    BY <1>5, <2>2 DEF Received
  <2>3. r \in Received(k)'
    BY <1>5 DEF Received
  <2> QED
    BY <2>1, <2>2, <2>3
<1>8. ASSUME NEW c \in Conn, c # k PROVE Received(c)' = Received(c)
  <2>1. inbox'[c] = inbox[c]
    BY <1>6, <1>8
  <2> QED
    BY <2>1 DEF Received
<1>9. ASSUME NEW q \in Request, NEW u \in UserId
      PROVE  /\ Got(q, u)' => Got(q, u) \/ (q = r /\ u = w)
             /\ Pending(q, u)' <=> Pending(q, u)
             /\ InFlight(q, u)' => InFlight(q, u) /\ q # r
  <2>1. Got(q, u)' => Got(q, u) \/ (q = r /\ u = w)
    <3> SUFFICES ASSUME NEW c \in Conn, q \in Received(c)', Owner(c)' = u
                 PROVE  Got(q, u) \/ (q = r /\ u = w)
      BY DEF Got
    <3>1. CASE c = k
      BY <1>2, <1>3, <1>7, <3>1 DEF Got
    <3>2. CASE c # k
      BY <1>3, <1>8, <3>2 DEF Got
    <3> QED
      BY <3>1, <3>2
  <2>2. Pending(q, u)' <=> Pending(q, u)
    BY <1>1 DEF Pending
  <2>3. InFlight(q, u)' => InFlight(q, u) /\ q # r
    BY <1>1 DEF InFlight, IInv, TypeOK, Owner
  <2> QED
    BY <2>1, <2>2, <2>3
<1>10. LoggedIn'
  <2>1. \A q \in Request : target'[q] # None => Owner(target[q])' # None
    BY <1>1 DEF IInv, TypeOK, PushInv, LoggedIn, Owner
  <2>2. ASSUME NEW c \in Conn, NEW q \in Request, q \in Received(c)'
        PROVE  Owner(c)' # None
    <3>1. CASE c = k
      BY <1>2, <1>3, <3>1
    <3>2. CASE c # k
      BY <1>3, <1>8, <2>2, <3>2 DEF IInv, PushInv, LoggedIn
    <3> QED
      BY <3>1, <3>2
  <2> QED
    BY <2>1, <2>2 DEF LoggedIn
<1>11. ASSUME NEW q \in Request, NEW u \in UserId, Reached(q, u)'
       PROVE  Reached(q, u)
  BY <1>2, <1>9, <1>11 DEF Reached
<1>12. Started'
  BY <1>1, <1>11 DEF IInv, PushInv, Started
<1>13. AddressedOnly'
  BY <1>1, <1>11 DEF IInv, PushInv, AddressedOnly, Addressee
<1>14. Once'
  BY <1>2, <1>9 DEF IInv, PushInv, Once
\* The new element is the only r any connection of w holds.
<1>15. ASSUME NEW d \in Conn, NEW j \in 1 .. Len(inbox[d]), Owner(d) = w
       PROVE  inbox[d][j] # r
  <2>1. ~ Got(r, w)
    BY <1>2 DEF IInv, PushInv, Once
  <2>2. inbox[d][j] \in Received(d)
    BY DEF Received
  <2> QED
    BY <1>15, <2>1, <2>2 DEF Got
<1>16. AtMostOnce'
  <2> SUFFICES ASSUME NEW c \in Conn, NEW d \in Conn,
                      NEW i \in 1 .. Len(inbox'[c]),
                      NEW j \in 1 .. Len(inbox'[d]),
                      pageUser'[ConnPage[c]] = pageUser'[ConnPage[d]],
                      inbox'[c][i] = inbox'[d][j]
               PROVE  c = d /\ i = j
    BY DEF AtMostOnce
  <2>0. Owner(c) = Owner(d)
    BY <1>1 DEF Owner
  <2>1. CASE i \in 1 .. Len(inbox[c]) /\ j \in 1 .. Len(inbox[d])
    <3>1. inbox'[c][i] = inbox[c][i] /\ inbox'[d][j] = inbox[d][j]
      BY <1>5, <1>6, <2>1
    <3> QED
      BY <2>0, <2>1, <3>1 DEF IInv, PushInv, AtMostOnce, Owner
  <2>2. ASSUME i \notin 1 .. Len(inbox[c])
        PROVE  c = k /\ i = Len(inbox[k]) + 1 /\ inbox'[c][i] = r
    BY <1>5, <1>6, <2>2
  <2>3. ASSUME j \notin 1 .. Len(inbox[d])
        PROVE  d = k /\ j = Len(inbox[k]) + 1 /\ inbox'[d][j] = r
    BY <1>5, <1>6, <2>3
  <2>4. CASE i \notin 1 .. Len(inbox[c]) /\ j \in 1 .. Len(inbox[d])
    <3>1. inbox'[d][j] = inbox[d][j]
      BY <1>5, <1>6, <2>4
    <3> QED
      BY <1>2, <1>15, <2>0, <2>2, <2>4, <3>1
  <2>5. CASE i \in 1 .. Len(inbox[c]) /\ j \notin 1 .. Len(inbox[d])
    <3>1. inbox'[c][i] = inbox[c][i]
      BY <1>5, <1>6, <2>5
    <3> QED
      BY <1>2, <1>15, <2>0, <2>3, <2>5, <3>1
  <2>6. CASE i \notin 1 .. Len(inbox[c]) /\ j \notin 1 .. Len(inbox[d])
    BY <2>2, <2>3, <2>6
  <2> QED
    BY <2>1, <2>4, <2>5, <2>6
<1> QED
  BY <1>10, <1>12, <1>13, <1>14, <1>16 DEF PushInv

\* A crash abandons every push; what was received stays received.
LEMMA CrashPush ==
    ASSUME IInv, Crash
    PROVE  PushInv'
<1>1. /\ todo' = [q \in Request |-> {}] /\ target' = [q \in Request |-> None]
      /\ UNCHANGED <<inbox, pageUser, sid, rid, chan, membership, message>>
      /\ pc' = [q \in Request |-> IF Running(q) THEN "failed" ELSE pc[q]]
  BY DEF Crash, SocketsCrash, dbVars, pageVars
<1>2. \A c \in Conn : Received(c)' = Received(c) /\ Owner(c)' = Owner(c)
  BY <1>1 DEF Received, Owner
<1>3. ASSUME NEW q \in Request, NEW u \in UserId
      PROVE  /\ Got(q, u)' <=> Got(q, u)
             /\ ~ Pending(q, u)' /\ ~ InFlight(q, u)'
  BY <1>1, <1>2 DEF Got, Pending, InFlight
<1>4. \A q \in Request : pc[q] \notin PrePush => pc'[q] \notin PrePush
  BY <1>1 DEF PrePush
<1>5. LoggedIn'
  BY <1>1, <1>2 DEF IInv, PushInv, LoggedIn
<1>6. Started'
  BY <1>1, <1>3, <1>4 DEF IInv, PushInv, Started, Reached
<1>7. AddressedOnly'
  BY <1>1, <1>3 DEF IInv, PushInv, AddressedOnly, Addressee, Reached
<1>8. Once' /\ AtMostOnce'
  BY <1>1, <1>3 DEF IInv, PushInv, Once, AtMostOnce
<1> QED
  BY <1>5, <1>6, <1>7, <1>8 DEF PushInv

-----------------------------------------------------------------------------
\* Nobody is reached at the start.
LEMMA InitIInv == Init => IInv
<1> SUFFICES ASSUME Init PROVE IInv
  OBVIOUS
<1> USE DbAssumption
<1>1. TypeOK
  BY InitTypeOK
<1>2. HandlerInv
  BY DEF Init, DbInit, SocketInit, HandlerInv, OpPc, Names, Saved,
     RegisteredIsOwn, UserPc, ChannelPc, MessagePc
<1>3. \A c \in Conn : inbox[c] = << >>
  BY DEF Init, SocketInit
<1>4. \A c \in Conn : Received(c) = {}
  BY <1>3 DEF Received
<1>5. \A r \in Request, u \in UserId : ~ Reached(r, u)
  BY <1>4 DEF Init, Reached, Pending, InFlight, Got
<1>6. PushInv
  BY <1>3, <1>4, <1>5 DEF Init, PushInv, LoggedIn, Started, AddressedOnly,
     Once, Reached, AtMostOnce
<1> QED
  BY <1>1, <1>2, <1>6 DEF IInv

\* Quiet steps by QuietKeepsPush, the steps of the push one by one.
LEMMA StepIInv == IInv /\ [Next]_vars => IInv'
<1> SUFFICES ASSUME IInv, [Next]_vars PROVE IInv'
  OBVIOUS
<1>1. TypeOK' /\ HandlerInv'
  BY StepTypeOK, HandlerStep DEF IInv
<1>2. PushInv'
  <2>1. ASSUME NEW r \in Request, Send(r) \/ Handle(r) \/ Push(r)
        PROVE  PushInv'
    <3>1. CASE NewChannelMessage(r)
      BY <3>1, NewChannelMessagePush
    <3>2. CASE FetchMembers(r)
      BY <3>2, FetchMembersPush
    <3>3. CASE PushLookup(r)
      BY <3>3, PushLookupPush
    <3>4. CASE PushEmit(r)
      BY <3>4, DroppedPush, DeliveredPush DEF PushEmit, Emit
    <3> QED
      BY <2>1, <3>1, <3>2, <3>3, <3>4, QuietRequestStep, QuietKeepsPush
         DEF IInv, HandlerInv, Handle, CreateUserStep, CreateChannelStep,
             SendMessageStep, Push
  <2>2. CASE SocketStep
    BY <2>2, QuietSocketStep, QuietKeepsPush DEF IInv
  <2>3. CASE Crash
    BY <2>3, CrashPush
  <2>4. CASE UNCHANGED vars
    <3>1. Quiet
      BY <2>4 DEF vars, dbVars, socketVars, pageVars, handlerVars, Quiet
    <3> QED
      BY <3>1, QuietKeepsPush DEF IInv
  <2> QED
    BY <2>1, <2>2, <2>3, <2>4 DEF Next
<1> QED
  BY <1>1, <1>2 DEF IInv

\* The invariant of handlers and push holds in every behaviour.
THEOREM Inductive == Spec => []IInv
  BY InitIInv, StepIInv, PTL DEF Spec

\* "first persit the chat": what anybody received, and what a sender was told
\* was sent, is in the database.
THEOREM PushedIsDurable == Spec => []Durable
<1>1. IInv => Durable
  <2> SUFFICES ASSUME IInv, NEW r \in Request,
                      \/ \E c \in Conn : r \in Received(c)
                      \/ r.op = "sendMessage" /\ pc[r] = "answered"
               PROVE  message[r] # None
    BY DEF Durable
  <2>1. ASSUME NEW c \in Conn, r \in Received(c) PROVE message[r] # None
    <3>1. Owner(c) \in UserId
      BY <2>1, SocketAssumption
         DEF IInv, TypeOK, SocketTypeOK, PushInv, LoggedIn, Owner
    <3>2. Reached(r, Owner(c))
      BY <2>1 DEF Reached, Got
    <3> QED
      BY <3>1, <3>2 DEF IInv, PushInv, Started
  <2>2. CASE r.op = "sendMessage" /\ pc[r] = "answered"
    BY <2>2 DEF IInv, HandlerInv, Saved
  <2> QED
    BY <2>1, <2>2
<1> QED
  BY Inductive, <1>1, PTL

\* Pushes reach addressees only, never the sender.
THEOREM PushedToAddressees == Spec => []DeliveredToAddressee
<1>1. IInv => DeliveredToAddressee
  <2> SUFFICES ASSUME IInv, NEW c \in Conn, NEW r \in Received(c)
               PROVE  Addressee(r, Owner(c))
    BY DEF DeliveredToAddressee, Addressee, Owner
  <2>1. r \in Request
    BY DEF IInv, TypeOK, SocketTypeOK, Received
  <2>2. Owner(c) \in UserId
    BY <2>1, SocketAssumption
       DEF IInv, TypeOK, SocketTypeOK, PushInv, LoggedIn, Owner
  <2>3. Reached(r, Owner(c))
    BY DEF Reached, Got
  <2> QED
    BY <2>1, <2>2, <2>3 DEF IInv, PushInv, AddressedOnly
<1> QED
  BY Inductive, <1>1, PTL

\* A member receives a text at most once over all its connections.
THEOREM PushedOnce == Spec => []AtMostOnce
<1>1. IInv => AtMostOnce
  BY DEF IInv, PushInv
<1> QED
  BY Inductive, <1>1, PTL
==============================================================================
