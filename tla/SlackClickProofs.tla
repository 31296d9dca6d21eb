-------------------------- MODULE SlackClickProofs --------------------------
(***************************************************************************)
(* What a page may rely on after it logged in and clicked, for any users,  *)
(* pages and requests, with failing statements and crashes at any point:   *)
(* the channel of an answered click joins the pair clicked and its         *)
(* messages are listed; a login after an answered one of that name finds   *)
(* its row; and where names are unique, a repeated click creates no second *)
(* channel and the selected channel has the page's user and another        *)
(* member.  Clicks that met an unnoticed read error (`cut`) are excepted   *)
(* where they have to be.                                                  *)
(***************************************************************************)
EXTENDS SlackServerProofs, FiniteSetTheorems

\* What the properties of logins and clicks are about.
clickVars == <<user, channel, message, membership, pageUser, cur, pc, sid, rid,
               chan, shown, before, cut>>

\* Statements before a request's message is written.
Unsaved == {"idle", "fetchSender", "fetchReceiver", "findChannel",
            "insertChannel", "insertMessage", "persist"}

\* Where a handler that has run all its statements can be.
Done == {"respond", "answered", "lost"}

\* The row of a page's user has the page's name.
PageRow == \A p \in Page : pageUser[p] # None => user[pageUser[p]] = PageName[p]

\* So has the row createUser found or inserted, and it answers with one.
LoginRow ==
    \A r \in Request : r.op = "createUser" =>
        /\ sid[r] # None => user[sid[r]] = PageName[r.page]
        /\ pc[r] \in Done => sid[r] # None

\* A page clicks only after its login (the id is in its URL).
ClickAfterLogin ==
    \A r \in Request :
        r.op = "createChannel" /\ pc[r] # "idle" => pageUser[r.page] # None

\* Users and the pages that stand for them.
LoginInv == PageRow /\ LoginRow /\ ClickAfterLogin

\* Some message was inserted into channel ch.
Written(ch) == \E m \in Request : message[m] # None /\ message[m].channel = ch

\* A request writes its message once.
Fresh == \A r \in Request : pc[r] \in Unsaved => message[r] = None

\* A channel has a message before it has a member.
MemberInv == \A ch \in ChannelId, u \in UserId : <<ch, u>> \in membership => Written(ch)

\* What createChannel knows of the channel it found or created.
ChannelInv ==
    \A r \in Request : r.op = "createChannel" =>
        /\ pc[r] \in {"insertSender", "insertReceiver"} =>
              message[r] # None /\ message[r].channel = chan[r] /\ shown[r] = {r}
        /\ pc[r] = "insertReceiver" => <<chan[r], sid[r]>> \in membership
        /\ pc[r] = "history" =>
              <<chan[r], sid[r]>> \in membership /\ <<chan[r], rid[r]>> \in membership

\* q is a click that was answered before r, a click on the same pair.
Repeats(q, r) ==
    /\ q \in before[r] /\ SamePair(q, r)
    /\ q.op = "createChannel" /\ r.op = "createChannel"

\* Such an r finds both ids and then the channel of q, so it never gets to
\* the inserts.
Avoids(r) ==
    /\ message[r] = None
    /\ pc[r] \in {"fetchSender", "fetchReceiver", "findChannel", "history", "respond"}
                   \cup EndPc
    /\ pc[r] \in {"fetchReceiver", "findChannel"} => sid[r] # None
    /\ pc[r] = "findChannel" => rid[r] # None

\* before[r] holds requests answered when r was sent.
BeforeInv == \A r \in Request : \A q \in before[r] : pc[q] = "answered"

\* A click on a pair whose earlier click was answered creates nothing.
RepeatInv ==
    UniqueNames => \A q \in Request, r \in Request \ cut : Repeats(q, r) => Avoids(r)

\* The channel a page has selected has two members, one of them its user.
UsableInv ==
    UniqueNames => \A p \in Page : cur[p] # None =>
        /\ <<cur[p], pageUser[p]>> \in membership
        /\ \E v \in UserId : v # pageUser[p] /\ <<cur[p], v>> \in membership

\* The inductive invariant, on top of IInv of SlackServerProofs.
ClickInv == LoginInv /\ Fresh /\ MemberInv /\ ChannelInv /\ ClickSelectsPair
            /\ BeforeInv /\ LoginOnce /\ RepeatInv /\ UsableInv

-----------------------------------------------------------------------------
\* Pushes and the life of connections do not touch any of it: the heartbeat's
\* upsert finds the row of the page's user.
LEMMA AsideStep ==
    ASSUME TypeOK, LoginInv,
           \/ SocketStep \/ UNCHANGED vars
           \/ \E r \in Request : PushLookup(r) \/ PushEmit(r)
    PROVE  UNCHANGED clickVars
<1> USE DEF clickVars, dbVars, pageVars, handlerVars
<1>1. ASSUME NEW r \in Request, PushLookup(r) \/ PushEmit(r)
      PROVE  UNCHANGED clickVars
  BY <1>1 DEF PushLookup, PushEmit
<1>2. CASE SocketStep
  <2>1. UNCHANGED <<cur, pc, sid, rid, chan, shown, before, cut>>
    BY <1>2 DEF SocketStep, QuietHandlers
  <2>2. PICK c \in Conn : ConnStep(c)
    BY <1>2 DEF SocketStep
  <2>3. CASE Heartbeat(c)
    <3> DEFINE p == ConnPage[c]
    <3>1. p \in Page
      BY SocketAssumption
    <3>2. CASE UNCHANGED dbVars
      BY <2>1, <2>3, <3>2 DEF Heartbeat
    <3>3. CASE UpsertUser(pageUser[p], PageName[p])
      <4>1. user' = [user EXCEPT ![pageUser[p]] =
                        IF user[pageUser[p]] = None THEN PageName[p] ELSE user[pageUser[p]]]
        BY <3>3 DEF UpsertUser
      <4>2. pageUser[p] \in UserId => user[pageUser[p]] # None
        BY <3>1, DbAssumption, SocketAssumption DEF LoginInv, PageRow
      <4>3. user' = user
        BY <4>1, <4>2 DEF TypeOK, DbTypeOK
      <4> QED
        BY <2>1, <2>3, <3>3, <4>3 DEF Heartbeat, UpsertUser
    <3> QED
      BY <2>3, <3>2, <3>3 DEF Heartbeat
  <2>4. CASE Connect(c) \/ Beat(c) \/ Stall(c) \/ Disconnect(c)
    BY <2>1, <2>4 DEF Connect, Beat, Stall, Disconnect
  <2> QED
    BY <2>2, <2>3, <2>4 DEF ConnStep
<1>3. CASE UNCHANGED vars
  BY <1>3 DEF vars
<1> QED
  BY <1>1, <1>2, <1>3

\* Logging in: only createUser writes table user, and it adds a row.
LEMMA LoginStep ==
    ASSUME TypeOK, OpPc, LoginInv, [Next]_vars
    PROVE  LoginInv'
<1> USE DbAssumption, SocketAssumption, RequestAssumption
<1> USE DEF TypeOK, DbTypeOK, SocketTypeOK, dbVars, socketVars, pageVars, Goto,
            OpPc, UserPc, ChannelPc, MessagePc, LoginInv,
            PageRow, LoginRow, ClickAfterLogin, Done
<1>1. ASSUME NEW r \in Request, Send(r) PROVE LoginInv'
  <2>1. PageRow'
    BY <1>1 DEF Send
  <2>2. LoginRow'
    BY <1>1 DEF Send
  <2>3. ClickAfterLogin'
    BY <1>1 DEF Send
  <2> QED
    BY <2>1, <2>2, <2>3
<1>2. ASSUME NEW r \in Request, FetchUser(r) PROVE LoginInv'
  <2>1. PageRow'
    BY <1>2 DEF FetchUser, IdsOf
  <2>2. LoginRow'
    BY <1>2 DEF FetchUser, IdsOf
  <2>3. ClickAfterLogin'
    BY <1>2 DEF FetchUser, IdsOf
  <2> QED
    BY <2>1, <2>2, <2>3
<1>3. ASSUME NEW r \in Request, NewUser(r) PROVE LoginInv'
  <2>1. PICK u \in UserId : InsertUser(u, PageName[r.page]) /\ sid' = [sid EXCEPT ![r] = u]
    BY <1>3 DEF NewUser
  <2>2. /\ user[u] = None /\ user' = [user EXCEPT ![u] = PageName[r.page]]
        /\ PageName[r.page] # None /\ r.page \in Page
    BY <2>1 DEF InsertUser
  <2>3. pc' = [pc EXCEPT ![r] = "respond"] /\ pageUser' = pageUser /\ r.op = "createUser"
    BY <1>3 DEF NewUser
  <2>5. \A p \in Page : pageUser'[p] # None => user'[pageUser'[p]] = PageName[p]
    BY <2>2, <2>3
  <2>6. ASSUME NEW q \in Request, q.op = "createUser"
        PROVE  /\ sid'[q] # None => user'[sid'[q]] = PageName[q.page]
               /\ pc'[q] \in Done => sid'[q] # None
    <3>1. CASE q = r
      BY <2>1, <2>2, <2>3, <3>1
    <3>2. CASE q # r
      <4>1. sid'[q] = sid[q] /\ pc'[q] = pc[q]
        BY <2>1, <2>3, <3>2
      <4>2. sid[q] # None => user[sid[q]] = PageName[q.page] /\ q.page \in Page
        BY <2>6
      <4> QED
        BY <2>2, <2>6, <4>1, <4>2
    <3> QED
      BY <3>1, <3>2
  <2>7. \A q \in Request :
          q.op = "createChannel" /\ pc'[q] # "idle" => pageUser'[q.page] # None
    BY <2>3
  <2> QED
    BY <2>5, <2>6, <2>7
<1>4. ASSUME NEW r \in Request, FetchSender(r) PROVE LoginInv'
  BY <1>4 DEF FetchSender, ScannedIds, IdsOf
<1>5. ASSUME NEW r \in Request, FetchReceiver(r) PROVE LoginInv'
  BY <1>5 DEF FetchReceiver, ScannedIds, IdsOf
<1>6. ASSUME NEW r \in Request, FindChannel(r) PROVE LoginInv'
  BY <1>6 DEF FindChannel
<1>7. ASSUME NEW r \in Request, NewChannel(r) PROVE LoginInv'
  BY <1>7 DEF NewChannel, InsertChannel
<1>8. ASSUME NEW r \in Request, NewChannelMessage(r) PROVE LoginInv'
  BY <1>8 DEF NewChannelMessage, InsertMessage, UserExists, Message
<1>9. ASSUME NEW r \in Request, NewSenderMembership(r) PROVE LoginInv'
  BY <1>9 DEF NewSenderMembership, InsertMembership, UserExists
<1>10. ASSUME NEW r \in Request, NewReceiverMembership(r) PROVE LoginInv'
  BY <1>10 DEF NewReceiverMembership, InsertMembership, UserExists
<1>11. ASSUME NEW r \in Request, FetchHistory(r) PROVE LoginInv'
  BY <1>11 DEF FetchHistory
<1>12. ASSUME NEW r \in Request, Persist(r) PROVE LoginInv'
  BY <1>12 DEF Persist, InsertMessage, UserExists, Message
<1>13. ASSUME NEW r \in Request, FetchMembers(r) PROVE LoginInv'
  BY <1>13 DEF FetchMembers
<1>14. ASSUME NEW r \in Request, Respond(r) PROVE LoginInv'
  BY <1>14 DEF Respond
<1>15. ASSUME NEW r \in Request, LoseResponse(r) PROVE LoginInv'
  BY <1>15 DEF LoseResponse
<1>16. ASSUME NEW r \in Request, Fail(r) PROVE LoginInv'
  BY <1>16 DEF Fail, DbPc
<1>17. CASE Crash
  <2>1. PageRow'
    BY <1>17 DEF Crash, SocketsCrash, Running, DbPc
  <2>2. LoginRow'
    BY <1>17 DEF Crash, SocketsCrash, Running, DbPc
  <2>3. ClickAfterLogin'
    BY <1>17 DEF Crash, SocketsCrash, Running, DbPc
  <2> QED
    BY <2>1, <2>2, <2>3
<1>18. CASE UNCHANGED clickVars
  BY <1>18 DEF clickVars
<1> QED
  BY <1>1, <1>2, <1>3, <1>4, <1>5, <1>6, <1>7, <1>8, <1>9, <1>10, <1>11,
     <1>12, <1>13, <1>14, <1>15, <1>16, <1>17, <1>18, AsideStep
     DEF Next, Handle, CreateUserStep, CreateChannelStep, SendMessageStep, Push

\* Users, memberships and messages are never changed or removed, no page logs
\* in twice and a read error is not forgotten.
Grows ==
    /\ \A u \in UserId : user[u] # None => user'[u] = user[u]
    /\ membership \subseteq membership'
    /\ \A r \in Request : message[r] # None => message'[r] = message[r]
    /\ \A p \in Page : pageUser[p] # None => pageUser'[p] = pageUser[p]
    /\ cut \subseteq cut'

\* Every step of handlers, sockets and crashes only adds rows.
LEMMA StepGrows ==
    ASSUME TypeOK, OpPc, LoginInv, Fresh, [Next]_vars
    PROVE  Grows
<1> USE DbAssumption, SocketAssumption, RequestAssumption
<1> USE DEF TypeOK, DbTypeOK, SocketTypeOK, dbVars, socketVars, pageVars, Goto,
            OpPc, UserPc, ChannelPc, MessagePc, Grows, Fresh, Unsaved
<1>1. ASSUME NEW r \in Request, Send(r) PROVE Grows
  BY <1>1 DEF Send
<1>2. ASSUME NEW r \in Request, FetchUser(r) PROVE Grows
  BY <1>2 DEF FetchUser, IdsOf
<1>3. ASSUME NEW r \in Request, NewUser(r) PROVE Grows
  BY <1>3 DEF NewUser, InsertUser
<1>4. ASSUME NEW r \in Request, FetchSender(r) PROVE Grows
  BY <1>4 DEF FetchSender, ScannedIds, IdsOf
<1>5. ASSUME NEW r \in Request, FetchReceiver(r) PROVE Grows
  BY <1>5 DEF FetchReceiver, ScannedIds, IdsOf
<1>6. ASSUME NEW r \in Request, FindChannel(r) PROVE Grows
  BY <1>6 DEF FindChannel, ChannelsBetween
<1>7. ASSUME NEW r \in Request, NewChannel(r) PROVE Grows
  BY <1>7 DEF NewChannel, InsertChannel
<1>8. ASSUME NEW r \in Request, NewChannelMessage(r) PROVE Grows
  BY <1>8 DEF NewChannelMessage, InsertMessage, UserExists, Message
<1>9. ASSUME NEW r \in Request, NewSenderMembership(r) PROVE Grows
  BY <1>9 DEF NewSenderMembership, InsertMembership, UserExists
<1>10. ASSUME NEW r \in Request, NewReceiverMembership(r) PROVE Grows
  BY <1>10 DEF NewReceiverMembership, InsertMembership, UserExists
<1>11. ASSUME NEW r \in Request, FetchHistory(r) PROVE Grows
  BY <1>11 DEF FetchHistory
<1>12. ASSUME NEW r \in Request, Persist(r) PROVE Grows
  BY <1>12 DEF Persist, InsertMessage, UserExists, Message
<1>13. ASSUME NEW r \in Request, FetchMembers(r) PROVE Grows
  BY <1>13 DEF FetchMembers
<1>14. ASSUME NEW r \in Request, Respond(r) PROVE Grows
  BY <1>14 DEF Respond
<1>15. ASSUME NEW r \in Request, LoseResponse(r) PROVE Grows
  BY <1>15 DEF LoseResponse
<1>16. ASSUME NEW r \in Request, Fail(r) PROVE Grows
  BY <1>16 DEF Fail, DbPc
<1>17. CASE Crash
  BY <1>17 DEF Crash, SocketsCrash, Running
<1>18. CASE UNCHANGED clickVars
  BY <1>18 DEF clickVars
<1> QED
  BY <1>1, <1>2, <1>3, <1>4, <1>5, <1>6, <1>7, <1>8, <1>9, <1>10, <1>11,
     <1>12, <1>13, <1>14, <1>15, <1>16, <1>17, <1>18, AsideStep
     DEF Next, Handle, CreateUserStep, CreateChannelStep, SendMessageStep, Push

\* Names that are unique now have been so before.
LEMMA UniqueBefore ==
    ASSUME Grows, UniqueNames'
    PROVE  UniqueNames
  BY DEF Grows, UniqueNames

\* A message is written by the request that leaves Unsaved.
LEMMA FreshStep ==
    ASSUME TypeOK, OpPc, LoginInv, Fresh, [Next]_vars
    PROVE  Fresh'
<1> USE DbAssumption, SocketAssumption, RequestAssumption
<1> USE DEF TypeOK, DbTypeOK, SocketTypeOK, dbVars, socketVars, pageVars, Goto,
            OpPc, UserPc, ChannelPc, MessagePc, Fresh, Unsaved
<1>1. ASSUME NEW r \in Request, Send(r) PROVE Fresh'
  BY <1>1 DEF Send
<1>2. ASSUME NEW r \in Request, FetchUser(r) PROVE Fresh'
  BY <1>2 DEF FetchUser, IdsOf
<1>3. ASSUME NEW r \in Request, NewUser(r) PROVE Fresh'
  BY <1>3 DEF NewUser, InsertUser
<1>4. ASSUME NEW r \in Request, FetchSender(r) PROVE Fresh'
  BY <1>4 DEF FetchSender, ScannedIds, IdsOf
<1>5. ASSUME NEW r \in Request, FetchReceiver(r) PROVE Fresh'
  BY <1>5 DEF FetchReceiver, ScannedIds, IdsOf
<1>6. ASSUME NEW r \in Request, FindChannel(r) PROVE Fresh'
  BY <1>6 DEF FindChannel, ChannelsBetween
<1>7. ASSUME NEW r \in Request, NewChannel(r) PROVE Fresh'
  BY <1>7 DEF NewChannel, InsertChannel
<1>8. ASSUME NEW r \in Request, NewChannelMessage(r) PROVE Fresh'
  BY <1>8 DEF NewChannelMessage, InsertMessage, UserExists, Message
<1>9. ASSUME NEW r \in Request, NewSenderMembership(r) PROVE Fresh'
  BY <1>9 DEF NewSenderMembership, InsertMembership, UserExists
<1>10. ASSUME NEW r \in Request, NewReceiverMembership(r) PROVE Fresh'
  BY <1>10 DEF NewReceiverMembership, InsertMembership, UserExists
<1>11. ASSUME NEW r \in Request, FetchHistory(r) PROVE Fresh'
  BY <1>11 DEF FetchHistory
<1>12. ASSUME NEW r \in Request, Persist(r) PROVE Fresh'
  BY <1>12 DEF Persist, InsertMessage, UserExists, Message
<1>13. ASSUME NEW r \in Request, FetchMembers(r) PROVE Fresh'
  BY <1>13 DEF FetchMembers
<1>14. ASSUME NEW r \in Request, Respond(r) PROVE Fresh'
  BY <1>14 DEF Respond
<1>15. ASSUME NEW r \in Request, LoseResponse(r) PROVE Fresh'
  BY <1>15 DEF LoseResponse
<1>16. ASSUME NEW r \in Request, Fail(r) PROVE Fresh'
  BY <1>16 DEF Fail, DbPc
<1>17. CASE Crash
  BY <1>17 DEF Crash, SocketsCrash, Running
<1>18. CASE UNCHANGED clickVars
  BY <1>18 DEF clickVars
<1> QED
  BY <1>1, <1>2, <1>3, <1>4, <1>5, <1>6, <1>7, <1>8, <1>9, <1>10, <1>11,
     <1>12, <1>13, <1>14, <1>15, <1>16, <1>17, <1>18, AsideStep
     DEF Next, Handle, CreateUserStep, CreateChannelStep, SendMessageStep, Push

\* Members are entered after the message.
LEMMA MemberStep ==
    ASSUME TypeOK, OpPc, LoginInv, Fresh, MemberInv, ChannelInv, [Next]_vars
    PROVE  MemberInv'
<1>1. \A ch \in ChannelId : Written(ch) => Written(ch)'
  BY StepGrows, Zenon DEF Written, Grows
<1>2. ASSUME UNCHANGED membership PROVE MemberInv'
  BY <1>1, <1>2 DEF MemberInv
<1>3. ASSUME NEW r \in Request, NEW u \in UserId, InsertMembership(chan[r], u),
             pc[r] \in {"insertSender", "insertReceiver"}
      PROVE  MemberInv'
  <2>1. r.op = "createChannel"
    BY <1>3 DEF OpPc, ChannelPc
  <2>2. Written(chan[r])
    BY <1>3, <2>1 DEF ChannelInv, Written
  <2>3. membership' = membership \cup {<<chan[r], u>>}
    BY <1>3 DEF InsertMembership
  <2> QED
    BY <1>1, <2>2, <2>3, Zenon DEF MemberInv
<1>4. ASSUME NEW r \in Request, NewSenderMembership(r) \/ NewReceiverMembership(r)
      PROVE  MemberInv'
  BY <1>3, <1>4 DEF NewSenderMembership, NewReceiverMembership, InsertMembership, UserExists
<1>5. ASSUME NEW r \in Request,
             \/ Send(r) \/ FetchUser(r) \/ NewUser(r) \/ FetchSender(r) \/ FetchReceiver(r)
             \/ FindChannel(r) \/ NewChannel(r) \/ NewChannelMessage(r) \/ FetchHistory(r)
             \/ Persist(r) \/ FetchMembers(r) \/ Respond(r) \/ LoseResponse(r) \/ Fail(r)
      PROVE  UNCHANGED membership
  BY <1>5 DEF Send, FetchUser, NewUser, InsertUser, FetchSender, FetchReceiver, FindChannel,
     NewChannel, InsertChannel, NewChannelMessage, InsertMessage, FetchHistory, Persist,
     FetchMembers, Respond, LoseResponse, Fail, dbVars
<1>6. Crash => UNCHANGED membership
  BY DEF Crash, SocketsCrash, dbVars
<1>7. UNCHANGED clickVars => UNCHANGED membership
  BY DEF clickVars
<1> QED
  BY <1>2, <1>4, <1>5, <1>6, <1>7, AsideStep
     DEF Next, Handle, CreateUserStep, CreateChannelStep, SendMessageStep, Push

\* createChannel's knowledge.
LEMMA ChannelStep ==
    ASSUME TypeOK, OpPc, LoginInv, Fresh, ChannelInv, [Next]_vars
    PROVE  ChannelInv'
<1> USE DbAssumption, SocketAssumption, RequestAssumption
<1> USE DEF TypeOK, DbTypeOK, SocketTypeOK, dbVars, socketVars, pageVars, Goto,
            OpPc, UserPc, ChannelPc, MessagePc, ChannelInv, Fresh, Unsaved
<1>1. ASSUME NEW r \in Request, Send(r) PROVE ChannelInv'
  BY <1>1 DEF Send
<1>2. ASSUME NEW r \in Request, FetchUser(r) PROVE ChannelInv'
  BY <1>2 DEF FetchUser, IdsOf
<1>3. ASSUME NEW r \in Request, NewUser(r) PROVE ChannelInv'
  BY <1>3 DEF NewUser, InsertUser
<1>4. ASSUME NEW r \in Request, FetchSender(r) PROVE ChannelInv'
  BY <1>4 DEF FetchSender, ScannedIds, IdsOf
<1>5. ASSUME NEW r \in Request, FetchReceiver(r) PROVE ChannelInv'
  BY <1>5 DEF FetchReceiver, ScannedIds, IdsOf
<1>6. ASSUME NEW r \in Request, FindChannel(r) PROVE ChannelInv'
  <2>1. CASE pc' = [pc EXCEPT ![r] = "insertChannel"] /\ UNCHANGED chan
    BY <1>6, <2>1 DEF FindChannel
  <2>2. ASSUME NEW ch \in ChannelsBetween(sid[r], rid[r]),
               pc' = [pc EXCEPT ![r] = "history"], chan' = [chan EXCEPT ![r] = ch]
        PROVE  ChannelInv'
    <3>1. <<ch, sid[r]>> \in membership /\ <<ch, rid[r]>> \in membership
      BY <2>2 DEF ChannelsBetween
    <3> QED
      BY <1>6, <2>2, <3>1 DEF FindChannel
  <2> QED
    BY <1>6, <2>1, <2>2 DEF FindChannel
<1>7. ASSUME NEW r \in Request, NewChannel(r) PROVE ChannelInv'
  BY <1>7 DEF NewChannel, InsertChannel
<1>8. ASSUME NEW r \in Request, NewChannelMessage(r) PROVE ChannelInv'
  BY <1>8 DEF NewChannelMessage, InsertMessage, UserExists, Message
<1>9. ASSUME NEW r \in Request, NewSenderMembership(r) PROVE ChannelInv'
  BY <1>9 DEF NewSenderMembership, InsertMembership, UserExists
<1>10. ASSUME NEW r \in Request, NewReceiverMembership(r) PROVE ChannelInv'
  BY <1>10 DEF NewReceiverMembership, InsertMembership, UserExists
<1>11. ASSUME NEW r \in Request, FetchHistory(r) PROVE ChannelInv'
  BY <1>11 DEF FetchHistory
<1>12. ASSUME NEW r \in Request, Persist(r) PROVE ChannelInv'
  BY <1>12 DEF Persist, InsertMessage, UserExists, Message
<1>13. ASSUME NEW r \in Request, FetchMembers(r) PROVE ChannelInv'
  BY <1>13 DEF FetchMembers
<1>14. ASSUME NEW r \in Request, Respond(r) PROVE ChannelInv'
  BY <1>14 DEF Respond
<1>15. ASSUME NEW r \in Request, LoseResponse(r) PROVE ChannelInv'
  BY <1>15 DEF LoseResponse
<1>16. ASSUME NEW r \in Request, Fail(r) PROVE ChannelInv'
  BY <1>16 DEF Fail, DbPc
<1>17. CASE Crash
  BY <1>17 DEF Crash, SocketsCrash, Running
<1>18. CASE UNCHANGED clickVars
  BY <1>18 DEF clickVars
<1> QED
  BY <1>1, <1>2, <1>3, <1>4, <1>5, <1>6, <1>7, <1>8, <1>9, <1>10, <1>11,
     <1>12, <1>13, <1>14, <1>15, <1>16, <1>17, <1>18, AsideStep
     DEF Next, Handle, CreateUserStep, CreateChannelStep, SendMessageStep, Push

\* How a click gets its answer.
LEMMA DoneStep ==
    ASSUME TypeOK, OpPc, LoginInv, [Next]_vars,
           NEW q \in Request, q.op = "createChannel", pc'[q] \in Done
    PROVE  \/ /\ pc[q] \in Done
              /\ sid'[q] = sid[q] /\ rid'[q] = rid[q]
              /\ chan'[q] = chan[q] /\ shown'[q] = shown[q]
              /\ q \in cut => q \in cut'
           \/ NewReceiverMembership(q) \/ FetchHistory(q)
<1> USE DbAssumption, SocketAssumption, RequestAssumption
<1> USE DEF TypeOK, DbTypeOK, SocketTypeOK, dbVars, socketVars, pageVars, Goto,
            OpPc, UserPc, ChannelPc, MessagePc, Done
<1> DEFINE Goal == \/ /\ pc[q] \in Done
                      /\ sid'[q] = sid[q] /\ rid'[q] = rid[q]
                      /\ chan'[q] = chan[q] /\ shown'[q] = shown[q]
                      /\ q \in cut => q \in cut'
                   \/ NewReceiverMembership(q) \/ FetchHistory(q)
<1>1. ASSUME NEW r \in Request, Send(r) PROVE Goal
  BY <1>1 DEF Send
<1>2. ASSUME NEW r \in Request, FetchUser(r) PROVE Goal
  BY <1>2 DEF FetchUser, IdsOf
<1>3. ASSUME NEW r \in Request, NewUser(r) PROVE Goal
  BY <1>3 DEF NewUser, InsertUser
<1>4. ASSUME NEW r \in Request, FetchSender(r) PROVE Goal
  BY <1>4 DEF FetchSender, ScannedIds, IdsOf
<1>5. ASSUME NEW r \in Request, FetchReceiver(r) PROVE Goal
  BY <1>5 DEF FetchReceiver, ScannedIds, IdsOf
<1>6. ASSUME NEW r \in Request, FindChannel(r) PROVE Goal
  BY <1>6 DEF FindChannel
<1>7. ASSUME NEW r \in Request, NewChannel(r) PROVE Goal
  BY <1>7 DEF NewChannel, InsertChannel
<1>8. ASSUME NEW r \in Request, NewChannelMessage(r) PROVE Goal
  BY <1>8 DEF NewChannelMessage, InsertMessage, UserExists, Message
<1>9. ASSUME NEW r \in Request, NewSenderMembership(r) PROVE Goal
  BY <1>9 DEF NewSenderMembership, InsertMembership, UserExists
<1>10. ASSUME NEW r \in Request, NewReceiverMembership(r) PROVE Goal
  BY <1>10 DEF NewReceiverMembership, InsertMembership, UserExists
<1>11. ASSUME NEW r \in Request, FetchHistory(r) PROVE Goal
  BY <1>11 DEF FetchHistory
<1>12. ASSUME NEW r \in Request, Persist(r) PROVE Goal
  BY <1>12 DEF Persist, InsertMessage, UserExists, Message
<1>13. ASSUME NEW r \in Request, FetchMembers(r) PROVE Goal
  BY <1>13 DEF FetchMembers
<1>14. ASSUME NEW r \in Request, Respond(r) PROVE Goal
  BY <1>14 DEF Respond
<1>15. ASSUME NEW r \in Request, LoseResponse(r) PROVE Goal
  BY <1>15 DEF LoseResponse
<1>16. ASSUME NEW r \in Request, Fail(r) PROVE Goal
  BY <1>16 DEF Fail, DbPc
<1>17. CASE Crash
  BY <1>17 DEF Crash, SocketsCrash, Running
<1>18. CASE UNCHANGED clickVars
  BY <1>18 DEF clickVars
<1> QED
  BY <1>1, <1>2, <1>3, <1>4, <1>5, <1>6, <1>7, <1>8, <1>9, <1>10, <1>11,
     <1>12, <1>13, <1>14, <1>15, <1>16, <1>17, <1>18, AsideStep
     DEF Next, Handle, CreateUserStep, CreateChannelStep, SendMessageStep, Push

\* An answer lists messages of the channel of the pair.
LEMMA ClickStep ==
    ASSUME TypeOK, OpPc, LoginInv, Fresh, MemberInv, ChannelInv, ClickSelectsPair,
           [Next]_vars
    PROVE  ClickSelectsPair'
<1> SUFFICES ASSUME NEW r \in Request, r.op = "createChannel", pc'[r] \in Done
             PROVE  /\ r \notin cut' => shown'[r] # {}
                    /\ \A m \in shown'[r] : message'[m] # None
                                            /\ message'[m].channel = chan'[r]
                    /\ <<chan'[r], sid'[r]>> \in membership'
                    /\ <<chan'[r], rid'[r]>> \in membership'
  BY DEF ClickSelectsPair, Done
<1>1. membership \subseteq membership'
      /\ \A m \in Request : message[m] # None => message'[m] = message[m]
  BY StepGrows DEF Grows
<1>2. CASE /\ pc[r] \in Done
           /\ sid'[r] = sid[r] /\ rid'[r] = rid[r]
           /\ chan'[r] = chan[r] /\ shown'[r] = shown[r]
           /\ r \in cut => r \in cut'
  <2>1. /\ r \notin cut => shown[r] # {}
        /\ shown[r] \subseteq Request
        /\ \A m \in shown[r] : message[m] # None /\ message[m].channel = chan[r]
        /\ <<chan[r], sid[r]>> \in membership /\ <<chan[r], rid[r]>> \in membership
    BY <1>2 DEF ClickSelectsPair, Done, TypeOK
  <2> QED
    BY <1>1, <1>2, <2>1
<1>3. CASE NewReceiverMembership(r)
  <2>1. /\ message[r] # None /\ message[r].channel = chan[r] /\ shown[r] = {r}
        /\ <<chan[r], sid[r]>> \in membership
    BY <1>3 DEF NewReceiverMembership, ChannelInv
  <2>2. /\ membership' = membership \cup {<<chan[r], rid[r]>>} /\ message' = message
        /\ UNCHANGED <<chan, sid, rid, shown>>
    BY <1>3 DEF NewReceiverMembership, InsertMembership
  <2> QED
    BY <2>1, <2>2
<1>4. CASE FetchHistory(r)
  <2>1. /\ UNCHANGED <<message, membership, chan, sid, rid>>
        /\ <<chan[r], sid[r]>> \in membership /\ <<chan[r], rid[r]>> \in membership
    BY <1>4 DEF FetchHistory, ChannelInv, dbVars
  <2>2. PICK h \in Histories(chan[r]) :
          \/ shown' = [shown EXCEPT ![r] = h]
          \/ /\ \E part \in SUBSET h : shown' = [shown EXCEPT ![r] = part]
             /\ cut' = cut \cup {r}
    BY <1>4 DEF FetchHistory
  <2>3. shown'[r] \subseteq h /\ (r \notin cut' => shown'[r] = h)
    BY <2>2 DEF TypeOK
  <2>4. MessagesIn(chan[r]) # {}
    <3>1. chan[r] \in ChannelId /\ sid[r] \in UserId
      BY <2>1 DEF TypeOK, DbTypeOK
    <3> QED
      BY <2>1, <3>1 DEF MemberInv, Written, MessagesIn
  <2>5. h \subseteq MessagesIn(chan[r]) /\ h # {}
    <3>1. CASE h = MessagesIn(chan[r])
      BY <2>4, <3>1
    <3>2. CASE h \in SUBSET MessagesIn(chan[r]) /\ Cardinality(h) = HistoryLimit
      <4>1. Cardinality({}) = 0 /\ HistoryLimit # 0
        BY FS_EmptySet, DbAssumption
      <4> QED
        BY <3>2, <4>1
    <3> QED
      BY <2>2, <3>1, <3>2 DEF Histories
  <2> QED
    BY <2>1, <2>3, <2>5 DEF MessagesIn
<1> QED
  BY <1>2, <1>3, <1>4, DoneStep

\* An answered request stays answered.
LEMMA BeforeStep ==
    ASSUME TypeOK, OpPc, LoginInv, BeforeInv, [Next]_vars
    PROVE  BeforeInv'
<1> USE DbAssumption, SocketAssumption, RequestAssumption
<1> USE DEF TypeOK, DbTypeOK, SocketTypeOK, dbVars, socketVars, pageVars, Goto,
            OpPc, UserPc, ChannelPc, MessagePc, BeforeInv
<1>1. ASSUME NEW r \in Request, Send(r) PROVE BeforeInv'
  BY <1>1 DEF Send
<1>2. ASSUME NEW r \in Request, FetchUser(r) PROVE BeforeInv'
  BY <1>2 DEF FetchUser, IdsOf
<1>3. ASSUME NEW r \in Request, NewUser(r) PROVE BeforeInv'
  BY <1>3 DEF NewUser, InsertUser
<1>4. ASSUME NEW r \in Request, FetchSender(r) PROVE BeforeInv'
  BY <1>4 DEF FetchSender, ScannedIds, IdsOf
<1>5. ASSUME NEW r \in Request, FetchReceiver(r) PROVE BeforeInv'
  BY <1>5 DEF FetchReceiver, ScannedIds, IdsOf
<1>6. ASSUME NEW r \in Request, FindChannel(r) PROVE BeforeInv'
  BY <1>6 DEF FindChannel, ChannelsBetween
<1>7. ASSUME NEW r \in Request, NewChannel(r) PROVE BeforeInv'
  BY <1>7 DEF NewChannel, InsertChannel
<1>8. ASSUME NEW r \in Request, NewChannelMessage(r) PROVE BeforeInv'
  BY <1>8 DEF NewChannelMessage, InsertMessage, UserExists, Message
<1>9. ASSUME NEW r \in Request, NewSenderMembership(r) PROVE BeforeInv'
  BY <1>9 DEF NewSenderMembership, InsertMembership, UserExists
<1>10. ASSUME NEW r \in Request, NewReceiverMembership(r) PROVE BeforeInv'
  BY <1>10 DEF NewReceiverMembership, InsertMembership, UserExists
<1>11. ASSUME NEW r \in Request, FetchHistory(r) PROVE BeforeInv'
  BY <1>11 DEF FetchHistory
<1>12. ASSUME NEW r \in Request, Persist(r) PROVE BeforeInv'
  BY <1>12 DEF Persist, InsertMessage, UserExists, Message
<1>13. ASSUME NEW r \in Request, FetchMembers(r) PROVE BeforeInv'
  BY <1>13 DEF FetchMembers
<1>14. ASSUME NEW r \in Request, Respond(r) PROVE BeforeInv'
  BY <1>14 DEF Respond
<1>15. ASSUME NEW r \in Request, LoseResponse(r) PROVE BeforeInv'
  BY <1>15 DEF LoseResponse
<1>16. ASSUME NEW r \in Request, Fail(r) PROVE BeforeInv'
  BY <1>16 DEF Fail, DbPc
<1>17. CASE Crash
  BY <1>17 DEF Crash, SocketsCrash, Running, DbPc
<1>18. CASE UNCHANGED clickVars
  BY <1>18 DEF clickVars
<1> QED
  BY <1>1, <1>2, <1>3, <1>4, <1>5, <1>6, <1>7, <1>8, <1>9, <1>10, <1>11,
     <1>12, <1>13, <1>14, <1>15, <1>16, <1>17, <1>18, AsideStep
     DEF Next, Handle, CreateUserStep, CreateChannelStep, SendMessageStep, Push

\* The requests answered before k was sent are fixed when it is sent.
LEMMA BeforeFixed ==
    ASSUME TypeOK, LoginInv, [Next]_vars, NEW k \in Request, ~Send(k)
    PROVE  before'[k] = before[k]
<1>1. ASSUME NEW r \in Request, r # k, Send(r) PROVE before'[k] = before[k]
  BY <1>1 DEF Send, TypeOK
<1>2. ASSUME NEW r \in Request, Handle(r) PROVE before' = before
  BY <1>2 DEF Handle, CreateUserStep, CreateChannelStep, SendMessageStep, FetchUser,
     NewUser, FetchSender, FetchReceiver, FindChannel, NewChannel, NewChannelMessage,
     NewSenderMembership, NewReceiverMembership, FetchHistory, Persist, FetchMembers,
     Respond, LoseResponse, Fail
<1>3. Crash => before' = before
  BY DEF Crash
<1>4. UNCHANGED clickVars => before' = before
  BY DEF clickVars
<1> QED
  BY <1>1, <1>2, <1>3, <1>4, AsideStep DEF Next, Push

\* Only a look-up that finds no row leads createUser to its insert.
LEMMA ToInsertUser ==
    ASSUME TypeOK, OpPc, LoginInv, [Next]_vars,
           NEW k \in Request, pc'[k] = "insertUser"
    PROVE  /\ pc[k] = "insertUser" \/ IdsOf(PageName[k.page]) = {}
           /\ ~Send(k)
<1> USE DEF TypeOK, Goto
<1>1. ASSUME NEW r \in Request, Send(r) PROVE pc[k] = "insertUser" /\ r # k
  BY <1>1 DEF Send
<1>2. ASSUME NEW r \in Request, FetchUser(r)
      PROVE  pc[k] = "insertUser" \/ IdsOf(PageName[k.page]) = {}
  BY <1>2 DEF FetchUser
<1>3. ASSUME NEW r \in Request, NewUser(r) \/ CreateChannelStep(r) \/ SendMessageStep(r)
             \/ Respond(r) \/ LoseResponse(r) \/ Fail(r)
      PROVE  pc[k] = "insertUser"
  BY <1>3 DEF CreateChannelStep, SendMessageStep, NewUser, FetchSender, FetchReceiver,
     FindChannel, NewChannel, NewChannelMessage, NewSenderMembership,
     NewReceiverMembership, FetchHistory, Persist, FetchMembers, Respond, LoseResponse, Fail
<1>4. Crash => pc[k] = "insertUser"
  BY DEF Crash
<1>5. UNCHANGED clickVars => pc[k] = "insertUser"
  BY DEF clickVars
<1> QED
  BY <1>1, <1>2, <1>3, <1>4, <1>5, AsideStep
     DEF Next, Handle, CreateUserStep, Push

\* A login after an answered one of the same name finds a row: the answered
\* one has found or inserted it, and rows are never removed.
LEMMA LoginOnceStep ==
    ASSUME TypeOK, OpPc, LoginInv, BeforeInv, LoginOnce, [Next]_vars
    PROVE  LoginOnce'
<1> SUFFICES ASSUME NEW k \in Request, NEW q \in before'[k], pc'[k] = "insertUser",
                    q.op = "createUser", k.op = "createUser",
                    PageName[q.page] = PageName[k.page]
             PROVE  FALSE
  BY DEF LoginOnce
<1>1. q \in before[k]
  BY ToInsertUser, BeforeFixed
<1>2. q \in Request /\ pc[q] = "answered"
  BY <1>1 DEF TypeOK, BeforeInv
<1>3. sid[q] \in UserId /\ user[sid[q]] = PageName[k.page]
  BY <1>2 DEF LoginInv, LoginRow, Done, TypeOK
<1>4. IdsOf(PageName[k.page]) # {}
  BY <1>3 DEF IdsOf
<1>5. pc[k] # "insertUser"
  BY <1>1 DEF LoginOnce
<1> QED
  BY <1>4, <1>5, ToInsertUser

\* Where names are unique, the ids of a pair with an answered click are
\* known, and so is a channel between them.
LEMMA RepeatIds ==
    ASSUME TypeOK, Names, ClickSelectsPair, BeforeInv,
           NEW q \in Request, NEW r \in Request, Repeats(q, r)
    PROVE  \E a, b \in UserId :
              /\ user[a] = PageName[r.page] /\ user[b] = r.to
              /\ ChannelsBetween(a, b) # {}
<1>1. /\ <<chan[q], sid[q]>> \in membership /\ <<chan[q], rid[q]>> \in membership
  BY DEF ClickSelectsPair, BeforeInv, Repeats
<1>2. chan[q] \in channel /\ sid[q] \in UserId /\ rid[q] \in UserId
  BY <1>1 DEF TypeOK, DbTypeOK
<1>3. user[sid[q]] = PageName[q.page] /\ user[rid[q]] = q.to
  BY <1>2, DbAssumption DEF Names, Repeats
<1>4. /\ ChannelsBetween(sid[q], rid[q]) # {}
      /\ ChannelsBetween(rid[q], sid[q]) # {}
  BY <1>1, <1>2 DEF ChannelsBetween
<1>5. \/ PageName[q.page] = PageName[r.page] /\ q.to = r.to
      \/ PageName[q.page] = r.to /\ q.to = PageName[r.page]
  BY DEF Repeats, SamePair
<1> QED
  BY <1>2, <1>3, <1>4, <1>5, Zenon

\* A repeated click avoids the inserts.
LEMMA RepeatStep ==
    ASSUME TypeOK, OpPc, Names, LoginInv, Fresh, ClickSelectsPair, BeforeInv, RepeatInv,
           [Next]_vars
    PROVE  RepeatInv'
<1> SUFFICES ASSUME UniqueNames', NEW q \in Request, NEW k \in Request, k \notin cut',
                    Repeats(q, k)'
             PROVE  Avoids(k)'
  BY DEF RepeatInv
<1>unq. UniqueNames
  BY StepGrows, UniqueBefore
<1>cut. k \notin cut
  BY StepGrows DEF Grows
<1>clk. k.op = "createChannel"
  BY DEF Repeats
<1>snd. ASSUME Send(k) PROVE Avoids(k)'
  <2>1. message'[k] = None
    BY <1>snd DEF Send, Fresh, Unsaved, dbVars
  <2>2. pc'[k] = "fetchSender"
    BY <1>clk, <1>snd DEF Send, Goto, TypeOK
  <2> QED
    BY <2>1, <2>2 DEF Avoids
<1>bef. ASSUME ~Send(k) PROVE before'[k] = before[k]
  BY <1>bef, BeforeFixed
<1> SUFFICES ASSUME ~Send(k) PROVE Avoids(k)'
  BY <1>snd
<1>rep. Repeats(q, k) /\ Avoids(k)
  BY <1>unq, <1>cut, <1>bef DEF Repeats, SamePair, RepeatInv
<1>ids. PICK a \in UserId, b \in UserId :
         /\ user[a] = PageName[k.page] /\ user[b] = k.to
         /\ ChannelsBetween(a, b) # {}
  BY <1>rep, RepeatIds
<1> USE DbAssumption, SocketAssumption, RequestAssumption
<1> USE DEF TypeOK, DbTypeOK, SocketTypeOK, dbVars, socketVars, pageVars, Goto,
            OpPc, UserPc, ChannelPc, MessagePc, Avoids, EndPc
<1>1. ASSUME NEW r \in Request, Send(r) PROVE Avoids(k)'
  BY <1>1, <1>rep DEF Send
<1>2. ASSUME NEW r \in Request, FetchUser(r) PROVE Avoids(k)'
  BY <1>2, <1>clk, <1>rep DEF FetchUser, IdsOf
<1>3. ASSUME NEW r \in Request, NewUser(r) PROVE Avoids(k)'
  BY <1>3, <1>clk, <1>rep DEF NewUser, InsertUser
<1>4. ASSUME NEW r \in Request, FetchSender(r) PROVE Avoids(k)'
  <2>1. CASE r = k
    <3>1. ScannedIds(PageName[k.page]) \subseteq UserId
      BY <1>ids DEF ScannedIds, IdsOf
    <3> QED
      BY <1>4, <1>rep, <2>1, <3>1 DEF FetchSender
  <2>2. CASE r # k
    BY <1>4, <1>rep, <2>2 DEF FetchSender
  <2> QED
    BY <2>1, <2>2
<1>5. ASSUME NEW r \in Request, FetchReceiver(r) PROVE Avoids(k)'
  <2>1. CASE r = k
    <3>1. ScannedIds(k.to) \subseteq UserId
      BY <1>ids DEF ScannedIds, IdsOf
    <3> QED
      BY <1>5, <1>rep, <2>1, <3>1 DEF FetchReceiver
  <2>2. CASE r # k
    BY <1>5, <1>rep, <2>2 DEF FetchReceiver
  <2> QED
    BY <2>1, <2>2
<1>6. ASSUME NEW r \in Request, FindChannel(r) PROVE Avoids(k)'
  <2>1. CASE r = k
    <3>1. sid[k] \in UserId /\ rid[k] \in UserId
      BY <1>6, <1>rep, <2>1 DEF FindChannel
    <3>2. user[sid[k]] = user[a] /\ user[rid[k]] = user[b]
      BY <1>clk, <1>ids, <3>1 DEF Names
    <3>3. user[a] # None /\ user[b] # None
      BY <1>ids
    <3>4. sid[k] = a /\ rid[k] = b
      BY <1>unq, <3>1, <3>2, <3>3 DEF UniqueNames
    <3>5. pc' = [pc EXCEPT ![k] = "history"] /\ message' = message
      BY <1>6, <1>ids, <2>1, <3>4 DEF FindChannel
    <3> QED
      BY <1>rep, <3>5
  <2>2. CASE r # k
    BY <1>6, <1>rep, <2>2 DEF FindChannel
  <2> QED
    BY <2>1, <2>2
<1>7. ASSUME NEW r \in Request, NewChannel(r) PROVE Avoids(k)'
  BY <1>7, <1>clk, <1>rep DEF NewChannel, InsertChannel
<1>8. ASSUME NEW r \in Request, NewChannelMessage(r) PROVE Avoids(k)'
  BY <1>8, <1>clk, <1>rep DEF NewChannelMessage, InsertMessage, UserExists, Message
<1>9. ASSUME NEW r \in Request, NewSenderMembership(r) PROVE Avoids(k)'
  BY <1>9, <1>clk, <1>rep DEF NewSenderMembership, InsertMembership, UserExists
<1>10. ASSUME NEW r \in Request, NewReceiverMembership(r) PROVE Avoids(k)'
  BY <1>10, <1>clk, <1>rep DEF NewReceiverMembership, InsertMembership, UserExists
<1>11. ASSUME NEW r \in Request, FetchHistory(r) PROVE Avoids(k)'
  BY <1>11, <1>clk, <1>rep DEF FetchHistory
<1>12. ASSUME NEW r \in Request, Persist(r) PROVE Avoids(k)'
  BY <1>12, <1>clk, <1>rep DEF Persist, InsertMessage, UserExists, Message
<1>13. ASSUME NEW r \in Request, FetchMembers(r) PROVE Avoids(k)'
  BY <1>13, <1>clk, <1>rep DEF FetchMembers
<1>14. ASSUME NEW r \in Request, Respond(r) PROVE Avoids(k)'
  BY <1>14, <1>clk, <1>rep DEF Respond
<1>15. ASSUME NEW r \in Request, LoseResponse(r) PROVE Avoids(k)'
  BY <1>15, <1>clk, <1>rep DEF LoseResponse
<1>16. ASSUME NEW r \in Request, Fail(r) PROVE Avoids(k)'
  BY <1>16, <1>clk, <1>rep DEF Fail, DbPc
<1>17. CASE Crash
  BY <1>17, <1>rep DEF Crash, SocketsCrash, Running, DbPc
<1>18. CASE UNCHANGED clickVars
  BY <1>18, <1>rep DEF clickVars
<1> QED
  BY <1>1, <1>2, <1>3, <1>4, <1>5, <1>6, <1>7, <1>8, <1>9, <1>10, <1>11,
     <1>12, <1>13, <1>14, <1>15, <1>16, <1>17, <1>18, AsideStep
     DEF Next, Handle, CreateUserStep, CreateChannelStep, SendMessageStep, Push

\* The page takes over the channel of an answer: its user and the receiver,
\* who has another name, are members.
LEMMA UsableStep ==
    ASSUME TypeOK, OpPc, Names, LoginInv, Fresh, ClickSelectsPair, UsableInv, [Next]_vars
    PROVE  UsableInv'
<1> SUFFICES ASSUME UniqueNames', NEW p \in Page, cur'[p] # None
             PROVE  /\ <<cur'[p], pageUser'[p]>> \in membership'
                    /\ \E v \in UserId : v # pageUser'[p] /\ <<cur'[p], v>> \in membership'
  BY DEF UsableInv
<1>unq. UniqueNames
  BY StepGrows, UniqueBefore
<1>1. /\ membership \subseteq membership'
      /\ pageUser[p] # None => pageUser'[p] = pageUser[p]
  BY StepGrows DEF Grows
<1>2. CASE cur'[p] = cur[p]
  <2>1. /\ <<cur[p], pageUser[p]>> \in membership
        /\ \E v \in UserId : v # pageUser[p] /\ <<cur[p], v>> \in membership
    BY <1>unq, <1>2 DEF UsableInv
  <2>2. pageUser[p] # None
    BY <2>1, DbAssumption DEF TypeOK, DbTypeOK
  <2> QED
    BY <1>1, <1>2, <2>1, <2>2
<1>3. ASSUME NEW r \in Request, Respond(r), cur'[p] # cur[p]
      PROVE  /\ <<cur'[p], pageUser'[p]>> \in membership'
             /\ \E v \in UserId : v # pageUser'[p] /\ <<cur'[p], v>> \in membership'
  <2>1. /\ r.op = "createChannel" /\ pc[r] = "respond" /\ p = r.page
        /\ cur'[p] = chan[r]
    BY <1>3 DEF Respond, TypeOK
  <2>2. <<chan[r], sid[r]>> \in membership /\ <<chan[r], rid[r]>> \in membership
    BY <2>1 DEF ClickSelectsPair
  <2>3. sid[r] \in UserId /\ rid[r] \in UserId
    BY <2>2 DEF TypeOK, DbTypeOK
  <2>4. user[sid[r]] = PageName[p] /\ user[rid[r]] = r.to /\ r.to # PageName[p]
    BY <2>1, <2>3, DbAssumption, RequestAssumption DEF Names
  <2>5. pageUser[p] # None /\ user[pageUser[p]] = PageName[p] /\ pageUser[p] \in UserId
    BY <2>1 DEF LoginInv, ClickAfterLogin, PageRow, TypeOK, SocketTypeOK
  <2>6. PageName[p] # None
    BY DbAssumption, SocketAssumption
  <2>7. pageUser[p] = sid[r]
    BY <1>unq, <2>3, <2>4, <2>5, <2>6 DEF UniqueNames
  <2> QED
    BY <1>1, <2>1, <2>2, <2>3, <2>4, <2>5, <2>7
<1>4. ASSUME NEW r \in Request, Send(r) \/ (Handle(r) /\ ~Respond(r))
      PROVE  cur' = cur
  BY <1>4 DEF Send, Handle, CreateUserStep, CreateChannelStep, SendMessageStep, FetchUser,
     NewUser, FetchSender, FetchReceiver, FindChannel, NewChannel, NewChannelMessage,
     NewSenderMembership, NewReceiverMembership, FetchHistory, Persist, FetchMembers,
     LoseResponse, Fail
<1>5. Crash => cur' = cur
  BY DEF Crash
<1>6. UNCHANGED clickVars => cur' = cur
  BY DEF clickVars
<1> QED
  BY <1>2, <1>3, <1>4, <1>5, <1>6, AsideStep DEF Next, Push

-----------------------------------------------------------------------------
\* Nothing has been sent, and seeded pages have their users' ids.
LEMMA ClickInit == Init => ClickInv
<1> SUFFICES ASSUME Init PROVE ClickInv
  OBVIOUS
<1> USE DbAssumption, SocketAssumption DEF Init, DbInit, SocketInit
<1>1. LoginOnce
  BY DEF LoginOnce
<1>2. PageRow
  BY DEF PageRow, IdsOf
<1>3. LoginRow /\ ClickAfterLogin
  BY DEF LoginRow, ClickAfterLogin, Done
<1>4. Fresh /\ MemberInv
  BY DEF Fresh, MemberInv
<1>5. ChannelInv /\ ClickSelectsPair
  BY DEF ChannelInv, ClickSelectsPair
<1>6. BeforeInv /\ RepeatInv /\ UsableInv
  BY DEF BeforeInv, RepeatInv, Repeats, UsableInv
<1> QED
  BY <1>1, <1>2, <1>3, <1>4, <1>5, <1>6 DEF ClickInv, LoginInv

\* The invariant of logins and clicks.
THEOREM ClickInvariant == Spec => []ClickInv
<1>1. IInv /\ ClickInv /\ [Next]_vars => ClickInv'
  BY LoginStep, FreshStep, MemberStep, ChannelStep, ClickStep, BeforeStep, LoginOnceStep,
     RepeatStep, UsableStep DEF ClickInv, IInv, HandlerInv
<1> QED
  BY <1>1, ClickInit, Inductive, PTL DEF Spec

\* LoginOnce: the row a login was answered with is found by every login of
\* that name sent afterwards, although the table may have no UNIQUE index.
THEOREM LoginsFindTheRow == Spec => []LoginOnce
<1>1. ClickInv => LoginOnce
  BY DEF ClickInv
<1> QED
  BY <1>1, ClickInvariant, PTL

\* ClickSelectsPair: a channel is found only once its first message and both
\* members are there, so only a read error can leave its list empty.
THEOREM ClicksSelectPair == Spec => []ClickSelectsPair
<1>1. ClickInv => ClickSelectsPair
  BY DEF ClickInv
<1> QED
  BY <1>1, ClickInvariant, PTL

\* CreateOnce: clicks that do not overlap never give a pair two channels, as
\* long as names are unique and no read error hides the first one.
THEOREM ClicksCreateOnce == Spec => []CreateOnce
<1>1. TypeOK /\ ClickInv => CreateOnce
  BY DEF TypeOK, ClickInv, CreateOnce, RepeatInv, Repeats, Avoids
<1> QED
  BY <1>1, TypeCorrect, ClickInvariant, PTL

\* SelectedIsUsable: what a page sends has an addressee, as long as names are
\* unique.
THEOREM SelectionIsUsable == Spec => []SelectedIsUsable
<1>1. ClickInv => SelectedIsUsable
  BY DEF ClickInv, UsableInv, SelectedIsUsable, Members
<1> QED
  BY <1>1, ClickInvariant, PTL
=============================================================================
