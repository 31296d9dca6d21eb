--------------------------- MODULE CrowChatProofs ---------------------------
(***************************************************************************)
(* Proofs about CrowChat, for all users, requests and connections: what    *)
(* dbMutex buys (one channel per pair, one id per name), that a push never *)
(* meets a destroyed connection, and who receives what.                    *)
(***************************************************************************)
EXTENDS CrowChat, TLAPS

-----------------------------------------------------------------------------
\* Type correctness.

\* The initial state is well typed.
LEMMA InitTypeOK == Init => TypeOK
  BY DbAssumption, CrowAssumption DEF Init, DbInit, TypeOK, DbTypeOK

\* Every step keeps the types; the foreign keys type the rows inserted.
LEMMA StepTypeOK == TypeOK /\ [Next]_vars => TypeOK'
<1> SUFFICES ASSUME TypeOK, [Next]_vars PROVE TypeOK'
  OBVIOUS
<1> USE DbAssumption, CrowAssumption
<1> USE DEF TypeOK, DbTypeOK, DbPc, WsPc, EndPc, dbVars, connVars, handlerVars,
            Sockets, Handlers, Goto, Return, Cgoto
<1>1. ASSUME NEW r \in Request, Send(r) PROVE TypeOK'
  <2>1. CASE r.op = "sendMessage"
    <3>1. PICK u \in UserId, ch \in ChannelId :
            /\ sid' = [sid EXCEPT ![r] = u]
            /\ chan' = [chan EXCEPT ![r] = ch]
      BY <1>1, <2>1 DEF Send, IdsOf
    <3> QED
      BY <1>1, <3>1 DEF Send
  <2>2. CASE r.op # "sendMessage"
    BY <1>1, <2>2 DEF Send
  <2> QED
    BY <2>1, <2>2
<1>2. ASSUME NEW r \in Request, Reject(r) PROVE TypeOK'
  BY <1>2 DEF Reject
<1>3. ASSUME NEW r \in Request, LockDb(r) PROVE TypeOK'
  <2>1. r.op \in Op
    OBVIOUS
  <2>2. FirstPc(r) \in DbPc
    BY <2>1 DEF FirstPc, Op
  <2> QED
    BY <1>3, <2>2 DEF LockDb
<1>4. ASSUME NEW r \in Request, FindUser(r) PROVE TypeOK'
  <2>1. CASE IdsOf(r.from) = {}
    BY <1>4, <2>1 DEF FindUser
  <2>2. CASE IdsOf(r.from) # {}
    BY <1>4, <2>2 DEF FindUser
  <2> QED
    BY <2>1, <2>2
<1>5. ASSUME NEW r \in Request, NewUser(r) PROVE TypeOK'
  BY <1>5 DEF NewUser, InsertUser
<1>6. ASSUME NEW r \in Request, FindChannel(r) PROVE TypeOK'
  <2>1. PICK s \in UserId \cup {None}, t \in UserId \cup {None} :
          /\ sid' = [sid EXCEPT ![r] = s]
          /\ rid' = [rid EXCEPT ![r] = t]
          /\ \/ pc' = [pc EXCEPT ![r] = "insertChannel"] /\ UNCHANGED chan
             \/ \E ch \in ChannelId :
                   /\ pc' = [pc EXCEPT ![r] = "history"]
                   /\ chan' = [chan EXCEPT ![r] = ch]
    BY <1>6 DEF FindChannel, FoundIds, IdsOf, ChannelsBetween
  <2>2. CASE pc' = [pc EXCEPT ![r] = "insertChannel"] /\ UNCHANGED chan
    BY <1>6, <2>1, <2>2 DEF FindChannel
  <2>3. ASSUME NEW ch \in ChannelId, pc' = [pc EXCEPT ![r] = "history"],
               chan' = [chan EXCEPT ![r] = ch]
        PROVE  TypeOK'
    BY <1>6, <2>1, <2>3 DEF FindChannel
  <2> QED
    BY <2>1, <2>2, <2>3
<1>7. ASSUME NEW r \in Request, FetchHistory(r) PROVE TypeOK'
  BY <1>7 DEF FetchHistory
<1>8. ASSUME NEW r \in Request, NewChannel(r) PROVE TypeOK'
  BY <1>8 DEF NewChannel, InsertChannel
<1>9. ASSUME NEW r \in Request, NewMessage(r) PROVE TypeOK'
  BY <1>9 DEF NewMessage, InsertMessage, UserExists, Message
<1>10. ASSUME NEW r \in Request, NewSender(r) PROVE TypeOK'
  BY <1>10 DEF NewSender, InsertMembership, UserExists
<1>11. ASSUME NEW r \in Request, NewReceiver(r) PROVE TypeOK'
  BY <1>11 DEF NewReceiver, InsertMembership, UserExists
<1>12. ASSUME NEW r \in Request, Persist(r) PROVE TypeOK'
  BY <1>12 DEF Persist, InsertMessage, UserExists, Message
<1>13. ASSUME NEW r \in Request, FetchMembers(r) PROVE TypeOK'
  BY <1>13 DEF FetchMembers, Members
<1>14. ASSUME NEW r \in Request, LockWs(r) PROVE TypeOK'
  BY <1>14 DEF LockWs
<1>15. ASSUME NEW r \in Request, PushMember(r) PROVE TypeOK'
  <2>1. PICK u \in todo[r], broken \in SUBSET Conn :
          /\ todo' = [todo EXCEPT ![r] = @ \ {u}]
          /\ got' = [c \in Conn |->
                IF here[c] /\ c \notin broken
                THEN [got[c] EXCEPT ![r] = @ + wsMap[u][c]] ELSE got[c]]
    BY <1>15 DEF PushMember
  <2>2. u \in UserId
    OBVIOUS
  <2>3. ASSUME NEW c \in Conn PROVE got'[c] \in [Request -> Nat]
    <3>1. got[c] \in [Request -> Nat] /\ wsMap[u][c] \in Nat
      BY <2>2
    <3>2. [got[c] EXCEPT ![r] = @ + wsMap[u][c]] \in [Request -> Nat]
      BY <3>1
    <3>3. got'[c] = [got[c] EXCEPT ![r] = @ + wsMap[u][c]] \/ got'[c] = got[c]
      BY <2>1, Zenon
    <3> QED
      BY <3>1, <3>2, <3>3
  <2>4. got' \in [Conn -> [Request -> Nat]]
    BY <2>1, <2>3
  <2> QED
    BY <1>15, <2>1, <2>4 DEF PushMember
<1>16. ASSUME NEW r \in Request, PushDone(r) PROVE TypeOK'
  BY <1>16 DEF PushDone
<1>17. ASSUME NEW r \in Request, Fail(r) PROVE TypeOK'
  BY <1>17 DEF Fail
<1>18. ASSUME NEW c \in Conn, Open(c) \/ Leave(c) \/ Beat(c) PROVE TypeOK'
  <2>1. CASE Open(c)
    BY <2>1 DEF Open
  <2>2. CASE Leave(c)
    BY <2>2 DEF Leave
  <2>3. CASE Beat(c)
    BY <2>3 DEF Beat
  <2> QED
    BY <1>18, <2>1, <2>2, <2>3
<1>19. ASSUME NEW c \in Conn, AppendConn(c) PROVE TypeOK'
  BY <1>19 DEF AppendConn
<1>20. ASSUME NEW c \in Conn, Upsert(c) \/ Close(c) PROVE TypeOK'
  <2>1. CASE Upsert(c)
    BY <2>1 DEF Upsert
  <2>2. CASE Close(c)
    BY <2>2 DEF Close
  <2> QED
    BY <1>20, <2>1, <2>2
<1>21. ASSUME NEW c \in Conn, EraseConn(c) PROVE TypeOK'
  BY <1>21 DEF EraseConn
<1>22. CASE Crash
  BY <1>22 DEF Crash, Running
<1>23. CASE UNCHANGED vars
  BY <1>23 DEF vars
<1> QED
  BY <1>1, <1>2, <1>3, <1>4, <1>5, <1>6, <1>7, <1>8, <1>9, <1>10, <1>11, <1>12,
     <1>13, <1>14, <1>15, <1>16, <1>17, <1>18, <1>19, <1>20, <1>21, <1>22, <1>23
     DEF Next, Handle, Callback

\* Tables, mutexes, handlers and connections keep their types.
THEOREM TypeCorrect == Spec => []TypeOK
  BY InitTypeOK, StepTypeOK, PTL DEF Spec

-----------------------------------------------------------------------------
(***************************************************************************)
(* Connections.  An entry of wsMap is one of a connection between onopen   *)
(* and the end of onclose, registered for the user of its heartbeats.      *)
(***************************************************************************)
Registered ==
    \A u \in UserId, c \in Conn :
        wsMap[u][c] > 0 => cpc[c] \notin {"new", "destroyed"} /\ u = ConnUser[c]

\* Heartbeats register a connection only while it exists, onclose removes all
\* of its entries, and nothing registers it again.
LEMMA StepRegistered == TypeOK /\ Registered /\ [Next]_vars => Registered'
<1> SUFFICES ASSUME TypeOK, Registered, [Next]_vars PROVE Registered'
  OBVIOUS
<1> USE CrowAssumption
<1>1. CASE UNCHANGED <<wsMap, cpc>>
  BY <1>1 DEF Registered
<1>2. ASSUME NEW c \in Conn, UNCHANGED wsMap,
             NEW label \in {"ready", "append", "erase"},
             cpc' = [cpc EXCEPT ![c] = label]
      PROVE  Registered'
  BY <1>2 DEF Registered, TypeOK
<1>3. ASSUME NEW c \in Conn, AppendConn(c) PROVE Registered'
  <2>1. /\ wsMap' = [wsMap EXCEPT ![ConnUser[c]][c] = @ + 1]
        /\ cpc' = [cpc EXCEPT ![c] = "upsert"]
    BY <1>3 DEF AppendConn, Cgoto
  <2> QED
    BY <2>1 DEF Registered, TypeOK
<1>4. ASSUME NEW c \in Conn, EraseConn(c) PROVE Registered'
  <2>1. /\ wsMap' = [u \in UserId |-> [d \in Conn |-> IF d = c THEN 0 ELSE wsMap[u][d]]]
        /\ cpc' = [cpc EXCEPT ![c] = "destroyed"]
    BY <1>4 DEF EraseConn, Cgoto
  <2> QED
    BY <2>1 DEF Registered, TypeOK
<1>5. CASE Crash
  BY <1>5 DEF Crash, Registered
<1>6. ASSUME NEW r \in Request, Send(r) \/ Reject(r) \/ Handle(r)
      PROVE  UNCHANGED <<wsMap, cpc>>
  BY <1>6 DEF Handle, Send, Reject, LockDb, FindUser, NewUser, FindChannel,
     FetchHistory, NewChannel, NewMessage, NewSender, NewReceiver, Persist,
     FetchMembers, LockWs, PushMember, PushDone, Fail, Sockets, connVars
<1>7. ASSUME NEW c \in Conn, Open(c) \/ Beat(c) \/ Upsert(c) \/ Close(c)
      PROVE  Registered'
  BY <1>2, <1>7 DEF Open, Beat, Upsert, Close, Cgoto
<1>8. ASSUME NEW c \in Conn, Leave(c) PROVE Registered'
  BY <1>1, <1>8 DEF Leave
<1>9. CASE UNCHANGED vars
  BY <1>1, <1>9 DEF vars, connVars
<1> QED
  BY <1>1, <1>3, <1>4, <1>5, <1>6, <1>7, <1>8, <1>9 DEF Next, Callback

\* Registered entries belong to live connections in every behaviour.
THEOREM RegisteredAreLive == Spec => []Registered
<1>1. Init => Registered
  BY DEF Init, Registered
<1> QED
  BY <1>1, TypeCorrect, StepRegistered, PTL DEF Spec

\* sendMessageOverWebSocket never calls send_text on a destroyed connection.
THEOREM PushMeetsLiveConnections == Spec => []NoDangling
<1>1. Registered => NoDangling
  BY DEF Registered, NoDangling
<1> QED
  BY <1>1, RegisteredAreLive, PTL

-----------------------------------------------------------------------------
(***************************************************************************)
(* The tables under dbMutex.  A handler between its first statement and    *)
(* its end holds dbMutex, hence there is at most one (Exclusive); so what  *)
(* it has read is still true when it writes (Fresh).                       *)
(***************************************************************************)
Exclusive == \A r \in Request : pc[r] \in DbPc \cup WsPc => dbMutex = r

Creating == {"insertChannel", "insertMessage", "insertSender", "insertReceiver"}

Fresh ==
    \A r \in Request :
        /\ pc[r] = "insertUser" => IdsOf(r.from) = {}
        /\ pc[r] \in Creating => ChannelsBetween(sid[r], rid[r]) = {}
        /\ pc[r] \in {"insertMessage", "insertSender"} => Members(chan[r]) = {}
        /\ pc[r] = "insertReceiver" => Members(chan[r]) \subseteq {sid[r]}

\* A channel is opened between two different users.
Distinct ==
    \A r \in Request :
        /\ pc[r] = "findChannel" => r.op = "createChannel"
        /\ pc[r] \in Creating => sid[r] # rid[r] \/ sid[r] = None

DbInv == Exclusive /\ Distinct /\ Fresh /\ OneChannelPerPair /\ OneIdPerName

\* A handler takes dbMutex when it is free and gives it back when it ends.
LEMMA StepExclusive == TypeOK /\ Exclusive /\ [Next]_vars => Exclusive'
<1> SUFFICES ASSUME TypeOK, Exclusive, [Next]_vars PROVE Exclusive'
  OBVIOUS
<1> USE DbAssumption, CrowAssumption
<1> DEFINE In == DbPc \cup WsPc
<1>1. ASSUME UNCHANGED <<pc, dbMutex>> PROVE Exclusive'
  BY <1>1 DEF Exclusive
<1>2. ASSUME NEW r \in Request, NEW label, pc' = [pc EXCEPT ![r] = label],
             pc[r] \in In, UNCHANGED dbMutex
      PROVE  Exclusive'
  BY <1>2 DEF Exclusive, TypeOK
<1>3. ASSUME NEW r \in Request, NEW label, pc' = [pc EXCEPT ![r] = label],
             label \notin In, UNCHANGED dbMutex
      PROVE  Exclusive'
  BY <1>3 DEF Exclusive, TypeOK
<1>4. ASSUME NEW r \in Request, NEW label, pc' = [pc EXCEPT ![r] = label],
             pc[r] \in In, label \notin In, dbMutex' = None
      PROVE  Exclusive'
  BY <1>4 DEF Exclusive, TypeOK
<1>5. ASSUME NEW r \in Request, LockDb(r) PROVE Exclusive'
  <2>1. dbMutex = None /\ dbMutex' = r
    BY <1>5 DEF LockDb
  <2>2. \A q \in Request : pc[q] \notin In
    BY <2>1 DEF Exclusive
  <2>3. \A q \in Request : q # r => pc'[q] = pc[q]
    BY <1>5 DEF LockDb, Goto, TypeOK
  <2> QED
    BY <2>1, <2>2, <2>3 DEF Exclusive
<1>6. ASSUME NEW r \in Request, Send(r) \/ Reject(r) PROVE Exclusive'
  <2>1. "wantDb" \notin In /\ "failed" \notin In
    BY DEF DbPc, WsPc
  <2> QED
    BY <1>3, <1>6, <2>1 DEF Send, Reject, Goto
<1>7. ASSUME NEW r \in Request, FindUser(r) \/ NewUser(r) \/ FetchHistory(r)
                                \/ PushDone(r) \/ Fail(r)
      PROVE  Exclusive'
  <2>1. pc[r] \in In /\ "done" \notin In /\ "failed" \notin In
    BY <1>7 DEF FindUser, NewUser, FetchHistory, PushDone, Fail, DbPc, WsPc
  <2> QED
    BY <1>2, <1>4, <1>7, <2>1
       DEF FindUser, NewUser, FetchHistory, PushDone, Fail, Goto, Return, EndPc
<1>8. ASSUME NEW r \in Request,
             \/ FindChannel(r) \/ NewChannel(r) \/ NewMessage(r) \/ NewSender(r)
             \/ NewReceiver(r) \/ Persist(r) \/ FetchMembers(r) \/ LockWs(r)
      PROVE  Exclusive'
  <2>1. pc[r] \in In
    BY <1>8 DEF FindChannel, NewChannel, NewMessage, NewSender, NewReceiver,
       Persist, FetchMembers, LockWs, DbPc, WsPc
  <2>2. UNCHANGED dbMutex /\ \E label : pc' = [pc EXCEPT ![r] = label]
    BY <1>8 DEF FindChannel, NewChannel, NewMessage, NewSender, NewReceiver,
       Persist, FetchMembers, LockWs, Goto
  <2> QED
    BY <1>2, <2>1, <2>2
<1>9. ASSUME NEW r \in Request, PushMember(r) PROVE Exclusive'
  BY <1>1, <1>9 DEF PushMember
<1>10. ASSUME NEW c \in Conn, Open(c) \/ Leave(c) \/ Beat(c) \/ Callback(c)
       PROVE  Exclusive'
  BY <1>1, <1>10 DEF Open, Leave, Beat, Callback, AppendConn, Upsert, Close,
     EraseConn, Handlers, handlerVars
<1>11. CASE Crash
  <2>1. \A r \in Request : pc'[r] \notin In
    BY <1>11 DEF Crash, Running, DbPc, WsPc
  <2> QED
    BY <2>1 DEF Exclusive
<1>12. CASE UNCHANGED vars
  BY <1>1, <1>12 DEF vars, handlerVars
<1> QED
  BY <1>5, <1>6, <1>7, <1>8, <1>9, <1>10, <1>11, <1>12 DEF Next, Handle

\* The names of a request differ, and so do the ids found for them.
LEMMA StepDistinct == TypeOK /\ Distinct /\ [Next]_vars => Distinct'
<1> SUFFICES ASSUME TypeOK, Distinct, [Next]_vars PROVE Distinct'
  OBVIOUS
<1> USE DbAssumption, CrowAssumption
<1>1. ASSUME UNCHANGED <<sid, rid>>,
             \A r \in Request : \/ pc'[r] = pc[r]
                                \/ pc'[r] \notin Creating \cup {"findChannel"}
                                \/ pc[r] \in Creating /\ pc'[r] \in Creating
      PROVE  Distinct'
  <2>1. "findChannel" \notin Creating
    BY DEF Creating
  <2> QED
    BY <1>1, <2>1 DEF Distinct
<1>2. ASSUME NEW r \in Request, Send(r) PROVE Distinct'
  <2>1. \A q \in Request : q # r => /\ pc'[q] = pc[q]
                                   /\ sid'[q] = sid[q] /\ rid'[q] = rid[q]
    BY <1>2 DEF Send, Goto, TypeOK
  <2>2. pc'[r] = "wantDb"
    BY <1>2 DEF Send, Goto, TypeOK
  <2> QED
    BY <2>1, <2>2 DEF Distinct, Creating
<1>3. ASSUME NEW r \in Request, LockDb(r) PROVE Distinct'
  <2>1. r.op \in Op
    OBVIOUS
  <2>2. FirstPc(r) = "findChannel" => r.op = "createChannel"
    BY <2>1 DEF FirstPc, Op
  <2>3. FirstPc(r) \notin Creating
    BY <2>1 DEF FirstPc, Op, Creating
  <2> QED
    BY <1>3, <2>2, <2>3 DEF LockDb, Goto, Distinct, TypeOK
<1>4. ASSUME NEW r \in Request, FindChannel(r) PROVE Distinct'
  <2>1. PICK s \in FoundIds(r.from), t \in FoundIds(r.to) :
          sid' = [sid EXCEPT ![r] = s] /\ rid' = [rid EXCEPT ![r] = t]
    BY <1>4 DEF FindChannel
  <2>2. r.from # r.to
    BY <1>4 DEF FindChannel, Distinct
  <2>3. s # t \/ s = None
    BY <2>2 DEF FoundIds, IdsOf
  <2>4. \E label \in {"insertChannel", "history"} : pc' = [pc EXCEPT ![r] = label]
    BY <1>4 DEF FindChannel, Goto
  <2> QED
    BY <2>1, <2>3, <2>4 DEF Distinct, TypeOK
<1>5. ASSUME NEW r \in Request,
             \/ NewChannel(r) \/ NewMessage(r) \/ NewSender(r) \/ NewReceiver(r)
      PROVE  Distinct'
  <2>1. pc[r] \in Creating /\ UNCHANGED <<sid, rid>>
    BY <1>5 DEF NewChannel, NewMessage, NewSender, NewReceiver, Creating
  <2>2. \E label \in Creating \cup {"wantWs"} : pc' = [pc EXCEPT ![r] = label]
    BY <1>5 DEF NewChannel, NewMessage, NewSender, NewReceiver, Creating, Goto
  <2>3. "wantWs" \notin Creating \cup {"findChannel"}
    BY DEF Creating
  <2> QED
    BY <1>1, <2>1, <2>2, <2>3 DEF TypeOK
<1>6. ASSUME NEW r \in Request,
             \/ Reject(r) \/ FindUser(r) \/ NewUser(r) \/ FetchHistory(r)
             \/ Persist(r) \/ FetchMembers(r) \/ LockWs(r) \/ PushMember(r)
             \/ PushDone(r) \/ Fail(r)
      PROVE  Distinct'
  <2>1. UNCHANGED <<sid, rid>>
    BY <1>6 DEF Reject, FindUser, NewUser, FetchHistory, Persist, FetchMembers,
       LockWs, PushMember, PushDone, Fail
  <2>2. \/ UNCHANGED pc
        \/ \E label \in {"insertUser", "members", "wantWs", "push", "done", "failed"} :
              pc' = [pc EXCEPT ![r] = label]
    BY <1>6 DEF Reject, FindUser, NewUser, FetchHistory, Persist, FetchMembers,
       LockWs, PushMember, PushDone, Fail, Goto, Return, EndPc
  <2> QED
    BY <1>1, <2>1, <2>2 DEF Creating, TypeOK
<1>7. ASSUME NEW c \in Conn, Open(c) \/ Leave(c) \/ Beat(c) \/ Callback(c)
      PROVE  Distinct'
  BY <1>1, <1>7 DEF Open, Leave, Beat, Callback, AppendConn, Upsert, Close,
     EraseConn, Handlers, handlerVars
<1>8. CASE Crash
  BY <1>1, <1>8 DEF Crash, Creating, TypeOK
<1>9. CASE UNCHANGED vars
  BY <1>1, <1>9 DEF vars, handlerVars
<1> QED
  BY <1>2, <1>3, <1>4, <1>5, <1>6, <1>7, <1>8, <1>9 DEF Next, Handle

\* A handler that is not in the middle of its statements has nothing to lose.
LEMMA FreshForOthers ==
    ASSUME TypeOK, Exclusive, NEW r \in Request, pc[r] \in DbPc \cup WsPc,
           NEW label, pc' = [pc EXCEPT ![r] = label]
    PROVE  \A q \in Request : q # r => pc'[q] \notin DbPc \cup WsPc
  BY DEF Exclusive, TypeOK

\* Steps that leave the tables and the handlers' ids alone.
LEMMA QuietDb ==
    ASSUME TypeOK, DbInv, UNCHANGED <<user, channel, membership, sid, rid, chan>>,
           \A r \in Request : \/ pc'[r] = pc[r]
                              \/ pc'[r] \notin Creating \cup {"insertUser"}
    PROVE  Fresh' /\ OneChannelPerPair' /\ OneIdPerName'
<1>1. OneIdPerName'
  BY DEF DbInv, OneIdPerName
<1>2. \A u, v : ChannelsBetween(u, v)' = ChannelsBetween(u, v)
  BY DEF ChannelsBetween
<1>3. OneChannelPerPair'
  BY <1>2 DEF DbInv, OneChannelPerPair
<1>4. Fresh'
  <2>1. ASSUME NEW r \in Request, pc'[r] = pc[r]
        PROVE  /\ pc'[r] = "insertUser" => IdsOf(r.from)' = {}
               /\ pc'[r] \in Creating => ChannelsBetween(sid[r], rid[r])' = {}
               /\ pc'[r] \in {"insertMessage", "insertSender"} => Members(chan[r])' = {}
               /\ pc'[r] = "insertReceiver" => Members(chan[r])' \subseteq {sid'[r]}
    BY <2>1, <1>2 DEF DbInv, Fresh, IdsOf, Members, ChannelsBetween
  <2>2. ASSUME NEW r \in Request, pc'[r] \notin Creating \cup {"insertUser"}
        PROVE  /\ pc'[r] # "insertUser" /\ pc'[r] \notin Creating
               /\ pc'[r] \notin {"insertMessage", "insertSender"}
               /\ pc'[r] # "insertReceiver"
    BY <2>2 DEF Creating
  <2> QED
    BY <2>1, <2>2 DEF Fresh
<1> QED
  BY <1>1, <1>3, <1>4

\* The second membership completes the first channel of the pair.
LEMMA NewReceiverDb ==
    ASSUME TypeOK, DbInv, NEW r \in Request, NewReceiver(r)
    PROVE  Fresh' /\ OneChannelPerPair' /\ OneIdPerName'
<1> USE DbAssumption
<1>1. /\ pc' = [pc EXCEPT ![r] = "wantWs"] /\ pc[r] = "insertReceiver"
      /\ rid[r] \in UserId /\ chan[r] \in channel
      /\ membership' = membership \cup {<<chan[r], rid[r]>>}
      /\ UNCHANGED <<user, channel, message, sid, rid, chan>>
  BY DEF NewReceiver, InsertMembership, UserExists, Goto
<1>2. \A q \in Request : pc'[q] \notin DbPc
  <2>1. pc'[r] = "wantWs"
    BY <1>1 DEF TypeOK
  <2>2. \A q \in Request : q # r => pc'[q] \notin DbPc
    BY <1>1, FreshForOthers DEF DbInv, DbPc
  <2> QED
    BY <2>1, <2>2 DEF DbPc
<1>3. Fresh'
  BY <1>2 DEF Fresh, Creating, DbPc
<1>4. OneIdPerName'
  BY <1>1 DEF DbInv, OneIdPerName
<1>5. /\ ChannelsBetween(sid[r], rid[r]) = {}
      /\ Members(chan[r]) \subseteq {sid[r]}
  BY <1>1 DEF DbInv, Fresh, Creating
<1>6. ASSUME NEW u \in UserId, NEW v \in UserId, u # v,
             NEW k \in ChannelsBetween(u, v)', k \notin ChannelsBetween(u, v)
      PROVE  k = chan[r] /\ {u, v} = {sid[r], rid[r]}
  BY <1>1, <1>5, <1>6 DEF ChannelsBetween, Members
<1>7. \A u, v : ChannelsBetween(u, v) = ChannelsBetween(v, u)
  BY DEF ChannelsBetween
<1>8. ASSUME NEW u \in UserId, NEW v \in UserId, u # v,
             NEW k \in ChannelsBetween(u, v)', NEW m \in ChannelsBetween(u, v)'
      PROVE  k = m
  <2>1. CASE {u, v} = {sid[r], rid[r]}
    <3>1. ChannelsBetween(u, v) = {}
      BY <1>5, <1>7, <1>8, <2>1
    <3> QED
      BY <1>6, <1>8, <3>1
  <2>2. CASE {u, v} # {sid[r], rid[r]}
    BY <1>6, <1>8, <2>2 DEF DbInv, OneChannelPerPair
  <2> QED
    BY <2>1, <2>2
<1>9. OneChannelPerPair'
  BY <1>8 DEF OneChannelPerPair
<1> QED
  BY <1>3, <1>4, <1>9

\* The first membership gives a channel that nobody was in one member.
LEMMA NewSenderDb ==
    ASSUME TypeOK, DbInv, NEW r \in Request, NewSender(r)
    PROVE  Fresh' /\ OneChannelPerPair' /\ OneIdPerName'
<1> USE DbAssumption
<1>1. /\ pc' = [pc EXCEPT ![r] = "insertReceiver"] /\ pc[r] = "insertSender"
      /\ sid[r] \in UserId /\ chan[r] \in channel
      /\ membership' = membership \cup {<<chan[r], sid[r]>>}
      /\ UNCHANGED <<user, channel, message, sid, rid, chan>>
  BY DEF NewSender, InsertMembership, UserExists, Goto
<1>2. \A q \in Request : q # r => pc'[q] \notin DbPc
  BY <1>1, FreshForOthers DEF DbInv, DbPc
<1>3. OneIdPerName'
  BY <1>1 DEF DbInv, OneIdPerName
<1>4. /\ ChannelsBetween(sid[r], rid[r]) = {}
      /\ Members(chan[r]) = {}
  BY <1>1 DEF DbInv, Fresh, Creating
<1>5. Members(chan[r])' = {sid[r]}
  BY <1>1, <1>4 DEF Members
<1>6. ASSUME NEW u \in UserId, NEW v \in UserId, u # v
      PROVE  ChannelsBetween(u, v)' = ChannelsBetween(u, v)
  BY <1>1, <1>4, <1>6 DEF ChannelsBetween, Members
<1>7. OneChannelPerPair'
  BY <1>6 DEF DbInv, OneChannelPerPair
<1>8. Fresh'
  <2>1. ChannelsBetween(sid[r], rid[r])' = {}
    <3>1. CASE rid[r] \in UserId
      BY <1>1, <1>4, <1>6, <3>1 DEF DbInv, Distinct, Creating
    <3>2. CASE rid[r] = None
      BY <1>1, <3>2 DEF TypeOK, DbTypeOK, ChannelsBetween
    <3> QED
      BY <3>1, <3>2 DEF TypeOK
  <2> QED
    BY <1>1, <1>2, <1>5, <2>1 DEF Fresh, Creating, DbPc, TypeOK
<1> QED
  BY <1>3, <1>7, <1>8

\* The other statements of createUser and createChannel.
LEMMA NewUserDb ==
    ASSUME TypeOK, DbInv, NEW r \in Request, NewUser(r)
    PROVE  Fresh' /\ OneChannelPerPair' /\ OneIdPerName'
<1> USE DbAssumption, CrowAssumption
<1>1. PICK u \in UserId : user[u] = None /\ user' = [user EXCEPT ![u] = r.from]
  BY DEF NewUser, InsertUser
<1>2. PICK label \in EndPc :
        /\ pc[r] = "insertUser" /\ pc' = [pc EXCEPT ![r] = label]
        /\ UNCHANGED <<channel, membership, sid, rid, chan>>
  BY DEF NewUser, InsertUser, Return, Goto
<1>3. OneIdPerName'
  <2>1. \A v \in UserId : user[v] # r.from
    BY <1>2 DEF DbInv, Fresh, IdsOf
  <2> QED
    BY <1>1, <2>1 DEF DbInv, OneIdPerName, TypeOK, DbTypeOK
<1>4. OneChannelPerPair'
  BY <1>2 DEF DbInv, OneChannelPerPair, ChannelsBetween
<1>5. \A q \in Request : pc'[q] \notin DbPc
  <2>1. \A q \in Request : q # r => pc'[q] \notin DbPc
    BY <1>2, FreshForOthers DEF DbInv, DbPc
  <2> QED
    BY <1>2, <2>1 DEF DbPc, EndPc, TypeOK
<1>6. Fresh'
  BY <1>5 DEF Fresh, Creating, DbPc
<1> QED
  BY <1>3, <1>4, <1>6

\* What the lookup found still holds when the next statement runs.
LEMMA FindDb ==
    ASSUME TypeOK, DbInv, NEW r \in Request, FindUser(r) \/ FindChannel(r)
    PROVE  Fresh' /\ OneChannelPerPair' /\ OneIdPerName'
<1> USE DbAssumption, CrowAssumption
<1>1. UNCHANGED <<user, channel, membership>>
  BY DEF FindUser, FindChannel, dbVars
<1>2. OneIdPerName' /\ OneChannelPerPair'
  BY <1>1 DEF DbInv, OneIdPerName, OneChannelPerPair, ChannelsBetween
<1>3. \A q \in Request : q # r => pc'[q] \notin DbPc
  BY FreshForOthers DEF DbInv, DbPc, FindUser, FindChannel, Goto, Return
<1>4. CASE FindUser(r)
  <2>1. pc'[r] = "insertUser" => IdsOf(r.from)' = {}
    BY <1>1, <1>4 DEF FindUser, IdsOf, Goto, Return, TypeOK
  <2>2. pc'[r] \in {"insertUser", "done"}
    BY <1>4 DEF FindUser, Goto, Return, TypeOK
  <2> QED
    BY <1>2, <1>3, <2>1, <2>2 DEF Fresh, Creating, DbPc
<1>5. CASE FindChannel(r)
  <2>1. PICK s \in FoundIds(r.from), t \in FoundIds(r.to) :
          /\ sid' = [sid EXCEPT ![r] = s] /\ rid' = [rid EXCEPT ![r] = t]
          /\ \/ ChannelsBetween(s, t) = {} /\ pc' = [pc EXCEPT ![r] = "insertChannel"]
             \/ pc' = [pc EXCEPT ![r] = "history"]
    BY <1>5 DEF FindChannel, Goto
  <2>2. sid'[r] = s /\ rid'[r] = t
    BY <2>1 DEF TypeOK
  <2>3. \/ ChannelsBetween(sid[r], rid[r])' = {} /\ pc'[r] = "insertChannel"
        \/ pc'[r] = "history"
    BY <1>1, <2>1, <2>2 DEF ChannelsBetween, TypeOK
  <2> QED
    BY <1>2, <1>3, <2>3 DEF Fresh, Creating, DbPc, ChannelsBetween
<1> QED
  BY <1>4, <1>5

\* A new channel has no members.
LEMMA NewChannelDb ==
    ASSUME TypeOK, DbInv, NEW r \in Request, NewChannel(r) \/ NewMessage(r)
    PROVE  Fresh' /\ OneChannelPerPair' /\ OneIdPerName'
<1> USE DbAssumption
<1>1. UNCHANGED <<user, membership, sid, rid>> /\ channel \subseteq channel'
  BY DEF NewChannel, InsertChannel, NewMessage, InsertMessage
<1>2. OneIdPerName'
  BY <1>1 DEF DbInv, OneIdPerName
<1>3. \A u, v : ChannelsBetween(u, v)' = ChannelsBetween(u, v)
  BY <1>1 DEF ChannelsBetween, TypeOK, DbTypeOK
<1>4. OneChannelPerPair'
  BY <1>3 DEF DbInv, OneChannelPerPair
<1>5. \A q \in Request : q # r => pc'[q] \notin DbPc
  BY FreshForOthers DEF DbInv, DbPc, NewChannel, NewMessage, Goto
<1>6. /\ pc'[r] \in {"insertMessage", "insertSender"}
      /\ Members(chan[r])' = {}
  <2>1. CASE NewChannel(r)
    <3>1. PICK k \in ChannelId \ channel : chan' = [chan EXCEPT ![r] = k]
      BY <2>1 DEF NewChannel, InsertChannel
    <3>2. chan'[r] = k
      BY <3>1 DEF TypeOK
    <3>3. Members(chan[r])' = {}
      BY <1>1, <3>2 DEF Members, TypeOK, DbTypeOK
    <3> QED
      BY <2>1, <3>3 DEF NewChannel, Goto, TypeOK
  <2>2. CASE NewMessage(r)
    BY <1>1, <2>2 DEF NewMessage, Goto, TypeOK, DbInv, Fresh, Members
  <2> QED
    BY <2>1, <2>2
<1>7. ChannelsBetween(sid[r], rid[r])' = {}
  <2>1. pc[r] \in Creating
    BY DEF NewChannel, NewMessage, Creating
  <2> QED
    BY <1>1, <1>3, <2>1 DEF DbInv, Fresh
<1>8. Fresh'
  BY <1>5, <1>6, <1>7 DEF Fresh, Creating, DbPc, Members, ChannelsBetween
<1> QED
  BY <1>2, <1>4, <1>8

\* dbMutex keeps what createUser and createChannel read true until they write.
LEMMA StepDbInv == TypeOK /\ DbInv /\ [Next]_vars => DbInv'
<1> SUFFICES ASSUME TypeOK, DbInv, [Next]_vars PROVE DbInv'
  OBVIOUS
<1>1. Exclusive' /\ Distinct'
  BY StepExclusive, StepDistinct DEF DbInv
<1> DEFINE Goal == Fresh' /\ OneChannelPerPair' /\ OneIdPerName'
<1>2. ASSUME NEW r \in Request, Send(r) PROVE Goal
  <2>1. /\ pc[r] = "idle" /\ pc'[r] = "wantDb"
        /\ \A q \in Request : q # r =>
              pc'[q] = pc[q] /\ sid'[q] = sid[q] /\ chan'[q] = chan[q]
        /\ UNCHANGED <<user, channel, membership, rid>>
    BY <1>2 DEF Send, Goto, dbVars, TypeOK
  <2>2. OneIdPerName' /\ OneChannelPerPair'
    <3>1. \A u, v : ChannelsBetween(u, v)' = ChannelsBetween(u, v)
      BY <2>1 DEF ChannelsBetween
    <3>2. OneChannelPerPair'
      BY <3>1 DEF DbInv, OneChannelPerPair
    <3>3. OneIdPerName'
      BY <2>1 DEF DbInv, OneIdPerName
    <3> QED
      BY <3>2, <3>3
  <2>3. ASSUME NEW q \in Request, q # r
        PROVE  /\ IdsOf(q.from)' = IdsOf(q.from)
               /\ ChannelsBetween(sid[q], rid[q])' = ChannelsBetween(sid[q], rid[q])
               /\ Members(chan[q])' = Members(chan[q])
    BY <2>1, <2>3 DEF IdsOf, ChannelsBetween, Members
  <2>4. Fresh'
    <3>1. ASSUME NEW q \in Request, q # r
          PROVE  /\ pc'[q] = "insertUser" => IdsOf(q.from)' = {}
                 /\ pc'[q] \in Creating => ChannelsBetween(sid[q], rid[q])' = {}
                 /\ pc'[q] \in {"insertMessage", "insertSender"} => Members(chan[q])' = {}
                 /\ pc'[q] = "insertReceiver" => Members(chan[q])' \subseteq {sid'[q]}
      BY <2>1, <2>3, <3>1 DEF DbInv, Fresh
    <3>2. /\ pc'[r] # "insertUser" /\ pc'[r] \notin Creating
          /\ pc'[r] \notin {"insertMessage", "insertSender"}
          /\ pc'[r] # "insertReceiver"
      BY <2>1 DEF Creating
    <3> QED
      BY <3>1, <3>2 DEF Fresh
  <2> QED
    BY <2>2, <2>4
<1>3. ASSUME NEW r \in Request,
             \/ Reject(r) \/ LockDb(r) \/ FetchHistory(r) \/ Persist(r)
             \/ FetchMembers(r) \/ LockWs(r) \/ PushMember(r) \/ PushDone(r) \/ Fail(r)
      PROVE  Goal
  <2>1. UNCHANGED <<user, channel, membership, sid, rid, chan>>
    BY <1>3 DEF Reject, LockDb, FetchHistory, Persist, InsertMessage, FetchMembers,
       LockWs, PushMember, PushDone, Fail, dbVars
  <2>2. FirstPc(r) \in {"findUser", "findChannel", "persist"}
    <3>1. r.op \in Op
      BY CrowAssumption
    <3> QED
      BY <3>1 DEF FirstPc, Op
  <2>3. \/ UNCHANGED pc
        \/ \E label \in {"findUser", "findChannel", "persist", "members", "wantWs",
                         "push", "done", "failed"} : pc' = [pc EXCEPT ![r] = label]
    BY <1>3, <2>2 DEF Reject, LockDb, FetchHistory, Persist, FetchMembers,
       LockWs, PushMember, PushDone, Fail, Goto, Return
  <2>4. \A q \in Request : \/ pc'[q] = pc[q]
                           \/ pc'[q] \notin Creating \cup {"insertUser"}
    BY <2>3 DEF Creating, TypeOK
  <2> QED
    BY <2>1, <2>4, QuietDb
<1>4. ASSUME NEW c \in Conn, Open(c) \/ Leave(c) \/ Beat(c) \/ Callback(c) PROVE Goal
  <2>1. UNCHANGED <<user, channel, membership, sid, rid, chan, pc>>
    BY <1>4 DEF Open, Leave, Beat, Callback, AppendConn, Upsert, Close,
       EraseConn, Handlers, handlerVars, dbVars
  <2> QED
    BY <2>1, QuietDb
<1>5. ASSUME Crash PROVE Goal
  <2>1. UNCHANGED <<user, channel, membership, sid, rid, chan>>
    BY <1>5 DEF Crash, dbVars
  <2>2. \A q \in Request : \/ pc'[q] = pc[q]
                           \/ pc'[q] \notin Creating \cup {"insertUser"}
    BY <1>5 DEF Crash, Creating
  <2> QED
    BY <2>1, <2>2, QuietDb
<1>6. ASSUME UNCHANGED vars PROVE Goal
  <2>1. UNCHANGED <<user, channel, membership, sid, rid, chan, pc>>
    BY <1>6 DEF vars, handlerVars, dbVars
  <2> QED
    BY <2>1, QuietDb
<1>7. Goal
  BY <1>2, <1>3, <1>4, <1>5, <1>6, NewUserDb, FindDb, NewChannelDb, NewSenderDb,
     NewReceiverDb DEF Next, Handle
<1> QED
  BY <1>1, <1>7 DEF DbInv

\* The invariant of the tables holds in every behaviour.
THEOREM TablesUnderMutex == Spec => []DbInv
<1>1. Init => DbInv
  <2> SUFFICES ASSUME Init PROVE DbInv
    OBVIOUS
  <2>1. Exclusive /\ Distinct /\ Fresh
    BY DEF Init, Exclusive, Distinct, Fresh, DbPc, WsPc, Creating
  <2>2. OneChannelPerPair
    BY DEF Init, DbInit, OneChannelPerPair, ChannelsBetween
  <2>3. OneIdPerName
    BY CrowAssumption DEF Init, DbInit, OneIdPerName
  <2> QED
    BY <2>1, <2>2, <2>3 DEF DbInv
<1> QED
  BY <1>1, TypeCorrect, StepDbInv, PTL DEF Spec

\* createChannel never gives a pair of users a second channel.
THEOREM PairHasOneChannel == Spec => []OneChannelPerPair
<1>1. DbInv => OneChannelPerPair
  BY DEF DbInv
<1> QED
  BY <1>1, TablesUnderMutex, PTL

\* createUser never gives a name a second id, with or without an index.
THEOREM NameHasOneId == Spec => []OneIdPerName
<1>1. DbInv => OneIdPerName
  BY DEF DbInv
<1> QED
  BY <1>1, TablesUnderMutex, PTL

-----------------------------------------------------------------------------
(***************************************************************************)
(* Who receives what.  A text is in its row before anybody is listed for a *)
(* push, everybody listed is a member and not the sender, and until then   *)
(* nobody has received anything.                                           *)
(***************************************************************************)
Addressed(r, u) ==
    /\ message[r] # None
    /\ <<message[r].channel, u>> \in membership
    /\ message[r].sender # u

Sound(r) ==
    /\ pc[r] \in {"insertSender", "insertReceiver", "members"} =>
          message[r] # None /\ message[r].sender = sid[r] /\ message[r].channel = chan[r]
    /\ \A u \in todo[r] : Addressed(r, u)
    /\ \A c \in Conn : got[c][r] > 0 => Addressed(r, ConnUser[c])
    /\ pc[r] \notin WsPc \cup EndPc =>
          todo[r] = {} /\ \A c \in Conn : got[c][r] = 0

Delivery == \A r \in Request : Sound(r)

\* Memberships are never withdrawn: a request that does not move stays sound.
LEMMA StaysSound ==
    ASSUME NEW q \in Request, Sound(q), pc'[q] = pc[q], sid'[q] = sid[q],
           chan'[q] = chan[q], todo'[q] = todo[q], message'[q] = message[q],
           \A c \in Conn : got'[c][q] = got[c][q],
           membership \subseteq membership'
    PROVE  Sound(q)'
  BY DEF Sound, Addressed

\* A request that moves on with its lists and its row as they are.
LEMMA MovesSound ==
    ASSUME TypeOK, Delivery, NEW r \in Request, NEW label,
           pc' = [pc EXCEPT ![r] = label],
           label \notin {"insertSender", "insertReceiver", "members"},
           label \in WsPc \cup EndPc \/ pc[r] \notin WsPc \cup EndPc,
           UNCHANGED <<sid, todo, message, got>>,
           \A q \in Request : q # r => chan'[q] = chan[q],
           membership \subseteq membership'
    PROVE  Delivery'
<1>1. ASSUME NEW q \in Request, q # r PROVE Sound(q)'
  <2>1. Sound(q) /\ pc'[q] = pc[q] /\ chan'[q] = chan[q]
    BY <1>1 DEF Delivery, TypeOK
  <2> QED
    BY <2>1, StaysSound
<1>2. Sound(r)'
  <2>1. Sound(r) /\ pc'[r] = label
    BY DEF Delivery, TypeOK
  <2> QED
    BY <2>1 DEF Sound, Addressed
<1> QED
  BY <1>1, <1>2 DEF Delivery

\* The row of a text is written before anybody can have received it.
LEMMA RowSound ==
    ASSUME TypeOK, Delivery, NEW r \in Request, NewMessage(r) \/ Persist(r)
    PROVE  Delivery'
<1> USE DbAssumption
<1>1. PICK label \in {"insertSender", "members"} : pc' = [pc EXCEPT ![r] = label]
  BY DEF NewMessage, Persist, Goto
<1>2. /\ pc[r] \notin WsPc \cup EndPc
      /\ sid[r] \in UserId /\ chan[r] \in ChannelId
      /\ message' = [message EXCEPT ![r] = [sender |-> sid[r], channel |-> chan[r]]]
      /\ UNCHANGED <<membership, sid, chan, todo, got>>
  BY DEF NewMessage, Persist, InsertMessage, UserExists, WsPc, EndPc, TypeOK, DbTypeOK,
     Sockets
<1>3. ASSUME NEW q \in Request, q # r PROVE Sound(q)'
  <2>1. Sound(q) /\ pc'[q] = pc[q] /\ message'[q] = message[q]
    BY <1>1, <1>2, <1>3 DEF Delivery, TypeOK, DbTypeOK
  <2> QED
    BY <1>2, <2>1, StaysSound
<1>4. Sound(r)'
  <2>1. message'[r] = [sender |-> sid[r], channel |-> chan[r]] /\ pc'[r] = label
    BY <1>1, <1>2 DEF TypeOK, DbTypeOK
  <2>2. message'[r] \in Message
    BY <1>2, <2>1 DEF Message
  <2>3. message'[r] # None /\ message'[r].sender = sid'[r] /\ message'[r].channel = chan'[r]
    BY <1>2, <2>1, <2>2
  <2>4. todo'[r] = {} /\ \A c \in Conn : got'[c][r] = 0
    BY <1>2 DEF Delivery, Sound
  <2> QED
    BY <2>3, <2>4 DEF Sound
<1> QED
  BY <1>3, <1>4 DEF Delivery

\* Only members other than the sender are listed for a push.
LEMMA ListSound ==
    ASSUME TypeOK, Distinct, Delivery, NEW r \in Request,
           NewReceiver(r) \/ FetchMembers(r)
    PROVE  Delivery'
<1> USE DbAssumption
<1>1. /\ pc' = [pc EXCEPT ![r] = "wantWs"]
      /\ pc[r] \in {"insertReceiver", "members"}
      /\ membership \subseteq membership'
      /\ UNCHANGED <<message, sid, chan, got>>
      /\ \A q \in Request : q # r => todo'[q] = todo[q]
  BY DEF NewReceiver, InsertMembership, FetchMembers, Goto, dbVars, Sockets, TypeOK
<1>2. ASSUME NEW q \in Request, q # r PROVE Sound(q)'
  <2>1. Sound(q) /\ pc'[q] = pc[q] /\ todo'[q] = todo[q]
    BY <1>1, <1>2 DEF Delivery, TypeOK
  <2> QED
    BY <1>1, <2>1, StaysSound
<1>3. Sound(r)'
  <2>1. /\ message[r] # None /\ message[r].sender = sid[r] /\ message[r].channel = chan[r]
        /\ \A c \in Conn : got[c][r] = 0
        /\ pc'[r] = "wantWs"
    BY <1>1 DEF Delivery, Sound, WsPc, EndPc, TypeOK
  <2>2. ASSUME NEW u \in todo'[r] PROVE <<chan[r], u>> \in membership' /\ u # sid[r]
    <3>1. CASE NewReceiver(r)
      <4>1. u = rid[r] /\ rid[r] \in UserId /\ <<chan[r], rid[r]>> \in membership'
        BY <2>2, <3>1 DEF NewReceiver, InsertMembership, UserExists, TypeOK
      <4>2. sid[r] # rid[r]
        BY <3>1, <4>1 DEF NewReceiver, Distinct, Creating
      <4> QED
        BY <4>1, <4>2
    <3>2. CASE FetchMembers(r)
      BY <1>1, <2>2, <3>2 DEF FetchMembers, Members, TypeOK
    <3> QED
      BY <3>1, <3>2
  <2>3. \A u \in todo'[r] : Addressed(r, u)'
    BY <1>1, <2>1, <2>2 DEF Addressed
  <2>4. \A c \in Conn : got'[c][r] = 0
    BY <1>1, <2>1
  <2> QED
    BY <2>1, <2>3, <2>4 DEF Sound, WsPc
<1> QED
  BY <1>2, <1>3 DEF Delivery

\* A connection that receives belongs to the member pushed to.
LEMMA PushSound ==
    ASSUME TypeOK, Registered, Delivery, NEW r \in Request, PushMember(r)
    PROVE  Delivery'
<1> USE CrowAssumption
<1>1. PICK u \in todo[r], broken \in SUBSET Conn :
        /\ todo' = [todo EXCEPT ![r] = @ \ {u}]
        /\ got' = [c \in Conn |->
              IF here[c] /\ c \notin broken
              THEN [got[c] EXCEPT ![r] = @ + wsMap[u][c]] ELSE got[c]]
  BY DEF PushMember
<1>2. pc[r] = "push" /\ UNCHANGED <<user, channel, message, membership, pc, sid, chan>>
  BY DEF PushMember, dbVars
<1>3. u \in UserId
  BY DEF TypeOK
<1>4. ASSUME NEW c \in Conn
      PROVE  /\ \A q \in Request : q # r => got'[c][q] = got[c][q]
             /\ got'[c][r] = got[c][r] \/ got'[c][r] = got[c][r] + wsMap[u][c]
  <2>1. got[c] \in [Request -> Nat]
    BY DEF TypeOK
  <2>2. got'[c] = [got[c] EXCEPT ![r] = @ + wsMap[u][c]] \/ got'[c] = got[c]
    BY <1>1, Zenon
  <2> QED
    BY <2>1, <2>2
<1>5. ASSUME NEW q \in Request, q # r PROVE Sound(q)'
  <2>1. Sound(q) /\ todo'[q] = todo[q]
    BY <1>1, <1>5 DEF Delivery, TypeOK
  <2> QED
    BY <1>2, <1>4, <1>5, <2>1, StaysSound
<1>6. Sound(r)'
  <2>1. Sound(r) /\ todo'[r] \subseteq todo[r]
    BY <1>1 DEF Delivery, TypeOK
  <2>2. \A v : Addressed(r, v) => Addressed(r, v)'
    BY <1>2 DEF Addressed
  <2>3. ASSUME NEW c \in Conn, got'[c][r] > 0 PROVE Addressed(r, ConnUser[c])
    <3>1. CASE got[c][r] > 0
      BY <2>1, <3>1 DEF Sound
    <3>2. CASE ~ got[c][r] > 0
      <4>1. got[c][r] \in Nat /\ wsMap[u][c] \in Nat
        BY <1>3 DEF TypeOK
      <4>2. wsMap[u][c] > 0
        BY <1>4, <2>3, <3>2, <4>1
      <4>3. u = ConnUser[c]
        BY <1>3, <4>2 DEF Registered
      <4> QED
        BY <2>1, <4>3 DEF Sound
    <3> QED
      BY <3>1, <3>2
  <2>4. /\ \A v \in todo'[r] : Addressed(r, v)'
        /\ \A c \in Conn : got'[c][r] > 0 => Addressed(r, ConnUser[c])'
    BY <2>1, <2>2, <2>3 DEF Sound
  <2>5. pc'[r] = "push"
    BY <1>2
  <2> QED
    BY <2>4, <2>5 DEF Sound, WsPc
<1> QED
  BY <1>5, <1>6 DEF Delivery

\* No step makes a delivery unsound.
LEMMA StepDelivery ==
    TypeOK /\ Registered /\ Distinct /\ Delivery /\ [Next]_vars => Delivery'
<1> SUFFICES ASSUME TypeOK, Registered, Distinct, Delivery, [Next]_vars PROVE Delivery'
  OBVIOUS
<1> USE DbAssumption, CrowAssumption
<1> DEFINE Row == {"insertSender", "insertReceiver", "members"}
<1>1. ASSUME NEW r \in Request, Send(r) PROVE Delivery'
  <2>1. /\ pc[r] = "idle" /\ pc'[r] = "wantDb"
        /\ UNCHANGED <<message, membership, todo, got>>
        /\ \A q \in Request : q # r =>
              pc'[q] = pc[q] /\ sid'[q] = sid[q] /\ chan'[q] = chan[q]
    BY <1>1 DEF Send, Goto, dbVars, Sockets, TypeOK
  <2>2. ASSUME NEW q \in Request, q # r PROVE Sound(q)'
    BY <2>1, <2>2, StaysSound DEF Delivery
  <2>3. Sound(r)'
    BY <2>1 DEF Delivery, Sound, WsPc, EndPc
  <2> QED
    BY <2>2, <2>3 DEF Delivery
<1>2. ASSUME NEW r \in Request, FindChannel(r) PROVE Delivery'
  <2>1. /\ pc[r] = "findChannel" /\ pc'[r] \in {"insertChannel", "history"}
        /\ UNCHANGED <<message, membership, todo, got>>
        /\ \A q \in Request : q # r =>
              pc'[q] = pc[q] /\ sid'[q] = sid[q] /\ chan'[q] = chan[q]
    BY <1>2 DEF FindChannel, Goto, dbVars, Sockets, TypeOK
  <2>2. ASSUME NEW q \in Request, q # r PROVE Sound(q)'
    BY <2>1, <2>2, StaysSound DEF Delivery
  <2>3. Sound(r)'
    BY <2>1 DEF Delivery, Sound, WsPc, EndPc
  <2> QED
    BY <2>2, <2>3 DEF Delivery
<1>3. ASSUME NEW r \in Request, NewSender(r) PROVE Delivery'
  <2>1. /\ pc[r] = "insertSender" /\ pc'[r] = "insertReceiver"
        /\ membership \subseteq membership'
        /\ UNCHANGED <<message, todo, got, sid, chan>>
        /\ \A q \in Request : q # r => pc'[q] = pc[q]
    BY <1>3 DEF NewSender, InsertMembership, Goto, Sockets, TypeOK
  <2>2. ASSUME NEW q \in Request, q # r PROVE Sound(q)'
    BY <2>1, <2>2, StaysSound DEF Delivery
  <2>3. Sound(r)'
    BY <2>1 DEF Delivery, Sound, WsPc, EndPc
  <2> QED
    BY <2>2, <2>3 DEF Delivery
<1>4. ASSUME NEW r \in Request,
             \/ Reject(r) \/ LockDb(r) \/ FindUser(r) \/ NewUser(r) \/ FetchHistory(r)
             \/ NewChannel(r) \/ LockWs(r) \/ PushDone(r) \/ Fail(r)
      PROVE  Delivery'
  <2>1. /\ UNCHANGED <<message, membership, sid, todo, got>>
        /\ \A q \in Request : q # r => chan'[q] = chan[q]
    BY <1>4 DEF Reject, LockDb, FindUser, NewUser, InsertUser, FetchHistory,
       NewChannel, InsertChannel, LockWs, PushDone, Fail, dbVars, Sockets, TypeOK
  <2>2. FirstPc(r) \in {"findUser", "findChannel", "persist"}
    <3>1. r.op \in Op
      OBVIOUS
    <3> QED
      BY <3>1 DEF FirstPc, Op
  <2>3. PICK label : /\ pc' = [pc EXCEPT ![r] = label]
                     /\ label \notin Row
                     /\ label \in WsPc \cup EndPc \/ pc[r] \notin WsPc \cup EndPc
    BY <1>4, <2>2 DEF Reject, LockDb, FindUser, NewUser, FetchHistory, NewChannel,
       LockWs, PushDone, Fail, Goto, Return, WsPc, EndPc
  <2> QED
    BY <2>1, <2>3, MovesSound
<1>5. ASSUME NEW c \in Conn, Open(c) \/ Leave(c) \/ Beat(c) \/ Callback(c) PROVE Delivery'
  <2>1. UNCHANGED <<message, membership, pc, sid, chan, todo, got>>
    BY <1>5 DEF Open, Leave, Beat, Callback, AppendConn, Upsert, Close,
       EraseConn, Handlers, handlerVars, dbVars
  <2> QED
    BY <2>1, StaysSound DEF Delivery
<1>6. ASSUME Crash PROVE Delivery'
  <2>1. UNCHANGED <<message, membership, sid, chan, got>>
    BY <1>6 DEF Crash, dbVars
  <2>2. ASSUME NEW r \in Request PROVE Sound(r)'
    <3>1. todo'[r] = {} /\ (pc'[r] = pc[r] \/ pc'[r] = "failed")
      BY <1>6 DEF Crash
    <3> QED
      BY <2>1, <3>1 DEF Delivery, Sound, Addressed, EndPc
  <2> QED
    BY <2>2 DEF Delivery
<1>7. ASSUME UNCHANGED vars PROVE Delivery'
  <2>1. UNCHANGED <<message, membership, pc, sid, chan, todo, got>>
    BY <1>7 DEF vars, handlerVars, dbVars
  <2> QED
    BY <2>1, StaysSound DEF Delivery
<1> QED
  BY <1>1, <1>2, <1>3, <1>4, <1>5, <1>6, <1>7, RowSound, ListSound, PushSound
     DEF Next, Handle

\* Whoever receives a text is a member of its channel, the text is in its
\* row, and the receiver is not its sender.
THEOREM OnlyMembersReceive == Spec => []ReceivedByMember
<1>1. Init => Delivery
  BY DEF Init, Delivery, Sound
<1>2. Delivery => ReceivedByMember
  BY DEF Delivery, Sound, Addressed, ReceivedByMember
<1>3. DbInv => Distinct
  BY DEF DbInv
<1> QED
  BY <1>1, <1>2, <1>3, TypeCorrect, RegisteredAreLive, TablesUnderMutex, StepDelivery,
     PTL DEF Spec
=============================================================================
