---------------------------- MODULE KqueueProofs ----------------------------
(***************************************************************************)
(* For any clients, descriptors and size of the read buffer: a client gets *)
(* back only its own bytes, in their order; bytes of a client that never   *)
(* exceeds the buffer are always announced to the loop; and no connection  *)
(* is closed whose client has not left, although descriptors are reused    *)
(* within a batch and EV_EOF is as old as the batch.                       *)
(***************************************************************************)
EXTENDS KqueueServer, SequenceTheorems, TLAPS

\* A byte carries its client and its number.
Byte == Client \X Nat

\* What Kevent reports.
Event == [fd : Fd \cup {Listener}, eof : BOOLEAN]

\* Types of the kernel's queues and of the loop's batch.
KTypeOK ==
    /\ state \in [Client -> {"new", "waiting", "served", "closed"}]
    /\ writes \in [Client -> BOOLEAN]
    /\ inq \in [Client -> Seq(Byte)]
    /\ sent \in [Client -> Nat]
    /\ got \in [Client -> Seq(Byte)]
    /\ backlog \in Seq(Client)
    /\ owner \in [Fd -> Client \cup {None}]
    /\ ready \subseteq Fd
    /\ batch \subseteq Event
    /\ excess \subseteq Client

\* The bytes of s come from client c, in the order in which it sent them.
InOrder(s, c) ==
    /\ \A i \in 1 .. Len(s) : s[i][1] = c /\ s[i][2] <= sent[c]
    /\ \A i, j \in 1 .. Len(s) : i < j => s[i][2] < s[j][2]

\* ... and what was echoed was sent before what is not read yet.
StreamInv ==
    \A c \in Client :
        /\ InOrder(got[c], c) /\ InOrder(inq[c], c)
        /\ \A i \in 1 .. Len(got[c]), j \in 1 .. Len(inq[c]) :
              got[c][i][2] < inq[c][j][2]

\* A connection waits in the backlog once, or has one descriptor, or none.
OwnerInv ==
    /\ \A i \in 1 .. Len(backlog) : state[backlog[i]] = "waiting"
    /\ \A i, j \in 1 .. Len(backlog) : backlog[i] = backlog[j] => i = j
    /\ \A f \in Fd : owner[f] # None => state[owner[f]] = "served"
    /\ \A f, g \in Fd : owner[f] = owner[g] /\ owner[f] # None => f = g
    /\ \A f \in ready : owner[f] # None

\* A report of the batch, the only one for its descriptor, is about the
\* client that owns the descriptor now.
EventInv ==
    /\ \A d, e \in batch : d.fd = e.fd => d = e
    /\ \A e \in batch :
          IF e.fd = Listener THEN ~e.eof
          ELSE /\ owner[e.fd] # None
               /\ writes[owner[e.fd]] => ~e.eof /\ inq[owner[e.fd]] # <<>>

\* Bytes of a client that never exceeds the buffer are all in the buffer's
\* reach, and announced.
ReadInv ==
    /\ \A c \in Client : c \notin excess => Len(inq[c]) <= BufSize
    /\ \A f \in Fd :
          /\ owner[f] # None /\ inq[owner[f]] # <<>>
          /\ f \notin ready /\ owner[f] \notin excess
          => \E e \in batch : e.fd = f

\* The inductive invariant.
KInv == KTypeOK /\ StreamInv /\ OwnerInv /\ EventInv /\ ReadInv

-----------------------------------------------------------------------------
\* Nothing is connected when the loop starts.
LEMMA KInitInv == Init => KInv
<1>. SUFFICES ASSUME Init PROVE KInv
  OBVIOUS
<1>0. <<>> \in Seq(Byte) /\ <<>> \in Seq(Client) /\ Len(<<>>) = 0
  BY EmptySeq
<1>1. KTypeOK
  BY <1>0 DEF Init, KTypeOK
<1>2. StreamInv
  <2>1. \A c \in Client : got[c] = <<>> /\ inq[c] = <<>>
    BY DEF Init
  <2>2. 1 .. Len(<<>>) = {}
    BY <1>0
  <2>. QED
    BY <2>1, <2>2 DEF StreamInv, InOrder
<1>3. OwnerInv
  BY <1>0 DEF Init, OwnerInv
<1>4. EventInv
  BY DEF Init, EventInv
<1>5. ReadInv
  BY <1>0, KqueueAssumption DEF Init, ReadInv
<1>. QED
  BY <1>1, <1>2, <1>3, <1>4, <1>5 DEF KInv

\* What Read returns.
LEMMA ReadLenFacts ==
    ASSUME KTypeOK, NEW c \in Client
    PROVE  /\ ReadLen(c) \in Nat /\ Len(inq[c]) \in Nat
           /\ ReadLen(c) <= Len(inq[c]) /\ ReadLen(c) <= BufSize
           /\ Len(inq[c]) <= BufSize => ReadLen(c) = Len(inq[c])
           /\ inq[c] # <<>> => ReadLen(c) > 0
<1>1. inq[c] \in Seq(Byte)
  BY DEF KTypeOK
<1>2. Len(inq[c]) \in Nat /\ (inq[c] # <<>> => Len(inq[c]) > 0)
  BY <1>1, LenProperties, EmptySeq
<1>. QED
  BY <1>2, KqueueAssumption DEF ReadLen

-----------------------------------------------------------------------------
\* A client connects.
LEMMA ConnectStep ==
    ASSUME KInv, NEW c \in Client, Connect(c)
    PROVE  KInv'
<1>. USE DEF KInv
<1>1. /\ backlog' \in Seq(Client)
      /\ Len(backlog) \in Nat /\ Len(backlog') = Len(backlog) + 1
      /\ \A i \in 1 .. Len(backlog) : backlog'[i] = backlog[i] /\ backlog[i] \in Client
      /\ backlog'[Len(backlog) + 1] = c
  BY AppendProperties, LenProperties, ElementOfSeq DEF Connect, KTypeOK
<1>2. KTypeOK'
  BY <1>1 DEF Connect, KTypeOK
<1>3. StreamInv'
  BY DEF Connect, StreamInv, InOrder
<1>4. OwnerInv'
  <2>1. \A f \in Fd : owner[f] # c
    BY KqueueAssumption DEF Connect, OwnerInv, KTypeOK
  <2>2. \A i \in 1 .. Len(backlog) : backlog[i] # c
    BY DEF Connect, OwnerInv, KTypeOK
  <2>3. \A i \in 1 .. Len(backlog') : state'[backlog'[i]] = "waiting"
    BY <1>1, <2>2 DEF Connect, OwnerInv, KTypeOK
  <2>4. \A i, j \in 1 .. Len(backlog') : backlog'[i] = backlog'[j] => i = j
    BY <1>1, <2>2 DEF OwnerInv
  <2>. QED
    BY <2>1, <2>3, <2>4 DEF Connect, OwnerInv, KTypeOK
<1>5. EventInv'
  <2>1. \A f \in Fd : owner[f] # c
    BY KqueueAssumption DEF Connect, OwnerInv, KTypeOK
  <2>. QED
    BY <2>1 DEF Connect, EventInv, KTypeOK, Event
<1>6. ReadInv'
  BY DEF Connect, ReadInv
<1>. QED
  BY <1>2, <1>3, <1>4, <1>5, <1>6

\* A client sends a byte.
LEMMA SendStep ==
    ASSUME KInv, NEW c \in Client, Send(c)
    PROVE  KInv'
<1>. USE DEF KInv
<1>0. inq[c] \in Seq(Byte) /\ <<c, sent[c] + 1>> \in Byte /\ sent[c] \in Nat
  BY DEF KTypeOK, Byte
<1>1. /\ inq'[c] \in Seq(Byte)
      /\ Len(inq[c]) \in Nat /\ Len(inq'[c]) = Len(inq[c]) + 1
      /\ \A i \in 1 .. Len(inq[c]) : inq'[c][i] = inq[c][i]
      /\ inq'[c][Len(inq[c]) + 1] = <<c, sent[c] + 1>>
      /\ inq'[c] # <<>>
  <2>1. inq'[c] = Append(inq[c], <<c, sent[c] + 1>>)
    BY DEF Send, KTypeOK
  <2>. QED
    BY <1>0, <2>1, AppendProperties, LenProperties
<1>2. \A d \in Client : d # c => inq'[d] = inq[d]
  BY DEF Send, KTypeOK
<1>3. KTypeOK'
  BY <1>0, <1>1, <1>2 DEF Send, KTypeOK, FdsOf
<1>4. StreamInv'
  <2>. SUFFICES ASSUME NEW d \in Client
                PROVE  /\ InOrder(got[d], d)' /\ InOrder(inq[d], d)'
                       /\ \A i \in 1 .. Len(got[d]), j \in 1 .. Len(inq'[d]) :
                             got[d][i][2] < inq'[d][j][2]
    BY DEF Send, StreamInv
  <2>1. CASE d # c
    BY <2>1, <1>2 DEF Send, StreamInv, InOrder, KTypeOK
  <2>2. CASE d = c
    <3>1. got' = got /\ sent'[c] = sent[c] + 1
      BY DEF Send, KTypeOK
    <3>2. /\ \A i \in 1 .. Len(got[c]) : got[c][i] \in Byte
          /\ \A i \in 1 .. Len(inq[c]) : inq[c][i] \in Byte
      BY ElementOfSeq DEF KTypeOK
    <3>3. /\ \A i \in 1 .. Len(got[c]) : got[c][i][2] \in Nat
          /\ \A i \in 1 .. Len(inq[c]) : inq[c][i][2] \in Nat
      BY <3>2 DEF Byte
    <3>4. InOrder(got[c], c)'
      BY <1>0, <3>1, <3>3 DEF StreamInv, InOrder
    <3>5. \A i \in 1 .. Len(inq'[c]) :
             \/ i \in 1 .. Len(inq[c]) /\ inq'[c][i] = inq[c][i]
             \/ i = Len(inq[c]) + 1 /\ inq'[c][i] = <<c, sent[c] + 1>>
      BY <1>1
    <3>6. \A i \in 1 .. Len(inq'[c]) :
             \/ i \in 1 .. Len(inq[c]) /\ inq'[c][i] = inq[c][i]
             \/ /\ i = Len(inq[c]) + 1
                /\ inq'[c][i][1] = c /\ inq'[c][i][2] = sent[c] + 1
      BY <3>5
    <3>7. InOrder(inq[c], c)'
      <4>1. ASSUME NEW i \in 1 .. Len(inq'[c])
            PROVE  inq'[c][i][1] = c /\ inq'[c][i][2] <= sent'[c]
        <5>1. CASE i \in 1 .. Len(inq[c]) /\ inq'[c][i] = inq[c][i]
          <6>1. inq[c][i][1] = c /\ inq[c][i][2] <= sent[c]
            BY <5>1 DEF StreamInv, InOrder
          <6>. QED
            BY <1>0, <3>1, <3>3, <5>1, <6>1
        <5>2. CASE inq'[c][i][1] = c /\ inq'[c][i][2] = sent[c] + 1
          BY <1>0, <3>1, <5>2
        <5>. QED
          BY <3>6, <5>1, <5>2
      <4>2. ASSUME NEW i \in 1 .. Len(inq'[c]), NEW j \in 1 .. Len(inq'[c]), i < j
            PROVE  inq'[c][i][2] < inq'[c][j][2]
        <5>1. i \in 1 .. Len(inq[c]) /\ inq'[c][i] = inq[c][i]
          BY <1>1, <4>2
        <5>2. CASE j \in 1 .. Len(inq[c]) /\ inq'[c][j] = inq[c][j]
          BY <4>2, <5>1, <5>2 DEF StreamInv, InOrder
        <5>3. CASE inq'[c][j][2] = sent[c] + 1
          <6>1. inq[c][i][2] <= sent[c]
            BY <5>1 DEF StreamInv, InOrder
          <6>. QED
            BY <1>0, <3>3, <5>1, <5>3, <6>1
        <5>. QED
          BY <3>6, <5>2, <5>3
      <4>. QED
        BY <4>1, <4>2 DEF InOrder
    <3>8. ASSUME NEW i \in 1 .. Len(got[c]), NEW j \in 1 .. Len(inq'[c])
          PROVE  got[c][i][2] < inq'[c][j][2]
      <4>1. CASE j \in 1 .. Len(inq[c]) /\ inq'[c][j] = inq[c][j]
        BY <4>1 DEF StreamInv
      <4>2. CASE inq'[c][j][2] = sent[c] + 1
        <5>1. got[c][i][2] <= sent[c]
          BY DEF StreamInv, InOrder
        <5>. QED
          BY <1>0, <3>3, <4>2, <5>1
      <4>. QED
        BY <3>6, <4>1, <4>2
    <3>. QED
      BY <2>2, <3>4, <3>7, <3>8
  <2>. QED
    BY <2>1, <2>2
<1>5. OwnerInv'
  BY KqueueAssumption DEF Send, OwnerInv, FdsOf
<1>6. EventInv'
  BY <1>1, <1>2, KqueueAssumption DEF Send, EventInv, KTypeOK, Event
<1>7. ReadInv'
  <2>1. \A d \in Client : d \notin excess' => Len(inq'[d]) <= BufSize
    BY <1>1, <1>2, KqueueAssumption DEF Send, ReadInv
  <2>2. \A f \in Fd : owner[f] = c => f \in ready'
    BY DEF Send, FdsOf
  <2>. QED
    BY <1>2, <2>1, <2>2 DEF Send, ReadInv, KTypeOK, FdsOf
<1>. QED
  BY <1>3, <1>4, <1>5, <1>6, <1>7

\* A client finishes.
LEMMA FinishStep ==
    ASSUME KInv, NEW c \in Client, Finish(c)
    PROVE  KInv'
<1>. USE DEF KInv
<1>1. KTypeOK'
  BY DEF Finish, KTypeOK, FdsOf
<1>2. StreamInv'
  BY DEF Finish, StreamInv, InOrder
<1>3. OwnerInv'
  BY KqueueAssumption DEF Finish, OwnerInv, FdsOf
<1>4. EventInv'
  BY DEF Finish, EventInv, KTypeOK, Event
<1>5. ReadInv'
  BY DEF Finish, ReadInv
<1>. QED
  BY <1>1, <1>2, <1>3, <1>4, <1>5
\* A client resets the connection: StreamInv and ReadInv lose its bytes,
\* OwnerInv its place in the backlog.
LEMMA ResetStep ==
    ASSUME KInv, NEW c \in Client, Reset(c)
    PROVE  KInv'
<1>. USE DEF KInv
<1>0. <<>> \in Seq(Byte) /\ Len(<<>>) = 0 /\ 1 .. Len(<<>>) = {}
  BY EmptySeq
<1>1. inq'[c] = <<>> /\ \A d \in Client : d # c => inq'[d] = inq[d]
  BY DEF Reset, KTypeOK
<1>. DEFINE BacklogOk ==
              /\ backlog' \in Seq(Client)
              /\ state' \in [Client -> {"new", "waiting", "served", "closed"}]
              /\ \A i \in 1 .. Len(backlog') : state'[backlog'[i]] = "waiting"
              /\ \A i, j \in 1 .. Len(backlog') : backlog'[i] = backlog'[j] => i = j
              /\ \A f \in Fd : owner[f] # None => state'[owner[f]] = "served"
<1>2. BacklogOk
  <2>1. CASE UNCHANGED <<state, backlog>>
    BY <2>1 DEF KTypeOK, OwnerInv
  <2>2. ASSUME NEW i \in 1 .. Len(backlog), backlog[i] = c,
               state' = [state EXCEPT ![c] = "closed"],
               backlog' = SubSeq(backlog, 1, i - 1)
                              \o SubSeq(backlog, i + 1, Len(backlog))
        PROVE  BacklogOk
    <3>. DEFINE n == Len(backlog)
                s == SubSeq(backlog, 1, i - 1)
                t == SubSeq(backlog, i + 1, n)
    <3>1. n \in Nat /\ i \in 1 .. n /\ \A j \in 1 .. n : backlog[j] \in Client
      BY LenProperties, ElementOfSeq DEF KTypeOK
    <3>2. /\ s \in Seq(Client) /\ Len(s) = i - 1
          /\ \A j \in 1 .. i - 1 : s[j] = backlog[j]
      <4>1. \A j \in 1 .. i - 1 : backlog[j] \in Client
        BY <3>1
      <4>2. 1 \in Int /\ i - 1 \in Int /\ (i - 1) - 1 + 1 = i - 1
        BY <3>1
      <4>3. /\ s \in Seq(Client)
            /\ Len(s) = IF 1 <= i - 1 THEN (i - 1) - 1 + 1 ELSE 0
            /\ \A j \in 1 .. (i - 1) - 1 + 1 : s[j] = backlog[1 + j - 1]
        BY <4>1, <4>2, SubSeqProperties
      <4>. HIDE DEF s
      <4>. QED
        BY <3>1, <4>2, <4>3
    <3>3. /\ t \in Seq(Client) /\ Len(t) = n - i
          /\ \A j \in 1 .. n - i : t[j] = backlog[i + j]
      <4>1. \A j \in i + 1 .. n : backlog[j] \in Client
        BY <3>1
      <4>2. i + 1 \in Int /\ n \in Int
        BY <3>1
      <4>3. /\ t \in Seq(Client)
            /\ Len(t) = IF i + 1 <= n THEN n - (i + 1) + 1 ELSE 0
            /\ \A j \in 1 .. n - (i + 1) + 1 : t[j] = backlog[(i + 1) + j - 1]
        BY <4>1, <4>2, SubSeqProperties
      <4>. HIDE DEF t, n
      <4>. QED
        BY <3>1, <4>2, <4>3
    <3>. HIDE DEF s, t
    <3>4. /\ backlog' \in Seq(Client)
          /\ Len(backlog') = Len(s) + Len(t)
          /\ \A j \in 1 .. Len(s) + Len(t) :
                backlog'[j] = IF j <= Len(s) THEN s[j] ELSE t[j - Len(s)]
      BY <2>2, <3>2, <3>3, ConcatProperties DEF s, t
    <3>. HIDE DEF n
    <3>5. Len(backlog') = n - 1
      BY <3>1, <3>2, <3>3, <3>4
    <3>6. \A j \in 1 .. n - 1 :
             /\ j < i => j \in 1 .. n /\ backlog'[j] = backlog[j]
             /\ j >= i => j + 1 \in 1 .. n /\ backlog'[j] = backlog[j + 1]
      <4>. SUFFICES ASSUME NEW j \in 1 .. n - 1
                    PROVE  /\ j < i => j \in 1 .. n /\ backlog'[j] = backlog[j]
                           /\ j >= i => j + 1 \in 1 .. n /\ backlog'[j] = backlog[j + 1]
        OBVIOUS
      <4>1. j \in 1 .. Len(s) + Len(t)
        BY <3>1, <3>2, <3>3
      <4>2. CASE j < i
        <5>1. j <= Len(s) /\ j \in 1 .. i - 1 /\ j \in 1 .. n /\ ~(j >= i)
          BY <3>1, <3>2, <4>2
        <5>2. backlog'[j] = s[j] /\ s[j] = backlog[j]
          BY <3>2, <3>4, <4>1, <5>1
        <5>. QED
          BY <5>1, <5>2
      <4>3. CASE j >= i
        <5>1. j - (i - 1) \in 1 .. n - i /\ i + (j - (i - 1)) = j + 1
          BY <3>1, <4>3
        <5>. QED
          BY <3>1, <3>2, <3>3, <3>4, <4>1, <4>3, <5>1
      <4>. QED
        BY <3>1, <4>2, <4>3
    <3>7. \A j, k \in 1 .. n : backlog[j] = backlog[k] => j = k
      BY DEF OwnerInv, n
    <3>8. \A j \in 1 .. n : state[backlog[j]] = "waiting"
      BY DEF OwnerInv, n
    <3>9. ASSUME NEW j \in 1 .. Len(backlog') PROVE state'[backlog'[j]] = "waiting"
      <4>1. PICK k \in 1 .. n : backlog'[j] = backlog[k] /\ k # i
        BY <3>1, <3>5, <3>6
      <4>2. backlog[k] # c /\ backlog[k] \in Client
        BY <2>2, <3>1, <3>7, <4>1
      <4>. QED
        BY <2>2, <3>8, <4>1, <4>2 DEF KTypeOK
    <3>10. ASSUME NEW j \in 1 .. Len(backlog'), NEW k \in 1 .. Len(backlog'),
                  backlog'[j] = backlog'[k]
           PROVE  j = k
      BY <3>1, <3>5, <3>6, <3>7, <3>10
    <3>11. \A f \in Fd : owner[f] # None => state'[owner[f]] = "served"
      <4>1. state[c] = "waiting"
        BY <2>2, <3>1, <3>8
      <4>. QED
        BY <2>2, <4>1 DEF OwnerInv, KTypeOK
    <3>12. state' \in [Client -> {"new", "waiting", "served", "closed"}]
      BY <2>2 DEF KTypeOK
    <3>. QED
      BY <3>4, <3>9, <3>10, <3>11, <3>12
  <2>. QED
    BY <2>1, <2>2 DEF Reset
<1>3. KTypeOK'
  BY <1>0, <1>2 DEF Reset, KTypeOK, FdsOf
<1>4. StreamInv'
  <2>. SUFFICES ASSUME NEW d \in Client
                PROVE  /\ InOrder(got[d], d)' /\ InOrder(inq[d], d)'
                       /\ \A i \in 1 .. Len(got[d]), j \in 1 .. Len(inq'[d]) :
                             got[d][i][2] < inq'[d][j][2]
    BY DEF Reset, StreamInv
  <2>1. CASE d # c
    BY <2>1, <1>1 DEF Reset, StreamInv, InOrder
  <2>2. CASE d = c
    BY <1>0, <1>1, <2>2 DEF Reset, StreamInv, InOrder
  <2>. QED
    BY <2>1, <2>2
<1>5. OwnerInv'
  BY <1>2, KqueueAssumption DEF Reset, OwnerInv, FdsOf
<1>6. EventInv'
  BY <1>1 DEF Reset, EventInv, KTypeOK, Event
<1>7. ReadInv'
  BY <1>0, <1>1, KqueueAssumption DEF Reset, ReadInv, KTypeOK
<1>. QED
  BY <1>3, <1>4, <1>5, <1>6, <1>7

-----------------------------------------------------------------------------
\* Kevent returns.
LEMMA PollStep ==
    ASSUME KInv, Poll
    PROVE  KInv'
<1>. USE DEF KInv
<1>. DEFINE Told == {g \in ready : inq[owner[g]] # <<>> \/ ~writes[owner[g]]}
            Reports == {[fd |-> f, eof |-> ~writes[owner[f]]] : f \in Told}
            Accepts == IF backlog = <<>> THEN {} ELSE {[fd |-> Listener, eof |-> FALSE]}
<1>1. /\ batch = {} /\ batch' = Reports \cup Accepts /\ ready' = {}
      /\ UNCHANGED <<state, writes, inq, sent, got, backlog, owner, excess>>
  BY Zenon DEF Poll
<1>2. \A f \in Told : f \in Fd /\ owner[f] \in Client /\ owner[f] # None
  BY DEF OwnerInv, KTypeOK
<1>3. \A e \in batch' : \/ \E f \in Told : e = [fd |-> f, eof |-> ~writes[owner[f]]]
                        \/ e = [fd |-> Listener, eof |-> FALSE]
  BY <1>1
<1>4. \A f \in Told : [fd |-> f, eof |-> ~writes[owner[f]]] \in batch'
  BY <1>1
<1>5. KTypeOK'
  <2>1. ASSUME NEW e \in batch'
        PROVE  e \in Event
    <3>1. CASE \E f \in Told : e = [fd |-> f, eof |-> ~writes[owner[f]]]
      <4>1. PICK f \in Told : e = [fd |-> f, eof |-> ~writes[owner[f]]]
        BY <3>1
      <4>2. f \in Fd /\ (~writes[owner[f]]) \in BOOLEAN
        BY <1>2 DEF KTypeOK
      <4>. QED
        BY <4>1, <4>2, Zenon DEF Event
    <3>2. CASE e = [fd |-> Listener, eof |-> FALSE]
      BY <3>2 DEF Event
    <3>. QED
      BY <1>3, <3>1, <3>2
  <2>. HIDE DEF Told
  <2>. QED
    BY <1>1, <2>1 DEF KTypeOK
<1>6. StreamInv'
  BY <1>1 DEF StreamInv, InOrder
<1>7. OwnerInv'
  BY <1>1 DEF OwnerInv
<1>8. EventInv'
  <2>1. ASSUME NEW d \in batch', NEW e \in batch', d.fd = e.fd
        PROVE  d = e
    <3>1. \A f \in Told : f # Listener
      BY <1>2, KqueueAssumption
    <3>2. CASE d.fd = Listener
      <4>1. d = [fd |-> Listener, eof |-> FALSE] /\ e = [fd |-> Listener, eof |-> FALSE]
        <5>1. ASSUME NEW x \in batch', x.fd = Listener
              PROVE  x = [fd |-> Listener, eof |-> FALSE]
          <6>1. \A f \in Told : x # [fd |-> f, eof |-> ~writes[owner[f]]]
            BY <3>1, <5>1
          <6>. QED
            BY <1>3, <6>1, Zenon
        <5>. QED
          BY <2>1, <3>2, <5>1
      <4>. QED
        BY <4>1
    <3>3. CASE d.fd # Listener
      <4>1. PICK f \in Told : d = [fd |-> f, eof |-> ~writes[owner[f]]]
        BY <1>3, <3>3
      <4>2. PICK g \in Told : e = [fd |-> g, eof |-> ~writes[owner[g]]]
        BY <1>3, <2>1, <3>3
      <4>3. f = g
        BY <2>1, <4>1, <4>2
      <4>. QED
        BY <4>1, <4>2, <4>3, Zenon
    <3>. QED
      BY <3>2, <3>3
  <2>2. ASSUME NEW e \in batch'
        PROVE  IF e.fd = Listener THEN ~e.eof
               ELSE /\ owner[e.fd] # None
                    /\ writes[owner[e.fd]] => ~e.eof /\ inq[owner[e.fd]] # <<>>
    <3>1. CASE \E f \in Told : e = [fd |-> f, eof |-> ~writes[owner[f]]]
      <4>1. PICK f \in Told : e = [fd |-> f, eof |-> ~writes[owner[f]]]
        BY <3>1
      <4>2. e.fd = f /\ f # Listener /\ (e.eof <=> ~writes[owner[f]])
        BY <1>2, <4>1, KqueueAssumption
      <4>3. owner[f] # None /\ (writes[owner[f]] => inq[owner[f]] # <<>>)
        BY <1>2
      <4>. HIDE DEF Told
      <4>. QED
        BY <4>2, <4>3
    <3>2. CASE e = [fd |-> Listener, eof |-> FALSE]
      BY <3>2
    <3>. QED
      BY <1>3, <3>1, <3>2
  <2>. QED
    BY <1>1, <2>1, <2>2 DEF EventInv
<1>9. ReadInv'
  <2>1. ASSUME NEW f \in Fd, owner[f] # None, inq[owner[f]] # <<>>, owner[f] \notin excess
        PROVE  \E e \in batch' : e.fd = f
    <3>1. f \in ready
      BY <1>1, <2>1 DEF ReadInv
    <3>2. [fd |-> f, eof |-> ~writes[owner[f]]] \in batch'
      BY <1>4, <2>1, <3>1
    <3>. QED
      BY <3>2
  <2>. QED
    BY <1>1, <2>1 DEF ReadInv
<1>. QED
  BY <1>5, <1>6, <1>7, <1>8, <1>9

\* syscall.Close of the descriptor an event is about.
LEMMA CloseStep ==
    ASSUME KInv, NEW e \in batch, e.fd # Listener, CloseFd(e.fd),
           batch' = batch \ {e},
           UNCHANGED <<writes, inq, sent, got, backlog, excess>>
    PROVE  KInv'
<1>. USE DEF KInv
<1>. DEFINE f == e.fd
<1>1. f \in Fd /\ owner[f] \in Client
  BY DEF KTypeOK, Event, EventInv
<1>. HIDE DEF f
<1>2. /\ state' = [state EXCEPT ![owner[f]] = "closed"]
      /\ owner' = [owner EXCEPT ![f] = None]
      /\ ready' = ready \ {f}
  BY DEF CloseFd, f
<1>3. KTypeOK'
  BY <1>1, <1>2 DEF KTypeOK
<1>4. StreamInv'
  BY DEF StreamInv, InOrder
<1>5. OwnerInv'
  <2>1. \A i \in 1 .. Len(backlog) : backlog[i] # owner[f]
    BY <1>1, KqueueAssumption DEF OwnerInv
  <2>2. \A i \in 1 .. Len(backlog) : backlog[i] \in Client
    BY ElementOfSeq DEF KTypeOK
  <2>3. \A i \in 1 .. Len(backlog') : state'[backlog'[i]] = "waiting"
    BY <1>1, <1>2, <2>1, <2>2 DEF OwnerInv, KTypeOK
  <2>4. \A g \in Fd : owner'[g] # None => g # f /\ owner'[g] = owner[g]
    BY <1>1, <1>2 DEF KTypeOK
  <2>5. \A g \in Fd : owner'[g] # None => state'[owner'[g]] = "served"
    BY <1>1, <1>2, <2>4, KqueueAssumption DEF OwnerInv, KTypeOK
  <2>. QED
    BY <1>1, <1>2, <2>3, <2>4, <2>5 DEF OwnerInv, KTypeOK
<1>6. EventInv'
  <2>1. \A d \in batch' : d \in batch /\ d.fd # f /\ d.fd \in Fd \cup {Listener}
    BY DEF EventInv, f, KTypeOK, Event
  <2>. QED
    BY <1>1, <1>2, <2>1 DEF EventInv, KTypeOK
<1>7. ReadInv'
  <2>1. \A g \in Fd : owner'[g] # None => g # f /\ owner'[g] = owner[g]
    BY <1>1, <1>2 DEF KTypeOK
  <2>2. ASSUME NEW g \in Fd, owner'[g] # None, inq'[owner'[g]] # <<>>,
               g \notin ready', owner'[g] \notin excess'
        PROVE  \E d \in batch' : d.fd = g
    <3>1. PICK d \in batch : d.fd = g
      BY <1>2, <2>1, <2>2 DEF ReadInv
    <3>2. d # e
      BY <2>1, <2>2, <3>1 DEF f
    <3>. QED
      BY <3>1, <3>2
  <2>. QED
    BY <2>2 DEF ReadInv
<1>. QED
  BY <1>3, <1>4, <1>5, <1>6, <1>7

\* What Accept takes off the backlog.
LEMMA BacklogHead ==
    ASSUME KTypeOK, OwnerInv, backlog # <<>>
    PROVE  /\ Head(backlog) \in Client /\ state[Head(backlog)] = "waiting"
           /\ Tail(backlog) \in Seq(Client)
           /\ \A i \in 1 .. Len(Tail(backlog)) :
                 /\ Tail(backlog)[i] \in Client
                 /\ Tail(backlog)[i] # Head(backlog)
                 /\ state[Tail(backlog)[i]] = "waiting"
           /\ \A i, j \in 1 .. Len(Tail(backlog)) :
                 Tail(backlog)[i] = Tail(backlog)[j] => i = j
<1>1. backlog \in Seq(Client)
  BY DEF KTypeOK
<1>2. /\ Tail(backlog) \in Seq(Client) /\ Len(Tail(backlog)) = Len(backlog) - 1
      /\ \A i \in 1 .. Len(Tail(backlog)) : Tail(backlog)[i] = backlog[i + 1]
  BY <1>1, HeadTailProperties
<1>3. Len(backlog) \in Nat \ {0}
  BY <1>1, EmptySeq
<1>4. Head(backlog) = backlog[1] /\ 1 \in 1 .. Len(backlog)
  BY <1>1, <1>3
<1>5. \A i \in 1 .. Len(backlog) : backlog[i] \in Client
  BY <1>1, ElementOfSeq
<1>6. \A i \in 1 .. Len(Tail(backlog)) : i + 1 \in 1 .. Len(backlog) /\ i + 1 # 1
  BY <1>2, <1>3
<1>7. ASSUME NEW i \in 1 .. Len(Tail(backlog)), NEW j \in 1 .. Len(Tail(backlog)),
             Tail(backlog)[i] = Tail(backlog)[j]
      PROVE  i = j
  <2>1. i + 1 = j + 1
    BY <1>2, <1>6, <1>7 DEF OwnerInv
  <2>. QED
    BY <1>2, <1>3, <2>1
<1>. QED
  BY <1>2, <1>4, <1>5, <1>6, <1>7 DEF OwnerInv

\* Accept returns a connection and Kevent registers it.
LEMMA AcceptStep ==
    ASSUME KInv, NEW e \in batch, HandleAccept(e)
    PROVE  KInv'
<1>. USE DEF KInv
<1>. DEFINE c == Head(backlog)
<1>1. /\ e.fd = Listener /\ backlog # <<>> /\ batch' = batch \ {e}
      /\ backlog' = Tail(backlog)
      /\ state' = [state EXCEPT ![c] = "served"]
      /\ UNCHANGED <<writes, inq, sent, got, excess>>
  BY DEF HandleAccept
<1>2. PICK f \in Fd :
        /\ owner[f] = None
        /\ owner' = [owner EXCEPT ![f] = c]
        /\ ready' = IF inq[c] # <<>> \/ ~writes[c] THEN ready \cup {f} ELSE ready
  BY DEF HandleAccept, FdsOf
<1>3. /\ c \in Client /\ c # None /\ state[c] = "waiting"
      /\ \A g \in Fd : owner[g] # c
  BY <1>1, BacklogHead, KqueueAssumption DEF OwnerInv
<1>4. /\ backlog' \in Seq(Client)
      /\ \A i \in 1 .. Len(backlog') :
            /\ backlog'[i] \in Client /\ backlog'[i] # c
            /\ state[backlog'[i]] = "waiting"
      /\ \A i, j \in 1 .. Len(backlog') : backlog'[i] = backlog'[j] => i = j
  BY <1>1, BacklogHead
<1>. HIDE DEF c
<1>5. KTypeOK'
  BY <1>1, <1>2, <1>3, <1>4 DEF KTypeOK
<1>6. StreamInv'
  BY <1>1 DEF StreamInv, InOrder
<1>7. \A g \in Fd : owner'[g] = IF g = f THEN c ELSE owner[g]
  BY <1>2 DEF KTypeOK
<1>8. OwnerInv'
  <2>1. \A i \in 1 .. Len(backlog') : state'[backlog'[i]] = "waiting"
    BY <1>1, <1>4 DEF KTypeOK
  <2>2. \A g \in Fd : owner'[g] # None => state'[owner'[g]] = "served"
    BY <1>1, <1>3, <1>7 DEF OwnerInv, KTypeOK
  <2>3. \A g, h \in Fd : owner'[g] = owner'[h] /\ owner'[g] # None => g = h
    BY <1>3, <1>7 DEF OwnerInv
  <2>4. \A g \in ready' : owner'[g] # None
    BY <1>2, <1>3, <1>7 DEF OwnerInv, KTypeOK
  <2>. QED
    BY <1>4, <2>1, <2>2, <2>3, <2>4 DEF OwnerInv
<1>9. EventInv'
  <2>1. \A d \in batch' : d \in batch /\ (d.fd # Listener => d.fd \in Fd /\ d.fd # f)
    BY <1>1, <1>2 DEF EventInv, KTypeOK, Event
  <2>2. \A d \in batch' : d.fd # Listener => owner'[d.fd] = owner[d.fd]
    BY <1>7, <2>1
  <2>. QED
    BY <1>1, <2>1, <2>2 DEF EventInv
<1>10. ReadInv'
  <2>1. ASSUME NEW g \in Fd, owner'[g] # None, inq'[owner'[g]] # <<>>,
               g \notin ready', owner'[g] \notin excess'
        PROVE  \E d \in batch' : d.fd = g
    <3>1. g # f
      BY <1>1, <1>2, <1>7, <2>1
    <3>2. PICK d \in batch : d.fd = g
      BY <1>1, <1>2, <1>7, <2>1, <3>1 DEF ReadInv
    <3>3. d # e
      BY <1>1, <3>2, KqueueAssumption
    <3>. QED
      BY <1>1, <3>2, <3>3
  <2>. QED
    BY <1>1, <2>1 DEF ReadInv
<1>. QED
  BY <1>5, <1>6, <1>8, <1>9, <1>10

\* Accept returns a connection and closes it.
LEMMA RegisterFailsStep ==
    ASSUME KInv, NEW e \in batch, RegisterFails(e)
    PROVE  KInv'
<1>. USE DEF KInv
<1>. DEFINE c == Head(backlog)
<1>1. /\ e.fd = Listener /\ backlog # <<>> /\ batch' = batch \ {e}
      /\ backlog' = Tail(backlog)
      /\ state' = [state EXCEPT ![c] = "closed"]
      /\ UNCHANGED <<writes, inq, sent, got, owner, ready, excess>>
  BY DEF RegisterFails
<1>2. /\ c \in Client /\ state[c] = "waiting"
      /\ \A g \in Fd : owner[g] # c
  BY <1>1, BacklogHead, KqueueAssumption DEF OwnerInv
<1>3. /\ backlog' \in Seq(Client)
      /\ \A i \in 1 .. Len(backlog') :
            /\ backlog'[i] \in Client /\ backlog'[i] # c
            /\ state[backlog'[i]] = "waiting"
      /\ \A i, j \in 1 .. Len(backlog') : backlog'[i] = backlog'[j] => i = j
  BY <1>1, BacklogHead
<1>. HIDE DEF c
<1>4. KTypeOK'
  BY <1>1, <1>2, <1>3 DEF KTypeOK
<1>5. StreamInv'
  BY <1>1 DEF StreamInv, InOrder
<1>6. OwnerInv'
  <2>1. \A i \in 1 .. Len(backlog') : state'[backlog'[i]] = "waiting"
    BY <1>1, <1>3 DEF KTypeOK
  <2>2. \A g \in Fd : owner[g] # None => state'[owner[g]] = "served"
    BY <1>1, <1>2 DEF OwnerInv, KTypeOK
  <2>. QED
    BY <1>1, <1>3, <2>1, <2>2 DEF OwnerInv
<1>7. EventInv'
  BY <1>1 DEF EventInv
<1>8. ReadInv'
  BY <1>1, KqueueAssumption DEF ReadInv, KTypeOK
<1>. QED
  BY <1>4, <1>5, <1>6, <1>7, <1>8

\* Accept fails.
LEMMA AcceptFailsStep ==
    ASSUME KInv, NEW e \in batch, AcceptFails(e)
    PROVE  KInv'
<1>. USE DEF KInv
<1>1. /\ e.fd = Listener /\ batch' = batch \ {e}
      /\ UNCHANGED <<state, writes, inq, sent, got, backlog, owner, ready, excess>>
  BY DEF AcceptFails
<1>2. KTypeOK'
  BY <1>1 DEF KTypeOK
<1>3. StreamInv'
  BY <1>1 DEF StreamInv, InOrder
<1>4. OwnerInv'
  BY <1>1 DEF OwnerInv
<1>5. EventInv'
  BY <1>1 DEF EventInv
<1>6. ReadInv'
  BY <1>1, KqueueAssumption DEF ReadInv, KTypeOK
<1>. QED
  BY <1>2, <1>3, <1>4, <1>5, <1>6

\* One Read and one Write: the bytes read leave inq, a prefix of them is
\* appended to got.
LEMMA DataStep ==
    ASSUME KInv, NEW e \in batch, HandleData(e)
    PROVE  KInv'
<1>. USE DEF KInv
<1>. DEFINE f == e.fd
            c == owner[e.fd]
            n == ReadLen(c)
<1>1. /\ f # Listener /\ n > 0 /\ batch' = batch \ {e}
      /\ inq' = [inq EXCEPT ![c] = SubSeq(inq[c], n + 1, Len(inq[c]))]
      /\ UNCHANGED <<state, writes, sent, backlog, owner, ready, excess>>
  BY DEF HandleData
<1>2. PICK k \in 0 .. n : got' = [got EXCEPT ![c] = got[c] \o SubSeq(inq[c], 1, k)]
  BY DEF HandleData
<1>3. f \in Fd /\ c \in Client
  BY <1>1 DEF KTypeOK, Event, EventInv
<1>4. c = owner[f]
  OBVIOUS
<1>. HIDE DEF f, c, n
<1>5. /\ n \in Nat /\ Len(inq[c]) \in Nat /\ n <= Len(inq[c])
      /\ Len(inq[c]) <= BufSize => n = Len(inq[c])
  BY <1>3, ReadLenFacts DEF n
<1>6. /\ inq[c] \in Seq(Byte) /\ got[c] \in Seq(Byte) /\ Len(got[c]) \in Nat
      /\ \A i \in 1 .. Len(inq[c]) : inq[c][i] \in Byte
      /\ \A i \in 1 .. Len(got[c]) : got[c][i] \in Byte
  BY <1>3, ElementOfSeq, LenProperties DEF KTypeOK
<1>7. /\ inq'[c] \in Seq(Byte) /\ Len(inq'[c]) = Len(inq[c]) - n
      /\ \A i \in 1 .. Len(inq'[c]) :
            n + i \in 1 .. Len(inq[c]) /\ inq'[c][i] = inq[c][n + i]
  <2>. DEFINE m == Len(inq[c])
              t == SubSeq(inq[c], n + 1, m)
  <2>1. inq'[c] = t
    BY <1>1, <1>3 DEF KTypeOK
  <2>2. n + 1 \in Int /\ m \in Int /\ \A i \in n + 1 .. m : inq[c][i] \in Byte
    BY <1>5, <1>6
  <2>3. /\ t \in Seq(Byte) /\ Len(t) = IF n + 1 <= m THEN m - (n + 1) + 1 ELSE 0
        /\ \A i \in 1 .. m - (n + 1) + 1 : t[i] = inq[c][(n + 1) + i - 1]
    BY <2>2, SubSeqProperties
  <2>. HIDE DEF t
  <2>4. Len(t) = m - n
    BY <1>5, <2>3
  <2>5. ASSUME NEW i \in 1 .. Len(t)
        PROVE  n + i \in 1 .. m /\ t[i] = inq[c][n + i]
    <3>1. i \in 1 .. m - (n + 1) + 1 /\ (n + 1) + i - 1 = n + i
      BY <1>5, <2>4
    <3>. QED
      BY <1>5, <2>3, <2>4, <3>1
  <2>. QED
    BY <2>1, <2>3, <2>4, <2>5
<1>8. /\ got'[c] \in Seq(Byte) /\ Len(got'[c]) = Len(got[c]) + k
      /\ \A i \in 1 .. Len(got'[c]) :
            \/ i \in 1 .. Len(got[c]) /\ got'[c][i] = got[c][i]
            \/ /\ i > Len(got[c]) /\ i - Len(got[c]) \in 1 .. n
               /\ i - Len(got[c]) \in 1 .. Len(inq[c])
               /\ got'[c][i] = inq[c][i - Len(got[c])]
  <2>. DEFINE g == Len(got[c])
              t == SubSeq(inq[c], 1, k)
  <2>1. got'[c] = got[c] \o t
    BY <1>2, <1>3 DEF KTypeOK
  <2>2. 1 \in Int /\ k \in Int /\ \A i \in 1 .. k : inq[c][i] \in Byte
    BY <1>5, <1>6
  <2>3. /\ t \in Seq(Byte) /\ Len(t) = IF 1 <= k THEN k - 1 + 1 ELSE 0
        /\ \A i \in 1 .. k - 1 + 1 : t[i] = inq[c][1 + i - 1]
    BY <2>2, SubSeqProperties
  <2>. HIDE DEF t
  <2>4. Len(t) = k /\ \A i \in 1 .. k : t[i] = inq[c][i]
    BY <1>5, <2>3
  <2>5. /\ got'[c] \in Seq(Byte) /\ Len(got'[c]) = g + k
        /\ \A i \in 1 .. g + k :
              got'[c][i] = IF i <= g THEN got[c][i] ELSE t[i - g]
    <3>1. /\ got[c] \o t \in Seq(Byte) /\ Len(got[c] \o t) = Len(got[c]) + Len(t)
          /\ \A i \in 1 .. Len(got[c]) + Len(t) :
                (got[c] \o t)[i] = IF i <= Len(got[c]) THEN got[c][i] ELSE t[i - Len(got[c])]
      BY <1>6, <2>3, ConcatProperties
    <3>. QED
      BY <2>1, <2>4, <3>1
  <2>. HIDE DEF g
  <2>6. g \in Nat
    BY <1>6 DEF g
  <2>7. ASSUME NEW i \in 1 .. g + k
        PROVE  \/ i \in 1 .. g /\ got'[c][i] = got[c][i]
               \/ /\ i > g /\ i - g \in 1 .. n /\ i - g \in 1 .. Len(inq[c])
                  /\ got'[c][i] = inq[c][i - g]
    <3>1. CASE i <= g
      BY <2>5, <2>6, <3>1
    <3>2. CASE i > g
      <4>1. i - g \in 1 .. k /\ i - g \in 1 .. n /\ i - g \in 1 .. Len(inq[c]) /\ ~(i <= g)
        BY <1>5, <2>6, <3>2
      <4>2. got'[c][i] = t[i - g]
        BY <2>5, <4>1
      <4>. QED
        BY <2>4, <3>2, <4>1, <4>2
    <3>. QED
      BY <2>6, <3>1, <3>2
  <2>. QED
    BY <2>5, <2>7 DEF g
<1>9. \A d \in Client : d # c => inq'[d] = inq[d] /\ got'[d] = got[d]
  BY <1>1, <1>2 DEF KTypeOK
<1>10. KTypeOK'
  BY <1>1, <1>2, <1>7, <1>8, <1>9 DEF KTypeOK
<1>11. StreamInv'
  <2>. SUFFICES ASSUME NEW d \in Client
                PROVE  /\ InOrder(got[d], d)' /\ InOrder(inq[d], d)'
                       /\ \A i \in 1 .. Len(got'[d]), j \in 1 .. Len(inq'[d]) :
                             got'[d][i][2] < inq'[d][j][2]
    BY DEF StreamInv
  <2>1. CASE d # c
    <3>1. inq'[d] = inq[d] /\ got'[d] = got[d] /\ sent' = sent
      BY <1>1, <1>9, <2>1
    <3>2. /\ InOrder(got[d], d) /\ InOrder(inq[d], d)
          /\ \A i \in 1 .. Len(got[d]), j \in 1 .. Len(inq[d]) :
                got[d][i][2] < inq[d][j][2]
      BY DEF StreamInv
    <3>3. (InOrder(got[d], d)' <=> InOrder(got[d], d)) /\ (InOrder(inq[d], d)' <=> InOrder(inq[d], d))
      BY <3>1 DEF InOrder
    <3>. QED
      BY <3>1, <3>2, <3>3
  <2>2. CASE d = c
    <3>1. sent'[c] = sent[c]
      BY <1>1
    <3>2. InOrder(got[c], c) /\ InOrder(inq[c], c)
      BY <1>3 DEF StreamInv
    <3>3. InOrder(inq[c], c)'
      <4>1. ASSUME NEW i \in 1 .. Len(inq'[c])
            PROVE  inq'[c][i][1] = c /\ inq'[c][i][2] <= sent'[c]
        BY <1>7, <3>1, <3>2 DEF InOrder
      <4>2. ASSUME NEW i \in 1 .. Len(inq'[c]), NEW j \in 1 .. Len(inq'[c]), i < j
            PROVE  inq'[c][i][2] < inq'[c][j][2]
        <5>1. n + i < n + j
          BY <1>5, <1>7, <4>2
        <5>. QED
          BY <1>7, <3>2, <5>1 DEF InOrder
      <4>3. c' = c
        BY <1>1 DEF c
      <4>. QED
        BY <4>1, <4>2, <4>3 DEF InOrder
    <3>4. InOrder(got[c], c)'
      <4>1. ASSUME NEW i \in 1 .. Len(got'[c])
            PROVE  got'[c][i][1] = c /\ got'[c][i][2] <= sent'[c]
        BY <1>8, <3>1, <3>2 DEF InOrder
      <4>2. ASSUME NEW i \in 1 .. Len(got'[c]), NEW j \in 1 .. Len(got'[c]), i < j
            PROVE  got'[c][i][2] < got'[c][j][2]
        <5>1. CASE j \in 1 .. Len(got[c]) /\ got'[c][j] = got[c][j]
          <6>1. i \in 1 .. Len(got[c]) /\ got'[c][i] = got[c][i]
            BY <1>6, <1>8, <4>2, <5>1
          <6>. QED
            BY <3>2, <4>2, <5>1, <6>1 DEF InOrder
        <5>2. CASE /\ j - Len(got[c]) \in 1 .. Len(inq[c])
                   /\ got'[c][j] = inq[c][j - Len(got[c])]
          <6>1. CASE i \in 1 .. Len(got[c]) /\ got'[c][i] = got[c][i]
            BY <1>3, <5>2, <6>1 DEF StreamInv
          <6>2. CASE /\ i - Len(got[c]) \in 1 .. Len(inq[c])
                     /\ got'[c][i] = inq[c][i - Len(got[c])]
            <7>1. i - Len(got[c]) < j - Len(got[c])
              BY <1>6, <1>8, <4>2
            <7>. QED
              BY <3>2, <5>2, <6>2, <7>1 DEF InOrder
          <6>. QED
            BY <1>8, <6>1, <6>2
        <5>. QED
          BY <1>8, <5>1, <5>2
      <4>3. c' = c
        BY <1>1 DEF c
      <4>. QED
        BY <4>1, <4>2, <4>3 DEF InOrder
    <3>5. ASSUME NEW i \in 1 .. Len(got'[c]), NEW j \in 1 .. Len(inq'[c])
          PROVE  got'[c][i][2] < inq'[c][j][2]
      <4>1. n + j \in 1 .. Len(inq[c]) /\ inq'[c][j] = inq[c][n + j]
        BY <1>7
      <4>2. CASE i \in 1 .. Len(got[c]) /\ got'[c][i] = got[c][i]
        BY <1>3, <4>1, <4>2 DEF StreamInv
      <4>3. CASE /\ i - Len(got[c]) \in 1 .. n /\ i - Len(got[c]) \in 1 .. Len(inq[c])
                 /\ got'[c][i] = inq[c][i - Len(got[c])]
        <5>1. i - Len(got[c]) < n + j
          BY <1>5, <1>6, <1>7, <1>8, <4>3
        <5>. QED
          BY <3>2, <4>1, <4>3, <5>1 DEF InOrder
      <4>. QED
        BY <1>8, <4>2, <4>3
    <3>6. c' = c
      BY <1>1 DEF c
    <3>. QED
      BY <2>2, <3>3, <3>4, <3>5, <3>6 DEF InOrder
  <2>. QED
    BY <2>1, <2>2
<1>12. OwnerInv'
  BY <1>1 DEF OwnerInv
<1>13. EventInv'
  <2>1. \A d \in batch' : /\ d \in batch /\ d.fd # f
                          /\ d.fd # Listener => d.fd \in Fd
    BY <1>1 DEF EventInv, f, KTypeOK, Event
  <2>2. \A d \in batch' : d.fd # Listener => owner[d.fd] \in Client /\ owner[d.fd] # c
    BY <1>3, <1>4, <2>1 DEF EventInv, OwnerInv, KTypeOK
  <2>. QED
    BY <1>1, <1>9, <2>1, <2>2 DEF EventInv
<1>14. ReadInv'
  <2>1. ASSUME NEW d \in Client, d \notin excess'
        PROVE  Len(inq'[d]) <= BufSize
    <3>1. Len(inq[d]) <= BufSize
      BY <1>1, <2>1 DEF ReadInv
    <3>. QED
      BY <1>5, <1>7, <1>9, <3>1, KqueueAssumption
  <2>2. ASSUME NEW g \in Fd, owner'[g] # None, inq'[owner'[g]] # <<>>,
               g \notin ready', owner'[g] \notin excess'
        PROVE  \E d \in batch' : d.fd = g
    <3>1. owner[g] \in Client /\ owner'[g] = owner[g]
      BY <1>1, <2>2 DEF KTypeOK
    <3>2. g # f
      <4>1. SUFFICES ASSUME g = f PROVE FALSE
        OBVIOUS
      <4>2. owner[g] = c /\ Len(inq[c]) <= BufSize
        BY <1>1, <1>3, <1>4, <2>2, <4>1 DEF ReadInv
      <4>3. Len(inq'[c]) = 0
        BY <1>5, <1>7, <4>2
      <4>. QED
        BY <1>7, <2>2, <3>1, <4>2, <4>3, EmptySeq
    <3>3. owner[g] # c
      BY <1>3, <1>4, <3>1, <3>2, KqueueAssumption DEF OwnerInv
    <3>4. PICK d \in batch : d.fd = g
      BY <1>1, <1>9, <2>2, <3>1, <3>3 DEF ReadInv
    <3>5. d # e
      BY <3>2, <3>4 DEF f
    <3>. QED
      BY <1>1, <3>4, <3>5
  <2>. QED
    BY <2>1, <2>2 DEF ReadInv
<1>. QED
  BY <1>10, <1>11, <1>12, <1>13, <1>14

-----------------------------------------------------------------------------
\* An event's handling keeps the invariant.
LEMMA EventStep ==
    ASSUME KInv, NEW e \in batch,
           \/ HandleEof(e) \/ HandleAccept(e) \/ RegisterFails(e)
           \/ AcceptFails(e) \/ HandleData(e) \/ ReadFails(e)
    PROVE  KInv'
<1>1. CASE HandleEof(e)
  <2>1. e.fd # Listener
    BY <1>1 DEF HandleEof, KInv, EventInv
  <2>. QED
    BY <1>1, <2>1, CloseStep DEF HandleEof
<1>2. CASE ReadFails(e)
  BY <1>2, CloseStep DEF ReadFails
<1>. QED
  BY <1>1, <1>2, AcceptStep, RegisterFailsStep, AcceptFailsStep, DataStep

\* The invariant of the event loop.
THEOREM KqueueInvariant == Spec => []KInv
<1>1. KInv /\ [Next]_vars => KInv'
  <2>. SUFFICES ASSUME KInv, [Next]_vars PROVE KInv'
    OBVIOUS
  <2>1. UNCHANGED connVars => KInv'
    BY DEF connVars, KInv, KTypeOK, StreamInv, InOrder, OwnerInv, EventInv, ReadInv
  <2>. QED
    BY <2>1, ConnectStep, SendStep, FinishStep, ResetStep, PollStep, EventStep
       DEF Next, HandleEvent, KeventFails, Runs, vars
<1>. QED
  BY <1>1, KInitInv, PTL DEF Spec

\* EchoInOrder for any number of clients, descriptors and bytes.
THEOREM EchoKeepsOrder == Spec => []EchoInOrder
<1>1. KInv => EchoInOrder
  <2>. SUFFICES ASSUME KInv, NEW c \in Client, NEW i \in 1 .. Len(got[c])
                PROVE  /\ got[c][i][1] = c
                       /\ i > 1 => got[c][i - 1][2] < got[c][i][2]
    BY DEF EchoInOrder
  <2>1. InOrder(got[c], c) /\ Len(got[c]) \in Nat
    BY LenProperties DEF KInv, KTypeOK, StreamInv
  <2>2. i > 1 => i - 1 \in 1 .. Len(got[c]) /\ i - 1 < i
    BY <2>1
  <2>. QED
    BY <2>1, <2>2 DEF InOrder
<1>. QED
  BY <1>1, KqueueInvariant, PTL

\* SmallWritesAreRead: edge-triggered reports lose no bytes of a client that
\* stays within the buffer.
THEOREM SmallWritesReachEcho == Spec => []SmallWritesAreRead
<1>1. KInv => SmallWritesAreRead
  BY DEF KInv, ReadInv, SmallWritesAreRead
<1>. QED
  BY <1>1, KqueueInvariant, PTL

\* HangsUpOnTheGone, an action property: an event that closes a descriptor
\* is about its present owner.
THEOREM ClosesOnlyTheGone == Spec => HangsUpOnTheGone
<1>1. KInv /\ [Next]_vars =>
        [\A f \in Fd : owner[f] # None /\ owner'[f] # owner[f]
                         => ~writes[owner[f]]]_vars
  <2>. SUFFICES ASSUME KInv, Next, NEW f \in Fd, owner[f] # None, owner'[f] # owner[f]
                PROVE  ~writes[owner[f]]
    OBVIOUS
  <2>1. owner' # owner
    OBVIOUS
  <2>2. PICK e \in batch : HandleEof(e) \/ HandleAccept(e) \/ ReadFails(e)
    BY <2>1 DEF Next, HandleEvent, Connect, Send, Finish, Reset, Poll, RegisterFails,
                AcceptFails, HandleData, KeventFails, Runs, connVars
  <2>3. CASE HandleAccept(e)
    BY <2>3 DEF HandleAccept, FdsOf, KInv, KTypeOK
  <2>4. CASE HandleEof(e) \/ ReadFails(e)
    <3>1. e.fd # Listener /\ owner' = [owner EXCEPT ![e.fd] = None]
      BY <2>4 DEF HandleEof, ReadFails, CloseFd, KInv, EventInv
    <3>2. f = e.fd
      BY <3>1 DEF KInv, KTypeOK
    <3>3. owner[f] \in Client
      BY DEF KInv, KTypeOK
    <3>4. CASE HandleEof(e)
      BY <3>1, <3>2, <3>4 DEF HandleEof, KInv, EventInv
    <3>5. CASE ReadFails(e)
      <4>1. inq[owner[f]] = <<>>
        <5>1. ReadLen(owner[f]) = 0
          BY <3>2, <3>5 DEF ReadFails
        <5>. QED
          BY <3>3, <5>1, ReadLenFacts DEF KInv
      <4>. QED
        BY <3>1, <3>2, <4>1 DEF KInv, EventInv
    <3>. QED
      BY <2>4, <3>4, <3>5
  <2>. QED
    BY <2>2, <2>3, <2>4
<1>. QED
  BY <1>1, KqueueInvariant, PTL DEF Spec, HangsUpOnTheGone
=============================================================================
