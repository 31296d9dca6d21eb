------------------------- MODULE LoadBalancerProofs -------------------------
(***************************************************************************)
(* For any number of backends and connections: although LastUsed is raced  *)
(* on, no increment of a Total is lost, and the rotation goes on from the  *)
(* backend picked last as soon as nobody is choosing.                      *)
(***************************************************************************)
EXTENDS LoadBalancer, FiniteSetTheorems, TLAPS

\* Lines 42 to 46 of Proxy, executed under mu.
Critical == {"count", "add", "pick", "unlock"}

\* Lines at which Proxy has stored LastUsed and is yet to pick a backend.
WillPick == {"log", "lock", "count", "add", "pick"}

\* The requests NoLostCount counts for server i.
Counted(i) == {r \in Request :
    counted[r] = i /\ pc[r] \notin Choosing \ {"pick", "unlock"}}

\* mu excludes: its holder, and nobody else, is between Lock and Unlock.
MutexInv == \A r \in Request : pc[r] \in Critical <=> mu = r

\* What a request knows: before line 43 it is counted nowhere; at its store
\* the total it loaded is still there; when it dials it has a backend.
RequestInv ==
    \A r \in Request :
        /\ pc[r] \in {"new", "load", "store", "log", "lock", "count"} => counted[r] = N
        /\ pc[r] \notin {"new", "load", "store", "log", "lock", "count"} =>
              counted[r] \in Server
        /\ pc[r] = "add" => tmp[r] = total[counted[r]]
        /\ pc[r] \in {"unlock", "dial", "proxied"} => backend[r] \in Server

\* A value of LastUsed that nobody was sent to will still be picked.
RotationInv ==
    lastUsed # last => \E r \in Request : pc[r] \in WillPick

\* The inductive invariant.
LBInv == TypeOK /\ MutexInv /\ RequestInv /\ NoLostCount /\ RotationInv

-----------------------------------------------------------------------------
\* Cardinality(Counted(i)) is a number.
LEMMA CountedFinite ==
    ASSUME NEW i
    PROVE  IsFiniteSet(Counted(i)) /\ Cardinality(Counted(i)) \in Nat
<1>1. Counted(i) \subseteq Request
  BY DEF Counted
<1>. QED
  BY <1>1, LBAssumption, FS_Subset, FS_CardinalityType

\* NewLB establishes the invariant.
LEMMA LBInit == Init => LBInv
<1>. SUFFICES ASSUME Init PROVE LBInv
  OBVIOUS
<1>1. N - 1 \in Server /\ N \notin Server
  BY LBAssumption DEF Server
<1>2. TypeOK
  BY <1>1, LBAssumption DEF Init, TypeOK, Choosing, Direction
<1>3. MutexInv /\ RequestInv /\ RotationInv
  BY LBAssumption DEF Init, MutexInv, RequestInv, RotationInv, Critical
<1>4. ASSUME NEW i \in Server
      PROVE  Counted(i) = {}
  BY <1>1 DEF Counted, Init
<1>5. NoLostCount
  BY <1>4, FS_EmptySet DEF NoLostCount, Counted, Init
<1>. QED
  BY <1>2, <1>3, <1>5 DEF LBInv

\* Types.
LEMMA LBTypeStep ==
    ASSUME LBInv, [Next]_vars
    PROVE  TypeOK'
<1>. USE LBAssumption DEF LBInv, TypeOK, Choosing, At
<1>1. ASSUME NEW r \in Request, Accept(r) \/ AcceptFails(r) PROVE TypeOK'
  BY <1>1 DEF Accept, AcceptFails
<1>2. ASSUME NEW r \in Request, Load(r) PROVE TypeOK'
  BY <1>2 DEF Load, Server
<1>3. ASSUME NEW r \in Request, Store(r) PROVE TypeOK'
  <2>1. (tmp[r] + 1) % N \in Server
    BY DEF Server
  <2>. QED
    BY <1>3, <2>1 DEF Store
<1>4. ASSUME NEW r \in Request, Log(r) PROVE TypeOK'
  BY <1>4 DEF Log
<1>5. ASSUME NEW r \in Request, Lock(r) PROVE TypeOK'
  BY <1>5 DEF Lock
<1>6. ASSUME NEW r \in Request, Count(r) PROVE TypeOK'
  BY <1>6 DEF Count
<1>7. ASSUME NEW r \in Request, Add(r) PROVE TypeOK'
  <2>1. counted[r] \in Server /\ tmp[r] + 1 \in Nat
    BY <1>7 DEF Add, RequestInv
  <2>. QED
    BY <1>7, <2>1 DEF Add
<1>8. ASSUME NEW r \in Request, Pick(r) PROVE TypeOK'
  BY <1>8 DEF Pick
<1>9. ASSUME NEW r \in Request, Unlock(r) PROVE TypeOK'
  BY <1>9 DEF Unlock
<1>10. ASSUME NEW r \in Request, Forward(r) PROVE TypeOK'
  <2>1. ASSUME Dial(r) PROVE TypeOK'
    <3>1. Direction \in SUBSET Direction
      OBVIOUS
    <3>. QED
      BY <2>1, <3>1 DEF Dial
  <2>2. ASSUME DialFails(r) PROVE TypeOK'
    BY <2>2 DEF DialFails
  <2>3. ASSUME NEW d \in Direction, CopyEnds(r, d) PROVE TypeOK'
    <3>1. copying[r] \ {d} \in SUBSET Direction
      OBVIOUS
    <3>. QED
      BY <2>3, <3>1 DEF CopyEnds
  <2>4. ASSUME NEW d \in Direction, CopyFails(r, d) PROVE TypeOK'
    BY <2>4 DEF CopyFails
  <2>. QED
    BY <1>10, <2>1, <2>2, <2>3, <2>4 DEF Forward
<1>11. ASSUME NEW i \in Server, Toggle(i) PROVE TypeOK'
  BY <1>11 DEF Toggle
<1>12. CASE UNCHANGED vars
  BY <1>12 DEF vars
<1>. QED
  BY <1>1, <1>2, <1>3, <1>4, <1>5, <1>6, <1>7, <1>8, <1>9, <1>10, <1>11, <1>12
     DEF Next, Choose

\* Steps that change no total and move nobody into or out of Counted.
LEMMA SameCounts ==
    ASSUME NoLostCount, UNCHANGED total,
           \A i \in Server : Counted(i)' = Counted(i)
    PROVE  NoLostCount'
  BY DEF NoLostCount, Counted

\* The increment of a Total counts its request, and only it.
LEMMA AddCounts ==
    ASSUME LBInv, NEW r \in Request, Add(r)
    PROVE  NoLostCount'
<1>1. PICK s \in Server : s = counted[r] /\ tmp[r] = total[s]
  BY DEF Add, At, LBInv, RequestInv
<1>2. total' = [total EXCEPT ![s] = total[s] + 1]
  BY <1>1 DEF Add
<1>3. ASSUME NEW i \in Server, i # s
      PROVE  Counted(i)' = Counted(i)
  BY <1>1, <1>3 DEF Add, At, Counted, LBInv, TypeOK
<1>4. Counted(s)' = Counted(s) \cup {r} /\ r \notin Counted(s)
  BY <1>1 DEF Add, At, Counted, LBInv, TypeOK, Choosing
<1>5. Cardinality(Counted(s)') = Cardinality(Counted(s)) + 1
  BY <1>4, CountedFinite, FS_AddElement
<1>6. ASSUME NEW i \in Server
      PROVE  total'[i] = Cardinality(Counted(i)')
  <2>1. total[i] = Cardinality(Counted(i)) /\ total[s] = Cardinality(Counted(s))
    BY <1>1 DEF LBInv, NoLostCount, Counted
  <2>2. CASE i = s
    BY <1>1, <1>2, <1>5, <2>1, <2>2 DEF LBInv, TypeOK
  <2>3. CASE i # s
    BY <1>2, <1>3, <2>1, <2>3 DEF LBInv, TypeOK
  <2>. QED
    BY <2>2, <2>3
<1>. QED
  BY <1>6 DEF NoLostCount, Counted

\* Every step keeps the counts.
LEMMA CountStep ==
    ASSUME LBInv, [Next]_vars
    PROVE  NoLostCount'
<1>. USE LBAssumption DEF LBInv, TypeOK, Counted, Choosing
<1>1. N \notin Server
  BY DEF Server
<1>2. ASSUME NEW r \in Request,
             \/ Accept(r) \/ AcceptFails(r) \/ Load(r) \/ Store(r)
             \/ Log(r) \/ Lock(r)
      PROVE  \A i \in Server : UNCHANGED total /\ Counted(i)' = Counted(i)
  BY <1>1, <1>2 DEF Accept, AcceptFails, Load, Store, Log, Lock, At, RequestInv
<1>3. ASSUME NEW r \in Request, Count(r)
      PROVE  \A i \in Server : UNCHANGED total /\ Counted(i)' = Counted(i)
  BY <1>3 DEF Count, At
<1>4. ASSUME NEW r \in Request, Pick(r) \/ Unlock(r)
      PROVE  \A i \in Server : UNCHANGED total /\ Counted(i)' = Counted(i)
  BY <1>4 DEF Pick, Unlock, At
<1>5. ASSUME NEW r \in Request, Forward(r)
      PROVE  \A i \in Server : UNCHANGED total /\ Counted(i)' = Counted(i)
  BY <1>5 DEF Forward, Dial, DialFails, CopyEnds, CopyFails, At
<1>6. ASSUME NEW j \in Server, Toggle(j)
      PROVE  \A i \in Server : UNCHANGED total /\ Counted(i)' = Counted(i)
  BY <1>6 DEF Toggle
<1>7. CASE UNCHANGED vars
  BY <1>7, SameCounts DEF vars
<1>8. Server # {}
  BY DEF Server
<1>. QED
  BY <1>2, <1>3, <1>4, <1>5, <1>6, <1>7, <1>8, SameCounts, AddCounts DEF Next, Choose

\* Every step keeps what the requests know.
LEMMA RequestStep ==
    ASSUME LBInv, [Next]_vars
    PROVE  MutexInv' /\ RequestInv'
<1>. USE LBAssumption
     DEF LBInv, TypeOK, MutexInv, RequestInv, Critical, Choosing, At
<1>1. N \notin Server
  BY DEF Server
<1>2. ASSUME NEW r \in Request,
             \/ Accept(r) \/ AcceptFails(r) \/ Load(r) \/ Store(r)
             \/ Log(r) \/ Lock(r)
      PROVE  MutexInv' /\ RequestInv'
  BY <1>2 DEF Accept, AcceptFails, Load, Store, Log, Lock
<1>3. ASSUME NEW r \in Request, Count(r)
      PROVE  MutexInv' /\ RequestInv'
  BY <1>1, <1>3 DEF Count
<1>4. ASSUME NEW r \in Request, Add(r)
      PROVE  MutexInv' /\ RequestInv'
  <2>1. \A q \in Request : q # r => pc[q] # "add"
    BY <1>4 DEF Add
  <2>. QED
    BY <1>4, <2>1 DEF Add
<1>5. ASSUME NEW r \in Request, Pick(r) \/ Unlock(r)
      PROVE  MutexInv' /\ RequestInv'
  BY <1>5 DEF Pick, Unlock
<1>6. ASSUME NEW r \in Request, Forward(r)
      PROVE  MutexInv' /\ RequestInv'
  BY <1>6 DEF Forward, Dial, DialFails, CopyEnds, CopyFails
<1>7. ASSUME NEW j \in Server, Toggle(j)
      PROVE  MutexInv' /\ RequestInv'
  BY <1>7 DEF Toggle
<1>8. CASE UNCHANGED vars
  BY <1>8 DEF vars
<1>. QED
  BY <1>2, <1>3, <1>4, <1>5, <1>6, <1>7, <1>8 DEF Next, Choose

\* Whoever stores LastUsed picks later; whoever picks makes the two equal.
LEMMA RotationStep ==
    ASSUME LBInv, [Next]_vars
    PROVE  RotationInv'
<1>. USE DEF LBInv, TypeOK, RotationInv, WillPick, At
<1>1. ASSUME NEW r \in Request, Accept(r) \/ AcceptFails(r) \/ Load(r)
      PROVE  RotationInv'
  BY <1>1 DEF Accept, AcceptFails, Load
<1>2. ASSUME NEW r \in Request, Store(r) \/ Log(r) \/ Lock(r) \/ Count(r) \/ Add(r)
      PROVE  RotationInv'
  <2>1. pc'[r] \in WillPick
    BY <1>2 DEF Store, Log, Lock, Count, Add
  <2>. QED
    BY <2>1
<1>3. ASSUME NEW r \in Request, Pick(r)
      PROVE  RotationInv'
  BY <1>3 DEF Pick
<1>4. ASSUME NEW r \in Request, Unlock(r) \/ Forward(r)
      PROVE  RotationInv'
  BY <1>4 DEF Unlock, Forward, Dial, DialFails, CopyEnds, CopyFails
<1>5. ASSUME NEW j \in Server, Toggle(j)
      PROVE  RotationInv'
  BY <1>5 DEF Toggle
<1>6. CASE UNCHANGED vars
  BY <1>6 DEF vars
<1>. QED
  BY <1>1, <1>2, <1>3, <1>4, <1>5, <1>6 DEF Next, Choose

-----------------------------------------------------------------------------
\* The inductive invariant of Proxy.
THEOREM LBInvariant == Spec => []LBInv
<1>1. LBInv /\ [Next]_vars => LBInv'
  BY LBTypeStep, CountStep, RequestStep, RotationStep DEF LBInv
<1>. QED
  BY <1>1, LBInit, PTL DEF Spec

\* Total++ under mu loses no increment, for any number of requests that
\* overlap, although the index it uses is read from a variable mu does not
\* protect (main.go:42-45).
THEOREM CountsAreExact == Spec => []NoLostCount
<1>1. LBInv => NoLostCount
  BY DEF LBInv
<1>. QED
  BY <1>1, LBInvariant, PTL

\* Lost updates of LastUsed (main.go:37) do not outlive the burst that lost
\* them: the rotation resumes from the backend picked last.
THEOREM RotationContinues == Spec => []RotationResumes
<1>1. LBInv => RotationResumes
  BY DEF LBInv, RotationInv, RotationResumes, WillPick, Choosing
<1>. QED
  BY <1>1, LBInvariant, PTL
=============================================================================
