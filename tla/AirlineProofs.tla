--------------------------- MODULE AirlineProofs ---------------------------
(***************************************************************************)
(* Proofs about AirlineCheckin, for every set of users, every number of    *)
(* seats and both isolation levels: no booked seat changes hands, a refusal *)
(* after a complete read is honest, no two transactions hold one seat, and the concurrent       *)
(* program implements SeatReservation.                                     *)
(*                                                                         *)
(* The argument is an invariant about what a transaction knows: the rows   *)
(* its locking read has passed are booked, and the row it picked is free,  *)
(* locked by it, and the lowest such row.                                  *)
(***************************************************************************)
EXTENDS AirlineCheckin, TLAPS

\* What the transactions know about the committed table.
Passed ==
    \A u \in User : \A s \in Seat :
        pc[u] = "scan" /\ s < pos[u] => seat[s] # None

Picked ==
    \A u \in User :
        pc[u] \in {"update", "commit"} /\ pick[u] # 0 =>
            /\ lock[pick[u]] = u
            /\ seat[pick[u]] = None
            /\ \A s \in Seat : s < pick[u] => seat[s] # None

\* Where a goroutine is and what it has stored and printed.
Local ==
    \A u \in User :
        /\ pc[u] \in {"unborn", "begin", "scan"} => pick[u] = 0 /\ said[u] = "nothing"
        /\ pc[u] \in {"unborn", "begin"} => pos[u] = 1
        /\ pc[u] = "update" => pick[u] # 0
        /\ pc[u] = "commit" /\ pick[u] = 0 => said[u] = "full"
        /\ pc[u] = "done" /\ pick[u] = 0 => said[u] = "full"
        /\ pc[u] # "unborn" => main # "start"

IInv == TypeOK /\ Passed /\ Picked /\ Local /\ HonestRefusal

\* Nothing is known, picked or printed at the start.
LEMMA InitIInv == Init => IInv
  BY CheckinAssumption DEF Init, IInv, TypeOK, Passed, Picked, Local,
     HonestRefusal, Seat, Live, Ended

\* Every step of main and of a goroutine preserves what is known.
LEMMA StepIInv == IInv /\ [Next]_vars => IInv'
<1> USE CheckinAssumption
<1> SUFFICES ASSUME IInv, [Next]_vars PROVE IInv'
  OBVIOUS
<1> USE DEF IInv, TypeOK, Passed, Picked, Local, HonestRefusal, Seat, Live,
            Ended
<1>1. CASE LoadUsers
  BY <1>1 DEF LoadUsers
<1>2. CASE WaitGroupDone
  BY <1>2 DEF WaitGroupDone
<1>3. ASSUME NEW u \in User, Begin(u) PROVE IInv'
  BY <1>3 DEF Begin
<1>4. ASSUME NEW u \in User, BeginFails(u) PROVE IInv'
  BY <1>4 DEF BeginFails
<1>5. ASSUME NEW u \in User, ScanRow(u) PROVE IInv'
  <2> DEFINE s == pos[u]
  <2>1. CASE seat[s] = None
    <3>1. /\ lock' = [lock EXCEPT ![s] = u]
          /\ pick' = [pick EXCEPT ![u] = s]
          /\ pc' = [pc EXCEPT ![u] = "update"]
          /\ s \in Seat /\ lock[s] = None
          /\ UNCHANGED <<pos, seat, main, said>>
      BY <1>5, <2>1 DEF ScanRow
    <3> QED
      BY <1>5, <2>1, <3>1 DEF ScanRow
  <2>2. CASE seat[s] # None
    <3>0. lock' = IF RepeatableRead THEN [lock EXCEPT ![s] = u] ELSE lock
      BY <1>5, <2>2 DEF ScanRow
    <3>1. /\ lock' = lock \/ lock' = [lock EXCEPT ![s] = u]
          /\ pos' = [pos EXCEPT ![u] = s + 1]
          /\ pc[u] = "scan" /\ s \in Seat /\ lock[s] = None
          /\ UNCHANGED <<pick, pc, seat, main, said>>
      <4>1. lock' = lock \/ lock' = [lock EXCEPT ![s] = u]
        BY <3>0, Zenon
      <4>2. s \in Seat
        BY <1>5 DEF ScanRow
      <4>3. /\ pos' = [pos EXCEPT ![u] = s + 1]
            /\ pc[u] = "scan" /\ lock[s] = None
            /\ UNCHANGED <<pick, pc, seat, main, said>>
        BY <1>5, <2>2 DEF ScanRow
      <4> QED
        BY <4>1, <4>2, <4>3
    <3>2. TypeOK'
      <4>1. lock' \in [Seat -> User \cup {None}]
        <5>1. CASE lock' = lock
          BY <5>1
        <5>2. CASE lock' = [lock EXCEPT ![s] = u]
          BY <5>2
        <5> QED
          BY <3>1, <5>1, <5>2
      <4>2. pos[u] + 1 \in 1 .. NSeat + 1
        BY <3>1
      <4>3. pos' \in [User -> 1 .. NSeat + 1]
        BY <3>1, <4>2
      <4> QED
        BY <3>1, <4>1, <4>3
    <3>3. Passed'
      BY <2>2, <3>1
    <3>4. Picked'
      BY <3>1
    <3>5. Local' /\ HonestRefusal'
      BY <3>1
    <3> QED
      BY <3>2, <3>3, <3>4, <3>5
  <2> QED
    BY <2>1, <2>2
<1>6. ASSUME NEW u \in User, ScanEnd(u) PROVE IInv'
  BY <1>6 DEF ScanEnd
<1>7. ASSUME NEW u \in User, Update(u) PROVE IInv'
  BY <1>7 DEF Update
<1>8. ASSUME NEW u \in User, StatementFails(u) PROVE IInv'
  BY <1>8 DEF StatementFails, Released
<1>9. ASSUME NEW u \in User, Commit(u) PROVE IInv'
  BY <1>9 DEF Commit, Released
<1>10. ASSUME NEW u \in User, CommitFails(u) PROVE IInv'
  BY <1>10 DEF CommitFails, Released
<1>11. ASSUME NEW u \in User, ScanBreaks(u) PROVE IInv'
  BY <1>11 DEF ScanBreaks, Released
<1>12. CASE Terminated \/ UNCHANGED vars
  BY <1>12 DEF Terminated, vars
<1> QED
  BY <1>1, <1>2, <1>3, <1>4, <1>5, <1>6, <1>7, <1>8, <1>9, <1>10, <1>11,
     <1>12 DEF Next, Transaction

\* The invariant about what transactions know holds in every behaviour.
THEOREM Inductive == Spec => []IInv
  BY InitIInv, StepIInv, PTL DEF Spec

-----------------------------------------------------------------------------
\* Every variable keeps its type, whatever fails.
THEOREM TypeCorrect == Spec => []TypeOK
<1>1. IInv => TypeOK
  BY DEF IInv
<1> QED
  BY Inductive, <1>1, PTL

\* After a read that went through all the rows "All seats booked!!" is printed
\* only if they are; "failed to book" is never printed.
THEOREM RefusalsAreHonest == Spec => []HonestRefusal
<1>1. IInv => HonestRefusal
  BY DEF IInv
<1> QED
  BY Inductive, <1>1, PTL

\* Between select and commit a seat belongs to one transaction: both would
\* hold the lock of its row.
THEOREM SeatHasOneBuyer == Spec => []OneBuyerPerSeat
<1>1. IInv => OneBuyerPerSeat
  <2> SUFFICES ASSUME IInv,
                      NEW u \in User, NEW v \in User,
                      u # v, pick[u] # 0,
                      pc[u] \in {"update", "commit"},
                      pc[v] \in {"update", "commit"},
                      pick[u] = pick[v]
               PROVE  FALSE
    BY DEF OneBuyerPerSeat
  <2>1. lock[pick[u]] = u /\ lock[pick[v]] = v
    BY DEF IInv, Picked
  <2> QED
    BY <2>1
<1> QED
  BY Inductive, <1>1, PTL

\* A commit writes the one seat its transaction found free.
LEMMA CommitWritesFreeSeat ==
    ASSUME IInv, NEW u \in User, Commit(u), pick[u] # 0
    PROVE  /\ pick[u] \in Seat
           /\ seat' = [seat EXCEPT ![pick[u]] = u]
           /\ seat[pick[u]] = None
           /\ \A t \in Seat : t < pick[u] => seat[t] # None
  BY CheckinAssumption DEF IInv, TypeOK, Picked, Commit, Seat

\* Every other step leaves the committed table alone.
LEMMA OnlyCommitWrites ==
    ASSUME [Next]_vars, \A u \in User : ~ Commit(u)
    PROVE  seat' = seat
  BY DEF Next, Transaction, LoadUsers, WaitGroupDone, Begin, BeginFails,
     ScanRow, ScanEnd, ScanBreaks, Update, StatementFails, CommitFails, Terminated, vars

\* A booked seat keeps its owner.
THEOREM BookedStaysBooked == Spec => NoOverwrite
<1> DEFINE Keeps == \A s \in Seat : seat[s] # None => seat'[s] = seat[s]
<1>1. IInv /\ [Next]_vars => [Keeps]_vars
  <2> SUFFICES ASSUME IInv, [Next]_vars PROVE Keeps
    OBVIOUS
  <2>1. ASSUME NEW u \in User, Commit(u), pick[u] = 0 PROVE Keeps
    BY <2>1 DEF Commit
  <2>2. ASSUME NEW u \in User, Commit(u), pick[u] # 0 PROVE Keeps
    BY <2>2, CommitWritesFreeSeat DEF IInv, TypeOK
  <2>3. CASE \A u \in User : ~ Commit(u)
    BY <2>3, OnlyCommitWrites
  <2> QED
    BY <2>1, <2>2, <2>3
<1> QED
  BY Inductive, <1>1, PTL DEF Spec, NoOverwrite

-----------------------------------------------------------------------------
\* The refinement mapping, and one step of the abstract specification.
Bar == [u \in User |-> Outcome(u)]
AbstractStep == Reservation!Next \/ UNCHANGED <<seat, Bar>>

\* At the start everybody waits, as in the abstract specification.
LEMMA BarInit == Init => Reservation!Init
<1> SUFFICES ASSUME Init PROVE Reservation!Init
  OBVIOUS
<1>1. \A u \in User : Outcome(u) = "waiting"
  BY DEF Init, Outcome
<1> QED
  BY <1>1 DEF Init, Reservation!Init, Reservation!Seat, Seat

\* Goroutines that end without a commit are refused together.
LEMMA RefuseStep ==
    ASSUME NEW S \in SUBSET User,
           UNCHANGED seat,
           \A u \in S : Outcome(u) = "waiting" /\ Outcome(u)' = "error",
           \A u \in User \ S : Outcome(u)' = Outcome(u)
    PROVE  AbstractStep
<1>1. S \in SUBSET {u \in User : Bar[u] = "waiting"}
  BY DEF Bar
<1>2. Bar' = [u \in User |-> IF u \in S THEN "error" ELSE Bar[u]]
  BY DEF Bar
<1>3. Reservation!Refuse
  BY <1>1, <1>2 DEF Reservation!Refuse, Bar
<1> QED
  BY <1>3 DEF AbstractStep, Reservation!Next

\* A goroutine that ends with the answer "full".
LEMMA TellFullStep ==
    ASSUME NEW u \in User,
           UNCHANGED seat,
           \A s \in Seat : seat[s] # None,
           Outcome(u) = "waiting" /\ Outcome(u)' = "full",
           \A v \in User \ {u} : Outcome(v)' = Outcome(v)
    PROVE  AbstractStep
<1>1. Bar' = [Bar EXCEPT ![u] = "full"] /\ Bar[u] = "waiting"
  BY DEF Bar
<1>2. Reservation!TellFull(u)
  BY <1>1 DEF Reservation!TellFull, Reservation!Seat, Seat, Bar
<1> QED
  BY <1>2 DEF AbstractStep, Reservation!Next

\* A step that changes neither the table nor any outcome.
LEMMA StutterStep ==
    ASSUME UNCHANGED seat, \A u \in User : Outcome(u)' = Outcome(u)
    PROVE  AbstractStep
  BY DEF AbstractStep, Bar

\* Every step is an abstract step or a stutter; a commit is where a booking
\* takes effect.
LEMMA RefinesStep ==
    ASSUME IInv, [Next]_vars
    PROVE  AbstractStep
<1> USE CheckinAssumption
<1> USE DEF Live, Ended
<1>1. CASE LoadUsers
  BY <1>1, StutterStep DEF LoadUsers, Outcome, IInv, TypeOK, Local
<1>2. CASE WaitGroupDone
  BY <1>2, StutterStep DEF WaitGroupDone, Outcome
<1>3. ASSUME NEW u \in User, Begin(u) \/ ScanEnd(u) \/ ScanBreaks(u) \/ Update(u)
      PROVE  AbstractStep
  BY <1>3, StutterStep
     DEF Begin, ScanEnd, ScanBreaks, Update, Outcome, IInv, TypeOK, Local
<1>4. ASSUME NEW u \in User, ScanRow(u) PROVE AbstractStep
  <2>1. /\ UNCHANGED seat
        /\ pc[u] = "scan" /\ pc'[u] \in Live
        /\ \A v \in User \ {u} :
              pc'[v] = pc[v] /\ pick'[v] = pick[v] /\ pos'[v] = pos[v]
    BY <1>4 DEF ScanRow, IInv, TypeOK
  <2>2. \A v \in User : Outcome(v)' = Outcome(v)
    BY <2>1 DEF Outcome
  <2> QED
    BY <2>1, <2>2, StutterStep
<1>5. ASSUME NEW u \in User, BeginFails(u) PROVE AbstractStep
  <2> DEFINE S == {v \in User : pc[v] \in Live}
  <2>1. \A v \in S : Outcome(v) = "waiting" /\ Outcome(v)' = "error"
    BY <1>5 DEF BeginFails, Outcome
  <2>2. \A v \in User \ S : Outcome(v)' = Outcome(v)
    BY <1>5 DEF BeginFails, Outcome
  <2>3. UNCHANGED seat
    BY <1>5 DEF BeginFails
  <2> QED
    BY <2>1, <2>2, <2>3, RefuseStep
<1>6. ASSUME NEW u \in User, StatementFails(u) PROVE AbstractStep
  <2>1. Outcome(u) = "waiting" /\ Outcome(u)' = "error"
    BY <1>6 DEF StatementFails, Outcome, IInv, TypeOK
  <2>2. \A v \in User \ {u} : Outcome(v)' = Outcome(v)
    BY <1>6 DEF StatementFails, Outcome, IInv, TypeOK
  <2>3. UNCHANGED seat
    BY <1>6 DEF StatementFails
  <2> QED
    BY <2>1, <2>2, <2>3, RefuseStep
\* With no seat picked the read reached the end, and the answer is "full"
\* whether or not Commit succeeds, or it broke off, which is an error.
<1>7. ASSUME NEW u \in User, Commit(u) \/ CommitFails(u), pick[u] = 0
      PROVE  AbstractStep
  <2>1. UNCHANGED seat
    BY <1>7 DEF Commit, CommitFails
  <2>2. Outcome(u) = "waiting"
    BY <1>7 DEF Commit, CommitFails, Outcome
  <2>3. Outcome(u)' = IF pos[u] = NSeat + 1 THEN "full" ELSE "error"
    BY <1>7 DEF Commit, CommitFails, Outcome, IInv, TypeOK
  <2>4. \A v \in User \ {u} : Outcome(v)' = Outcome(v)
    BY <1>7, <2>1 DEF Commit, CommitFails, Outcome, IInv, TypeOK
  <2>5. CASE pos[u] = NSeat + 1
    <3>1. \A s \in Seat : seat[s] # None
      BY <1>7, <2>5 DEF IInv, Local, HonestRefusal, Commit, CommitFails
    <3>2. Outcome(u)' = "full"
      BY <2>3, <2>5
    <3> QED
      BY <2>1, <2>2, <2>4, <3>1, <3>2, TellFullStep
  <2>6. CASE pos[u] # NSeat + 1
    <3>1. Outcome(u)' = "error"
      BY <2>3, <2>6
    <3> QED
      BY <2>1, <2>2, <2>4, <3>1, RefuseStep
  <2> QED
    BY <2>5, <2>6
<1>8. ASSUME NEW u \in User, CommitFails(u), pick[u] # 0 PROVE AbstractStep
  <2>1. Outcome(u) = "waiting" /\ Outcome(u)' = "error"
    BY <1>8 DEF CommitFails, Outcome, IInv, TypeOK, Picked
  <2>2. \A v \in User \ {u} : Outcome(v)' = Outcome(v)
    BY <1>8 DEF CommitFails, Outcome, IInv, TypeOK
  <2>3. UNCHANGED seat
    BY <1>8 DEF CommitFails
  <2> QED
    BY <2>1, <2>2, <2>3, RefuseStep
<1>9. ASSUME NEW u \in User, Commit(u), pick[u] # 0 PROVE AbstractStep
  <2>1. /\ pick[u] \in Seat
        /\ seat' = [seat EXCEPT ![pick[u]] = u]
        /\ seat[pick[u]] = None
        /\ \A t \in Seat : t < pick[u] => seat[t] # None
    BY <1>9, CommitWritesFreeSeat
  <2>2. /\ pick' = pick /\ pos' = pos
        /\ pc' = [pc EXCEPT ![u] = "done"] /\ pc[u] = "commit"
    BY <1>9 DEF Commit
  <2>3. Outcome(u) = "waiting" /\ Outcome(u)' = "booked"
    BY <1>9, <2>1, <2>2 DEF Outcome, IInv, TypeOK
  <2>4. \A v \in User \ {u} : Outcome(v)' = Outcome(v)
    <3> SUFFICES ASSUME NEW v \in User \ {u} PROVE Outcome(v)' = Outcome(v)
      OBVIOUS
    <3>1. pc'[v] = pc[v] /\ pick'[v] = pick[v] /\ pos'[v] = pos[v]
      BY <2>2 DEF IInv, TypeOK
    <3>2. pick[v] # 0 => (seat'[pick[v]] = v <=> seat[pick[v]] = v)
      BY <2>1 DEF IInv, TypeOK, Seat
    <3> QED
      BY <3>1, <3>2 DEF Outcome
  <2>5. Bar' = [Bar EXCEPT ![u] = "booked"] /\ Bar[u] = "waiting"
    BY <2>3, <2>4 DEF Bar
  <2>6. Reservation!Book(u)
    BY <2>1, <2>5 DEF Reservation!Book, Reservation!LowestFree,
       Reservation!Seat, Seat, Bar
  <2> QED
    BY <2>6 DEF AbstractStep, Reservation!Next
<1>10. CASE Terminated \/ UNCHANGED vars
  BY <1>10, StutterStep DEF Terminated, vars, Outcome
<1> QED
  BY <1>1, <1>2, <1>3, <1>4, <1>5, <1>6, <1>7, <1>8, <1>9, <1>10
     DEF Next, Transaction

\* The concurrent, failing, crashing program behaves as if users were served
\* one at a time with the lowest free seat.
THEOREM Refinement == Spec => ServesOneAtATime
<1>1. IInv /\ [Next]_vars => [Reservation!Next]_<<seat, Bar>>
  BY RefinesStep DEF AbstractStep
<1>2. IInv /\ [Next]_vars
        => [Reservation!Next]_<<seat, [u \in User |-> Outcome(u)]>>
  BY <1>1 DEF Bar
<1> QED
  BY BarInit, <1>2, Inductive, PTL DEF Spec, ServesOneAtATime, Reservation!Spec
=============================================================================
