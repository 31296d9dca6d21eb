--------------------------- MODULE AirlineCheckin ---------------------------
(***************************************************************************)
(* airlineCheckin/main.go: one goroutine per user books a seat in a        *)
(* transaction "select ... where name is NULL ORDER BY id LIMIT 1 for      *)
(* update" + "update".  MySQL is external and modelled by what InnoDB does *)
(* for these statements: the locking read visits the rows in id order,     *)
(* waits for the exclusive lock of each, and sees its committed value; the *)
(* locks are released by commit or rollback.  Under READ COMMITTED the     *)
(* lock of a row that does not match is released at once.                  *)
(***************************************************************************)
EXTENDS Naturals

CONSTANTS
    User,            \* rows of table user
    NSeat,           \* table seat has the ids 1 .. NSeat
    None,            \* SQL NULL, and nobody for a lock
    RepeatableRead   \* isolation level: TRUE is MySQL's default

ASSUME CheckinAssumption ==
    /\ NSeat \in Nat
    /\ None \notin User
    /\ RepeatableRead \in BOOLEAN

Seat == 1 .. NSeat

VARIABLES
    seat,   \* committed table seat: seat[s] is column name
    lock,   \* lock[s]: the user whose transaction holds row s
    main,   \* progress of main
    pc,     \* pc[u]: progress of u's goroutine
    pos,    \* pos[u]: the row u's locking read examines next
    pick,   \* pick[u]: emptySeatId, 0 if none
    said    \* said[u]: what the goroutine printed

vars == <<seat, lock, main, pc, pos, pick, said>>

Live == {"begin", "scan", "update", "commit"}
Ended == {"done", "rolledBack", "dead"}

TypeOK ==
    /\ seat \in [Seat -> User \cup {None}]
    /\ lock \in [Seat -> User \cup {None}]
    /\ main \in {"start", "wait", "end", "panicked"}
    /\ pc \in [User -> {"unborn"} \cup Live \cup Ended]
    /\ pos \in [User -> 1 .. NSeat + 1]
    /\ pick \in [User -> 0 .. NSeat]
    /\ said \in [User -> {"nothing", "booked", "failed", "full"}]

\* Earlier runs of the program may have booked any seats.
Init ==
    /\ seat \in [Seat -> User \cup {None}]
    /\ lock = [s \in Seat |-> None]
    /\ main = "start"
    /\ pc = [u \in User |-> "unborn"]
    /\ pos = [u \in User |-> 1]
    /\ pick = [u \in User |-> 0]
    /\ said = [u \in User |-> "nothing"]

\* Locks after the transactions of the users in S have ended.
Released(S) == [s \in Seat |-> IF lock[s] \in S THEN None ELSE lock[s]]

-----------------------------------------------------------------------------
\* makeBooking: read all users, start a goroutine for each, wait for all.
\* rows.Err() is not asked: a read error leaves the users after it without a
\* goroutine.
LoadUsers ==
    /\ main = "start"
    /\ \/ \E S \in SUBSET User :
             /\ main' = "wait"
             /\ pc' = [u \in User |-> IF u \in S THEN "begin" ELSE "unborn"]
       \/ main' = "end" /\ UNCHANGED pc          \* the query failed
    /\ UNCHANGED <<seat, lock, pos, pick, said>>

\* wg.Wait() returns; main prints the seats and exits.
WaitGroupDone ==
    /\ main = "wait"
    /\ \A u \in User : pc[u] \in Ended \cup {"unborn"}
    /\ main' = "end"
    /\ UNCHANGED <<seat, lock, pc, pos, pick, said>>

-----------------------------------------------------------------------------
\* reserveEmptyForUser

Begin(u) ==
    /\ pc[u] = "begin" /\ main = "wait"
    /\ pc' = [pc EXCEPT ![u] = "scan"]
    /\ UNCHANGED <<seat, lock, main, pos, pick, said>>

\* Begin returns an error (too many connections, say) and a nil tx, on which
\* the handler calls Rollback: the nil dereference panics and ends the whole
\* process.  MySQL rolls back the transactions of its connections.
BeginFails(u) ==
    /\ pc[u] = "begin" /\ main = "wait"
    /\ main' = "panicked"
    /\ pc' = [v \in User |-> IF pc[v] \in Live THEN "dead" ELSE pc[v]]
    /\ lock' = [s \in Seat |-> None]
    /\ UNCHANGED <<seat, pos, pick, said>>

\* Mutant: the query lacks "for update".
ScanRow_Mut(u) ==
    LET s == pos[u]
    IN  /\ pc[u] = "scan" /\ s <= NSeat
        /\ \/ /\ seat[s] = None
              /\ pick' = [pick EXCEPT ![u] = s]
              /\ pc' = [pc EXCEPT ![u] = "update"]
              /\ UNCHANGED pos
           \/ /\ seat[s] # None
              /\ pos' = [pos EXCEPT ![u] = s + 1]
              /\ UNCHANGED <<pick, pc>>
        /\ UNCHANGED <<seat, main, said, lock>>

\* Mutant: "for update skip locked".
ScanSkipLocked_Mut(u) ==
    LET s == pos[u]
    IN  /\ pc[u] = "scan" /\ s <= NSeat
        /\ \/ /\ seat[s] = None /\ lock[s] = None
              /\ lock' = [lock EXCEPT ![s] = u]
              /\ pick' = [pick EXCEPT ![u] = s]
              /\ pc' = [pc EXCEPT ![u] = "update"]
              /\ UNCHANGED pos
           \/ /\ seat[s] # None \/ lock[s] # None
              /\ pos' = [pos EXCEPT ![u] = s + 1]
              /\ UNCHANGED <<pick, pc, lock>>
        /\ UNCHANGED <<seat, main, said>>

\* The locking read gets the lock of one more row and looks at it.
ScanRow(u) ==
    LET s == pos[u]
    IN  /\ pc[u] = "scan" /\ s <= NSeat
        /\ lock[s] = None
        /\ \/ /\ seat[s] = None
              /\ lock' = [lock EXCEPT ![s] = u]
              /\ pick' = [pick EXCEPT ![u] = s]
              /\ pc' = [pc EXCEPT ![u] = "update"]
              /\ UNCHANGED pos
           \/ /\ seat[s] # None
              /\ lock' = IF RepeatableRead THEN [lock EXCEPT ![s] = u] ELSE lock
              /\ pos' = [pos EXCEPT ![u] = s + 1]
              /\ UNCHANGED <<pick, pc>>
        /\ UNCHANGED <<seat, main, said>>

\* Mutant: emptySeatId is left behind the last row examined.
ScanEnd_Mut(u) ==
    /\ pc[u] = "scan" /\ pos[u] = NSeat + 1
    /\ pick' = [pick EXCEPT ![u] = pos[u]]
    /\ pc' = [pc EXCEPT ![u] = "update"]
    /\ UNCHANGED <<seat, lock, main, pos, said>>

\* No row matches: emptySeatId stays 0.
ScanEnd(u) ==
    /\ pc[u] = "scan" /\ pos[u] = NSeat + 1
    /\ said' = [said EXCEPT ![u] = "full"]
    /\ pc' = [pc EXCEPT ![u] = "commit"]
    /\ UNCHANGED <<seat, lock, main, pos, pick>>

\* The read fails while its rows are fetched (a lock wait timeout, a deadlock,
\* a broken connection): rows.Next() is false and rows.Err() is not asked, so
\* emptySeatId stays 0 as if no row matched.  A timeout leaves the transaction
\* its row locks, the other errors end it in MySQL.
ScanBreaks(u) ==
    /\ pc[u] = "scan"
    /\ lock' = lock \/ lock' = Released({u})
    /\ said' = [said EXCEPT ![u] = "full"]
    /\ pc' = [pc EXCEPT ![u] = "commit"]
    /\ UNCHANGED <<seat, main, pos, pick>>

\* update seat set name = ? where id = ?; the message is printed before the
\* commit.  MySQL counts a row as affected when its value changes.
Update(u) ==
    LET s == pick[u]
    IN  /\ pc[u] = "update"
        /\ lock[s] \in {None, u}
        /\ lock' = [lock EXCEPT ![s] = u]
        /\ said' = [said EXCEPT ![u] = IF seat[s] # u THEN "booked"
                                                      ELSE "failed"]
        /\ pc' = [pc EXCEPT ![u] = "commit"]
        /\ UNCHANGED <<seat, main, pos, pick>>

\* Mutant: the error path returns without Rollback; the pooled connection
\* keeps its transaction and its locks.
StatementFails_Mut(u) ==
    /\ pc[u] \in {"scan", "update"}
    /\ pc' = [pc EXCEPT ![u] = "rolledBack"]
    /\ UNCHANGED <<seat, lock, main, pos, pick, said>>

\* Prepare, Query, Scan or the update returns an error: tx.Rollback().
StatementFails(u) ==
    /\ pc[u] \in {"scan", "update"}
    /\ lock' = Released({u})
    /\ pc' = [pc EXCEPT ![u] = "rolledBack"]
    /\ UNCHANGED <<seat, main, pos, pick, said>>

\* tx.Commit()
Commit(u) ==
    /\ pc[u] = "commit"
    /\ seat' = IF pick[u] = 0 THEN seat ELSE [seat EXCEPT ![pick[u]] = u]
    /\ lock' = Released({u})
    /\ pc' = [pc EXCEPT ![u] = "done"]
    /\ UNCHANGED <<main, pos, pick, said>>

\* tx.Commit() returns an error, which the code drops.
CommitFails(u) ==
    /\ pc[u] = "commit"
    /\ lock' = Released({u})
    /\ pc' = [pc EXCEPT ![u] = "done"]
    /\ UNCHANGED <<seat, main, pos, pick, said>>

\* The process has exited.
Terminated == main \in {"end", "panicked"} /\ UNCHANGED vars

-----------------------------------------------------------------------------
Transaction(u) ==
    \/ Begin(u) \/ BeginFails(u) \/ ScanRow(u) \/ ScanEnd(u)
    \/ ScanBreaks(u) \/ Update(u) \/ StatementFails(u) \/ Commit(u) \/ CommitFails(u)

Next ==
    \/ LoadUsers \/ WaitGroupDone
    \/ \E u \in User : Transaction(u)
    \/ Terminated

\* Goroutines are scheduled and MySQL answers a statement that waits for no
\* lock.  A waiting one is not assumed to time out.
Progress(u) ==
    Begin(u) \/ ScanRow(u) \/ ScanEnd(u) \/ Update(u) \/ Commit(u)

Fairness ==
    /\ WF_vars(LoadUsers) /\ WF_vars(WaitGroupDone)
    /\ \A u \in User : WF_vars(Progress(u))

Spec == Init /\ [][Next]_vars /\ Fairness

-----------------------------------------------------------------------------
\* A booked seat keeps its owner (for update + update in one transaction).
NoOverwrite ==
    [][\A s \in Seat : seat[s] # None => seat'[s] = seat[s]]_vars

\* Nobody whose read went through all the rows is told "All seats booked!!"
\* while a seat is free, even if a transaction that held the last one was
\* rolled back; and the branch "failed to book" (main.go:78) is never taken.
\* A read that broke off proves nothing and is told the same (ScanBreaks).
HonestRefusal ==
    \A u \in User :
        /\ said[u] # "failed"
        /\ said[u] = "full" /\ pos[u] = NSeat + 1
             => \A s \in Seat : seat[s] # None

\* Two transactions never hold one seat between select and commit.
OneBuyerPerSeat ==
    \A u, v \in User :
        /\ u # v /\ pick[u] # 0
        /\ pc[u] \in {"update", "commit"} /\ pc[v] \in {"update", "commit"}
        => pick[u] # pick[v]

\* wg.Wait() returns: no goroutine waits for a row lock for ever.
WaitReturns == <>(main \in {"end", "panicked"})

-----------------------------------------------------------------------------
\* What became of a request.  A transaction takes effect when it commits; a
\* read that broke off is an error, whatever was printed.
Outcome(u) ==
    IF pc[u] \in {"unborn"} \cup Live THEN "waiting"
    ELSE IF pc[u] # "done" THEN "error"
    ELSE IF pick[u] = 0 THEN IF pos[u] = NSeat + 1 THEN "full" ELSE "error"
    ELSE IF seat[pick[u]] = u THEN "booked"
    ELSE "error"

Reservation == INSTANCE SeatReservation WITH
    result <- [u \in User |-> Outcome(u)]

\* Concurrent bookings act as if users were served one at a time, each given
\* the lowest free seat.
ServesOneAtATime == Reservation!Spec
=============================================================================
