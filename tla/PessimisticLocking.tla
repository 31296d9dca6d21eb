------------------------- MODULE PessimisticLocking -------------------------
(***************************************************************************)
(* pessimistic_locking/: the ticket counter of bookTicket (main.go) and    *)
(* the calls of getEnrichedDataFromGovtOrIntegration (obdIssue.go) that    *)
(* main starts.                                                            *)
(*                                                                         *)
(* A call races two senders on an unbuffered channel against a timeout and *)
(* closes the channel when it returns.  The flag isChanClosed is passed by *)
(* value, when the call starts: each sender tests a copy that is false for *)
(* ever, so the test does not appear below.  A send on a closed channel    *)
(* panics, and so does one that blocks when the channel is closed.         *)
(***************************************************************************)
EXTENDS Integers, FiniteSets

CONSTANTS
    Buyer,     \* goroutines running reduceTicketCount
    Tickets,   \* the initial value of tickets
    Call,      \* calls main starts
    Free       \* the mutex is free

Sender == {"govt", "integration"}

ASSUME LockingAssumption ==
    /\ IsFiniteSet(Buyer) /\ Free \notin Buyer
    /\ Tickets \in Int

VARIABLES
    tickets,
    mutex,     \* holder of the mutex
    bpc,       \* bpc[b]: what buyer b does next
    seen,      \* seen[b]: the value of tickets that b loaded
    call,      \* call[c]: "select", "return" (answered), "done"
    answer,    \* answer[c]: who answered c, or "timeout"
    sender,    \* sender[c][s]: "sleep", "send" or "sent"
    process    \* "runs", "panicked" or "exited"

buyVars == <<tickets, mutex, bpc, seen>>
obdVars == <<call, answer, sender, process>>

-----------------------------------------------------------------------------
\* reduceTicketCount

BuyInit ==
    /\ tickets = Tickets /\ mutex = Free
    /\ bpc = [b \in Buyer |-> "lock"]
    /\ seen = [b \in Buyer |-> 0]

BGoto(b, from, to) == bpc[b] = from /\ bpc' = [bpc EXCEPT ![b] = to]

\* Mutant: the critical section is entered without the lock.
BLock_Mut(b) ==
    /\ BGoto(b, "lock", "load")
    /\ UNCHANGED <<mutex, tickets, seen>>

BLock(b) ==
    /\ BGoto(b, "lock", "load")
    /\ mutex = Free /\ mutex' = b
    /\ UNCHANGED <<tickets, seen>>

\* tickets--
BLoad(b) ==
    /\ BGoto(b, "load", "store")
    /\ seen' = [seen EXCEPT ![b] = tickets]
    /\ UNCHANGED <<tickets, mutex>>

BStore(b) ==
    /\ BGoto(b, "store", "unlock")
    /\ tickets' = seen[b] - 1
    /\ UNCHANGED <<mutex, seen>>

\* mutex.Unlock(), wg.Done()
BUnlock(b) ==
    /\ BGoto(b, "unlock", "done")
    /\ mutex' = Free
    /\ UNCHANGED <<tickets, seen>>

BuyStep(b) == BLock(b) \/ BLoad(b) \/ BStore(b) \/ BUnlock(b)

-----------------------------------------------------------------------------
\* getEnrichedDataFromGovtOrIntegration

ObdInit ==
    /\ call = [c \in Call |-> "select"]
    /\ answer = [c \in Call |-> "none"]
    /\ sender = [c \in Call |-> [s \in Sender |-> "sleep"]]
    /\ process = "runs"

\* Sleep returns; the copy of the flag is false.
Wake(c, s) ==
    /\ process = "runs" /\ sender[c][s] = "sleep"
    /\ sender' = [sender EXCEPT ![c][s] = "send"]
    /\ UNCHANGED <<call, answer, process>>

\* A sender that waits to send meets the select.
Receive(c, s) ==
    /\ process = "runs" /\ call[c] = "select" /\ sender[c][s] = "send"
    /\ sender' = [sender EXCEPT ![c][s] = "sent"]
    /\ answer' = [answer EXCEPT ![c] = s]
    /\ call' = [call EXCEPT ![c] = "return"]
    /\ UNCHANGED process

Timeout(c) ==
    /\ process = "runs" /\ call[c] = "select"
    /\ answer' = [answer EXCEPT ![c] = "timeout"]
    /\ call' = [call EXCEPT ![c] = "return"]
    /\ UNCHANGED <<sender, process>>

\* Mutant: a call that timed out returns before wg.Done().
Close_Mut(c) ==
    /\ process = "runs" /\ call[c] = "return" /\ answer[c] # "timeout"
    /\ call' = [call EXCEPT ![c] = "done"]
    /\ UNCHANGED <<answer, sender, process>>

\* The deferred Store(true) and close; then wg.Done().
Close(c) ==
    /\ process = "runs" /\ call[c] = "return"
    /\ call' = [call EXCEPT ![c] = "done"]
    /\ UNCHANGED <<answer, sender, process>>

\* A send on, or blocked on, a channel that is closed.
SendOnClosed(c, s) ==
    /\ process = "runs" /\ call[c] = "done" /\ sender[c][s] = "send"
    /\ process' = "panicked"
    /\ UNCHANGED <<call, answer, sender>>

\* wg.Wait() returns and so does main.
Exit ==
    /\ process = "runs" /\ \A c \in Call : call[c] = "done"
    /\ process' = "exited"
    /\ UNCHANGED <<call, answer, sender>>

CallStep(c) ==
    \/ Timeout(c) \/ Close(c)
    \/ \E s \in Sender : Wake(c, s) \/ Receive(c, s) \/ SendOnClosed(c, s)

-----------------------------------------------------------------------------
LockingInit == BuyInit /\ ObdInit

LockingNext ==
    \/ (\E b \in Buyer : BuyStep(b)) /\ UNCHANGED obdVars
    \/ (Exit \/ \E c \in Call : CallStep(c)) /\ UNCHANGED buyVars

lockingVars == <<buyVars, obdVars>>

\* Goroutines run, sleeps and timers end.
LockingFairness ==
    /\ \A b \in Buyer :
          WF_lockingVars(BuyStep(b) /\ UNCHANGED obdVars)
    /\ WF_lockingVars(Exit /\ UNCHANGED buyVars)
    /\ \A c \in Call : WF_lockingVars(CallStep(c) /\ UNCHANGED buyVars)

LockingSpec == LockingInit /\ [][LockingNext]_lockingVars /\ LockingFairness

-----------------------------------------------------------------------------
\* No decrement is lost: at any moment tickets counts the buyers that have
\* passed line 15, and when wg.Wait returns it counts them all.
NoLostTicket ==
    tickets = Tickets - Cardinality({b \in Buyer : bpc[b] \in {"unlock", "done"}})
=============================================================================
