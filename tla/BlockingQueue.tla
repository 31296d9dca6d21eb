--------------------------- MODULE BlockingQueue ---------------------------
(***************************************************************************)
(* blockingQ/main.go: a pool of QSize objects guarded by a channel of      *)
(* tokens.  Get and Put have value receivers: the mutex they lock and the  *)
(* slice header they advance are copies, so nobody excludes anybody, the   *)
(* slice in blockQ never changes and every Get returns its element 0.      *)
(* What bounds the holders is the channel alone, and its tokens are the    *)
(* only state the calls share.                                             *)
(***************************************************************************)
EXTENDS Naturals, FiniteSets

CONSTANTS
    QUser,   \* the goroutines main starts (1000 in the code)
    QSize    \* poolSize (10 in the code)

ASSUME QAssumption == IsFiniteSet(QUser) /\ QSize \in Nat \ {0}

VARIABLES
    tokens,   \* len(blockQ.ch), a channel of capacity QSize
    qpc       \* qpc[u]: what goroutine u does next

qVars == <<tokens, qpc>>

QTypeOK ==
    /\ tokens \in 0 .. QSize
    /\ qpc \in [QUser -> {"get", "use", "put", "done"}]

\* newBlockingQ
QInit ==
    /\ tokens = QSize
    /\ qpc = [u \in QUser |-> "get"]

\* Mutant: Get does not wait for a token.
QGet_Mut(u) ==
    /\ qpc[u] = "get"
    /\ tokens' = IF tokens = 0 THEN 0 ELSE tokens - 1
    /\ qpc' = [qpc EXCEPT ![u] = "use"]

\* <-bq.ch, then Q[0] of the copy.
QGet(u) ==
    /\ qpc[u] = "get" /\ tokens > 0
    /\ tokens' = tokens - 1
    /\ qpc' = [qpc EXCEPT ![u] = "use"]

\* The goroutine has slept and calls Put, which appends to its copy.
QUse(u) ==
    /\ qpc[u] = "use"
    /\ qpc' = [qpc EXCEPT ![u] = "put"]
    /\ UNCHANGED tokens

\* Mutant: Put puts the object back without a token.
QPut_Mut(u) ==
    /\ qpc[u] = "put"
    /\ qpc' = [qpc EXCEPT ![u] = "done"]
    /\ UNCHANGED tokens

\* bq.ch <- true blocks while the channel is full; then wg.Done().
QPut(u) ==
    /\ qpc[u] = "put" /\ tokens < QSize
    /\ tokens' = tokens + 1
    /\ qpc' = [qpc EXCEPT ![u] = "done"]

QStep(u) == QGet(u) \/ QUse(u) \/ QPut(u)

QNext == \E u \in QUser : QStep(u)

\* A goroutine that can run does; the queue of receivers of a Go channel is
\* first in, first out, so no Get is overtaken for ever.
QFairness == \A u \in QUser : WF_qVars(QStep(u)) /\ SF_qVars(QGet(u))

QSpec == QInit /\ [][QNext]_qVars /\ QFairness

-----------------------------------------------------------------------------
\* The pool a reader of Get and Put expects.
QPhase == [u \in QUser |->
    CASE qpc[u] = "get" -> "waiting"
      [] qpc[u] \in {"use", "put"} -> "holding"
      [] qpc[u] = "done" -> "done"]

QPool == INSTANCE ResourcePool WITH User <- QUser, Size <- QSize, phase <- QPhase

\* Although the mutex of blockQ is copied with every call, at most poolSize
\* goroutines are between Get and Put (lines 21-38).
QImplementsPool == QPool!Spec

\* Put never blocks: whoever puts has taken a token, so the channel that
\* newBlockingQ filled has room for it.
PutNeverBlocks == \A u \in QUser : qpc[u] = "put" => tokens < QSize
=============================================================================
