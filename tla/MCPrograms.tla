----------------------------- MODULE MCPrograms -----------------------------
(***************************************************************************)
(* Small instances of the stand-alone programs.  They share nothing: the   *)
(* initial state picks one and the others stay as they are.                *)
(***************************************************************************)
EXTENDS BlockingQueue, ConnectionPool, PessimisticLocking, BloomFilter, TLC

VARIABLE prog

programVars == <<prog, qVars, poolVars, lockingVars, bloomVars>>

\* Two anagrams, a neighbour, an item on the other side of the array and one
\* that wraps around its end.
Sums == "dhina" :> 4 @@ "naidh" :> 4 @@ "sun" :> 5 @@ "apple" :> 8 @@ "vimal" :> 17

InitPrograms ==
    /\ prog \in {"blockingQ", "connectionPool", "tickets", "obd", "bloomFilter"}
    /\ QInit /\ PoolInit /\ LockingInit /\ BloomInit
    /\ prog # "connectionPool" => mode = "plain" /\ limit = 1

Run(p, rest) == prog = p /\ UNCHANGED <<prog, rest>>

RunQ == Run("blockingQ", <<poolVars, lockingVars, bloomVars>>)
RunPool == Run("connectionPool", <<qVars, lockingVars, bloomVars>>)
RunTickets == Run("tickets", <<qVars, poolVars, obdVars, bloomVars>>)
RunObd == Run("obd", <<qVars, poolVars, buyVars, bloomVars>>)
RunBloom == Run("bloomFilter", <<qVars, poolVars, lockingVars>>)

NextPrograms ==
    \/ QNext /\ RunQ
    \/ PoolNext /\ RunPool
    \/ (\E b \in Buyer : BuyStep(b)) /\ RunTickets
    \/ (Exit \/ \E c \in Call : CallStep(c)) /\ RunObd
    \/ BloomNext /\ RunBloom

\* The fairness of each program, while it runs.
FairPrograms ==
    /\ \A u \in QUser :
          /\ WF_programVars(QStep(u) /\ RunQ)
          /\ SF_programVars(QGet(u) /\ RunQ)
    /\ \A w \in Worker :
          /\ WF_programVars(WorkerStep(w) /\ RunPool)
          /\ SF_programVars(Get(w) /\ RunPool)
    /\ \A b \in Buyer : WF_programVars(BuyStep(b) /\ RunTickets)
    /\ \A c \in Call : WF_programVars(CallStep(c) /\ RunObd)
    /\ WF_programVars(Exit /\ RunObd)

SpecPrograms == InitPrograms /\ [][NextPrograms]_programVars /\ FairPrograms

-----------------------------------------------------------------------------
\* wg.Wait returns in every program that has goroutines: none waits for ever
\* in Get or Put of the blocking queue (blockingQ/main.go:72); the benchmarks
\* end, or a panic ends the process, in whatever order workers ask, queue and
\* return (connectionPool/main.go:94, temp.go:60); every buyer gets the mutex
\* (pessimistic_locking/main.go:14); the timeout keeps no call waiting and a
\* late sender is outrun by main's return or ends the process
\* (pessimistic_locking/main.go:50).
ProgramsEnd ==
    /\ prog = "blockingQ" ~> \A u \in QUser : qpc[u] = "done"
    /\ prog = "connectionPool" ~> (~alive \/ At("done") = Worker)
    /\ prog = "tickets" ~> \A b \in Buyer : bpc[b] = "done"
    /\ prog = "obd" ~> process # "runs"
=============================================================================
