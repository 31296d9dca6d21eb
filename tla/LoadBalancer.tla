---------------------------- MODULE LoadBalancer ----------------------------
(***************************************************************************)
(* LoadBalancer/main.go: a TCP load balancer that picks backends in turn.  *)
(* Each accepted connection is served by a goroutine running Proxy.  The   *)
(* counter LastUsed is read and written without a lock (line 37), logged   *)
(* (line 40), and read twice more under mu (lines 43 and 44), a mutex the  *)
(* writers do not take.  Loads and stores of an int are atomic on the      *)
(* platforms Go runs on, so the race is an interleaving of them.           *)
(***************************************************************************)
EXTENDS Naturals, FiniteSets

CONSTANTS
    Request,   \* accepted client connections
    N,         \* len(lb.Servers)
    Nobody     \* mu is free

ASSUME LBAssumption ==
    /\ N \in Nat \ {0}
    /\ IsFiniteSet(Request)
    /\ Nobody \notin Request

Server == 0 .. N - 1

VARIABLES
    alive,      \* the load balancer's process runs
    up,         \* up[i]: backend i accepts connections
    lastUsed,   \* lb.LastUsed
    total,      \* lb.Servers[i].Total
    mu,         \* holder of the mutex
    pc,         \* pc[r]: the line of Proxy r executes next
    tmp,        \* tmp[r]: value loaded by the read-modify-write in progress
    logged,     \* logged[r]: the server r's log line names
    counted,    \* counted[r]: the server whose Total r increments
    backend,    \* backend[r]: the copy of the server r dials
    copying,    \* copying[r]: running io.Copy goroutines of r
    last        \* history: the backend picked last

vars == <<alive, up, lastUsed, total, mu, pc, tmp, logged, counted, backend,
          copying, last>>

Choosing == {"load", "store", "log", "lock", "count", "add", "pick", "unlock"}
Direction == {"toBackend", "toClient"}

TypeOK ==
    /\ alive \in BOOLEAN
    /\ up \in [Server -> BOOLEAN]
    /\ lastUsed \in Server
    /\ total \in [Server -> Nat]
    /\ mu \in Request \cup {Nobody}
    /\ pc \in [Request -> Choosing \cup {"new", "dial", "proxied"}]
    /\ tmp \in [Request -> Nat]
    /\ logged \in [Request -> Server \cup {N}]
    /\ counted \in [Request -> Server \cup {N}]
    /\ backend \in [Request -> Server \cup {N}]
    /\ copying \in [Request -> SUBSET Direction]
    /\ last \in Server

\* NewLB: the first request goes to server 0.  N stands for "no server yet".
Init ==
    /\ alive = TRUE
    /\ up = [i \in Server |-> TRUE]
    /\ lastUsed = N - 1
    /\ total = [i \in Server |-> 0]
    /\ mu = Nobody
    /\ pc = [r \in Request |-> "new"]
    /\ tmp = [r \in Request |-> 0]
    /\ logged = [r \in Request |-> N]
    /\ counted = [r \in Request |-> N]
    /\ backend = [r \in Request |-> N]
    /\ copying = [r \in Request |-> {}]
    /\ last = N - 1

At(r, here, next) ==
    /\ alive /\ pc[r] = here
    /\ pc' = [pc EXCEPT ![r] = next]

-----------------------------------------------------------------------------
\* listener.Accept(); go lb.Proxy(connection, ...)
Accept(r) ==
    /\ At(r, "new", "load")
    /\ UNCHANGED <<alive, up, lastUsed, total, mu, tmp, logged, counted,
                   backend, copying, last>>

\* Accept returns an error (no descriptor left, say): log.Fatal ends the
\* process.
AcceptFails(r) ==
    /\ alive /\ pc[r] = "new"
    /\ alive' = FALSE
    /\ UNCHANGED <<up, lastUsed, total, mu, pc, tmp, logged, counted, backend,
                   copying, last>>

\* lb.LastUsed = (lb.LastUsed + 1) % len(lb.Servers)
Load(r) ==
    /\ At(r, "load", "store")
    /\ tmp' = [tmp EXCEPT ![r] = lastUsed]
    /\ UNCHANGED <<alive, up, lastUsed, total, mu, logged, counted, backend,
                   copying, last>>

Store(r) ==
    /\ At(r, "store", "log")
    /\ lastUsed' = (tmp[r] + 1) % N
    /\ UNCHANGED <<alive, up, total, mu, tmp, logged, counted, backend,
                   copying, last>>

\* "server going to be used is "
Log(r) ==
    /\ At(r, "log", "lock")
    /\ logged' = [logged EXCEPT ![r] = lastUsed]
    /\ UNCHANGED <<alive, up, lastUsed, total, mu, tmp, counted, backend,
                   copying, last>>

\* Mutant: mu.Lock() does not exclude anybody.
Lock_Mut(r) ==
    /\ At(r, "lock", "count")
    /\ mu' = r
    /\ UNCHANGED <<alive, up, lastUsed, total, tmp, logged, counted, backend,
                   copying, last>>

Lock(r) ==
    /\ At(r, "lock", "count")
    /\ mu = Nobody /\ mu' = r
    /\ UNCHANGED <<alive, up, lastUsed, total, tmp, logged, counted, backend,
                   copying, last>>

\* lb.Servers[lb.LastUsed].Total++: load the index and the total ...
Count(r) ==
    /\ At(r, "count", "add")
    /\ counted' = [counted EXCEPT ![r] = lastUsed]
    /\ tmp' = [tmp EXCEPT ![r] = total[lastUsed]]
    /\ UNCHANGED <<alive, up, lastUsed, total, mu, logged, backend, copying,
                   last>>

\* ... and store the total.
Add(r) ==
    /\ At(r, "add", "pick")
    /\ total' = [total EXCEPT ![counted[r]] = tmp[r] + 1]
    /\ UNCHANGED <<alive, up, lastUsed, mu, tmp, logged, counted, backend,
                   copying, last>>

\* Mutant: the goroutine uses the server it computed itself.
Pick_Mut(r) ==
    /\ At(r, "pick", "unlock")
    /\ backend' = [backend EXCEPT ![r] = logged[r]]
    /\ last' = logged[r]
    /\ UNCHANGED <<alive, up, lastUsed, total, mu, tmp, logged, counted,
                   copying>>

\* backend := lb.Servers[lb.LastUsed]
Pick(r) ==
    /\ At(r, "pick", "unlock")
    /\ backend' = [backend EXCEPT ![r] = lastUsed]
    /\ last' = lastUsed
    /\ UNCHANGED <<alive, up, lastUsed, total, mu, tmp, logged, counted,
                   copying>>

\* Mutant: an early return leaves the mutex locked.
Unlock_Mut(r) ==
    /\ At(r, "unlock", "dial")
    /\ UNCHANGED <<mu, alive, up, lastUsed, total, tmp, logged, counted, backend,
                   copying, last>>

Unlock(r) ==
    /\ At(r, "unlock", "dial")
    /\ mu' = Nobody
    /\ UNCHANGED <<alive, up, lastUsed, total, tmp, logged, counted, backend,
                   copying, last>>

\* net.Dial succeeds: two goroutines copy, Proxy returns.
Dial(r) ==
    /\ At(r, "dial", "proxied")
    /\ up[backend[r]]
    /\ copying' = [copying EXCEPT ![r] = Direction]
    /\ UNCHANGED <<alive, up, lastUsed, total, mu, tmp, logged, counted,
                   backend, last>>

\* net.Dial fails: log.Fatal ends the process.
DialFails(r) ==
    /\ alive /\ pc[r] = "dial" /\ ~up[backend[r]]
    /\ alive' = FALSE
    /\ UNCHANGED <<up, lastUsed, total, mu, pc, tmp, logged, counted, backend,
                   copying, last>>

\* io.Copy returns at end of file; neither connection is closed.
CopyEnds(r, d) ==
    /\ alive /\ d \in copying[r]
    /\ copying' = [copying EXCEPT ![r] = @ \ {d}]
    /\ UNCHANGED <<alive, up, lastUsed, total, mu, pc, tmp, logged, counted,
                   backend, last>>

\* io.Copy returns an error (a connection was reset): log.Fatal.
CopyFails(r, d) ==
    /\ alive /\ d \in copying[r]
    /\ alive' = FALSE
    /\ UNCHANGED <<up, lastUsed, total, mu, pc, tmp, logged, counted, backend,
                   copying, last>>

\* A backend goes down or comes back.
Toggle(i) ==
    /\ up' = [up EXCEPT ![i] = ~@]
    /\ UNCHANGED <<alive, lastUsed, total, mu, pc, tmp, logged, counted,
                   backend, copying, last>>

-----------------------------------------------------------------------------
\* The straight-line code of Proxy.
Choose(r) ==
    \/ Load(r) \/ Store(r) \/ Log(r) \/ Lock(r) \/ Count(r) \/ Add(r)
    \/ Pick(r) \/ Unlock(r)

Forward(r) ==
    \/ Dial(r) \/ DialFails(r)
    \/ \E d \in Direction : CopyEnds(r, d) \/ CopyFails(r, d)

Next ==
    \/ \E r \in Request : Accept(r) \/ AcceptFails(r) \/ Choose(r) \/ Forward(r)
    \/ \E i \in Server : Toggle(i)

\* Goroutines run; sync.Mutex hands a freed lock to a waiter that has waited
\* for long (starvation mode), hence strong fairness for Lock.
Fairness ==
    \A r \in Request :
        /\ WF_vars(Choose(r)) /\ SF_vars(Lock(r))
        /\ WF_vars(Dial(r) \/ DialFails(r))

Spec == Init /\ [][Next]_vars /\ Fairness

-----------------------------------------------------------------------------
\* Every request that passed line 43 is counted exactly once, for the server
\* whose Total it incremented: the read-modify-writes of Total never overlap.
NoLostCount ==
    \A i \in Server :
        total[i] = Cardinality({r \in Request :
            counted[r] = i /\ pc[r] \notin Choosing \ {"pick", "unlock"}})

\* Whatever updates of LastUsed were lost in a burst, once no request is
\* choosing LastUsed is the backend picked last: the next request that is
\* alone is sent to the following server.
RotationResumes ==
    (\A r \in Request : pc[r] \notin Choosing) => lastUsed = last

\* An accepted connection is dialled, or the process is gone.
EveryRequestDialled ==
    \A r \in Request : pc[r] = "load" ~> pc[r] = "proxied" \/ ~alive

\* "high availability (reliable ) => replication", "user -> lb -> redirects to
\* available backend server!" (LoadBalancer/requirement.md:1,4): while a
\* backend is available, every connection was accepted and none has been
\* reset, the load balancer runs.
AvailableIsServed ==
    /\ \A r \in Request : copying[r] = {} /\ pc[r] # "new"
    /\ \E i \in Server : up[i]
    => alive
=============================================================================
