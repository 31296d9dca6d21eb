--------------------------- MODULE ConnectionPool ---------------------------
(***************************************************************************)
(* connectionPool/: three ways of running queries from many goroutines     *)
(* against one MySQL server.  Init picks the benchmark:                    *)
(*   plain    benchmarkPlain (main.go) and benchmarkPlain1 (temp.go): a    *)
(*            connection of its own for every goroutine;                   *)
(*   channel  benchmarkConnectionPool (temp.go): a buffered channel holds  *)
(*            MaxConn *sql.DB handles, each opening one connection when it *)
(*            is used for the first time and keeping it;                   *)
(*   pool     benchmarkProductionPool (main.go): one *sql.DB with          *)
(*            SetMaxOpenConns(MaxConn) and SetMaxIdleConns(MaxIdle).       *)
(* limit is the server's max_connections; the server serves nobody else.   *)
(* The pool inside database/sql is modelled from how it is used here.      *)
(***************************************************************************)
EXTENDS Naturals, Sequences, FiniteSets

CONSTANTS
    Worker,     \* goroutines of a benchmark
    MaxConn,    \* maxCon and SetMaxOpenConns (10 in the code)
    MaxIdle,    \* SetMaxIdleConns (5 in the code)
    Limits,     \* the values max_connections may have
    NoHandle

ASSUME PoolAssumption ==
    /\ IsFiniteSet(Worker)
    /\ MaxConn \in Nat \ {0} /\ MaxIdle \in 1 .. MaxConn
    /\ Limits \subseteq Nat \ {0}
    /\ NoHandle \notin 1 .. MaxConn

VARIABLES
    mode,     \* the benchmark that runs
    limit,    \* max_connections
    alive,    \* the process runs
    refused,  \* the server has turned a connection down
    open,     \* connections the server serves
    wpc,      \* wpc[w]: what goroutine w does next
    ch,       \* channel: handles in cp.ch
    held,     \* channel: held[w] is the handle Get gave w
    dialled,  \* channel: handles whose connection is open
    idle      \* pool: open connections nobody uses

poolVars == <<mode, limit, alive, refused, open, wpc, ch, held, dialled, idle>>

Handle == 1 .. MaxConn
At(label) == {w \in Worker : wpc[w] = label}

PoolTypeOK ==
    /\ mode \in {"plain", "channel", "pool"}
    /\ limit \in Limits
    /\ alive \in BOOLEAN /\ refused \in BOOLEAN
    /\ open \in Nat /\ idle \in 0 .. MaxIdle
    /\ wpc \in [Worker -> {"start", "got", "queued", "exec", "done"}]
    /\ ch \in Seq(Handle)
    /\ held \in [Worker -> Handle \cup {NoHandle}]
    /\ dialled \subseteq Handle

\* NewConnectionPool fills the channel; initDBPool's Ping leaves one
\* connection in the pool.
PoolInit ==
    /\ mode \in {"plain", "channel", "pool"}
    /\ limit \in Limits
    /\ alive = TRUE /\ refused = FALSE
    /\ open = IF mode = "pool" THEN 1 ELSE 0
    /\ wpc = [w \in Worker |-> "start"]
    /\ ch = [i \in Handle |-> i]
    /\ held = [w \in Worker |-> NoHandle]
    /\ dialled = {}
    /\ idle = IF mode = "pool" THEN 1 ELSE 0

Step(w, m, from, to) ==
    /\ alive /\ mode = m /\ wpc[w] = from
    /\ wpc' = [wpc EXCEPT ![w] = to]
    /\ UNCHANGED <<mode, limit>>

\* panic(err) ends the process with all its goroutines.
Panic(w, m, from) ==
    /\ alive /\ mode = m /\ wpc[w] = from
    /\ alive' = FALSE
    /\ UNCHANGED <<mode, limit, open, wpc, ch, held, dialled, idle>>

-----------------------------------------------------------------------------
\* plain: sql.Open connects to nothing, Exec does.
PlainExec(w) ==
    /\ Step(w, "plain", "start", "exec")
    /\ open < limit /\ open' = open + 1
    /\ UNCHANGED <<alive, refused, ch, held, dialled, idle>>

PlainRefused(w) ==
    /\ open = limit /\ refused' = TRUE
    /\ Panic(w, "plain", "start")

\* db.Close(), wg.Done()
PlainDone(w) ==
    /\ Step(w, "plain", "exec", "done")
    /\ open' = open - 1
    /\ UNCHANGED <<alive, refused, ch, held, dialled, idle>>

-----------------------------------------------------------------------------
\* channel
Get(w) ==
    /\ Step(w, "channel", "start", "got")
    /\ ch # <<>>
    /\ held' = [held EXCEPT ![w] = Head(ch)]
    /\ ch' = Tail(ch)
    /\ UNCHANGED <<alive, refused, open, dialled, idle>>

\* Mutant: each Exec opens a connection (a new sql.DB per query).
ChannelExec_Mut(w) ==
    /\ Step(w, "channel", "got", "exec")
    /\ open < limit /\ open' = open + 1
    /\ UNCHANGED <<alive, refused, dialled, ch, held, idle>>

ChannelExec(w) ==
    /\ Step(w, "channel", "got", "exec")
    /\ \/ held[w] \in dialled /\ UNCHANGED <<open, dialled>>
       \/ /\ held[w] \notin dialled /\ open < limit
          /\ open' = open + 1 /\ dialled' = dialled \cup {held[w]}
    /\ UNCHANGED <<alive, refused, ch, held, idle>>

ChannelRefused(w) ==
    /\ wpc[w] = "got" /\ held[w] \notin dialled /\ open = limit
    /\ refused' = TRUE
    /\ Panic(w, "channel", "got")

\* Mutant: the worker leaves without Put.
Put_Mut(w) ==
    /\ Step(w, "channel", "exec", "done")
    /\ UNCHANGED <<alive, refused, open, ch, held, dialled, idle>>

\* cp.ch <- db, wg.Done()
Put(w) ==
    /\ Step(w, "channel", "exec", "done")
    /\ Len(ch) < MaxConn
    /\ ch' = Append(ch, held[w])
    /\ held' = [held EXCEPT ![w] = NoHandle]
    /\ UNCHANGED <<alive, refused, open, dialled, idle>>

\* A statement fails: plain and channel panic.
ExecFails(w) ==
    /\ \E m \in {"plain", "channel"} : Panic(w, m, "exec")
    /\ UNCHANGED refused

-----------------------------------------------------------------------------
\* Mutant: SetMaxOpenConns is not called.
PoolExec_Mut(w) ==
    /\ Step(w, "pool", "start", "exec")
    /\ \/ idle > 0 /\ idle' = idle - 1 /\ UNCHANGED open
       \/ idle = 0 /\ open < limit /\ open' = open + 1 /\ UNCHANGED idle
    /\ UNCHANGED <<alive, refused, ch, held, dialled>>

\* pool: Exec takes an idle connection, opens one, or queues.
PoolExec(w) ==
    /\ \/ /\ Step(w, "pool", "start", "exec")
          /\ idle > 0 /\ idle' = idle - 1 /\ UNCHANGED open
       \/ /\ Step(w, "pool", "start", "exec")
          /\ idle = 0 /\ open < MaxConn /\ open < limit
          /\ open' = open + 1 /\ UNCHANGED idle
       \/ /\ Step(w, "pool", "start", "queued")
          /\ idle = 0 /\ open = MaxConn
          /\ UNCHANGED <<open, idle>>
    /\ UNCHANGED <<alive, refused, ch, held, dialled>>

\* The error is logged and the goroutine returns.
PoolRefused(w) ==
    /\ Step(w, "pool", "start", "done")
    /\ idle = 0 /\ open < MaxConn /\ open = limit
    /\ refused' = TRUE
    /\ UNCHANGED <<alive, open, ch, held, dialled, idle>>

\* Mutant: a freed connection goes to the idle ones past those who queue.
PoolDone_Mut(w) ==
    /\ Step(w, "pool", "exec", "done")
    /\ IF idle < MaxIdle THEN idle' = idle + 1 /\ UNCHANGED open
                         ELSE open' = open - 1 /\ UNCHANGED idle
    /\ UNCHANGED <<alive, refused, ch, held, dialled>>

\* Exec returns, with a result or an error that is logged: the connection
\* goes to a goroutine that queues, else becomes idle, else is closed.
PoolDone(w) ==
    /\ alive /\ mode = "pool" /\ wpc[w] = "exec"
    /\ \/ \E q \in At("queued") :
             /\ wpc' = [wpc EXCEPT ![w] = "done", ![q] = "exec"]
             /\ UNCHANGED <<open, idle>>
       \/ /\ At("queued") = {}
          /\ wpc' = [wpc EXCEPT ![w] = "done"]
          /\ IF idle < MaxIdle THEN idle' = idle + 1 /\ UNCHANGED open
                               ELSE open' = open - 1 /\ UNCHANGED idle
    /\ UNCHANGED <<mode, limit, alive, refused, ch, held, dialled>>

-----------------------------------------------------------------------------
WorkerStep(w) ==
    \/ PlainExec(w) \/ PlainRefused(w) \/ PlainDone(w)
    \/ Get(w) \/ ChannelExec(w) \/ ChannelRefused(w) \/ Put(w)
    \/ PoolExec(w) \/ PoolRefused(w) \/ PoolDone(w)
    \/ ExecFails(w)

PoolNext == \E w \in Worker : WorkerStep(w)

\* Goroutines run, statements return; receivers of a Go channel are served
\* first come, first served, and so are those who queue in sql.DB.
PoolFairness == \A w \in Worker : WF_poolVars(WorkerStep(w)) /\ SF_poolVars(Get(w))

PoolSpec == PoolInit /\ [][PoolNext]_poolVars /\ PoolFairness

-----------------------------------------------------------------------------
\* A worker uses a pooled connection from Get (channel) or the start of its
\* statement (pool) to its end; the plain benchmark has no pool.
WorkerPhase == [w \in Worker |->
    CASE mode = "plain" \/ wpc[w] \in {"start", "queued"} -> "waiting"
      [] mode # "plain" /\ wpc[w] \in {"got", "exec"} -> "holding"
      [] mode # "plain" /\ wpc[w] = "done" -> "done"]

Abstract == INSTANCE ResourcePool WITH
    User <- Worker, Size <- MaxConn, phase <- WorkerPhase

\* Both pools bound the goroutines that use a connection (main.go:31-33,
\* temp.go:24-41).
ImplementsPool == Abstract!Spec

\* The server turns a connection down only when its limit is below what the
\* benchmark may need at once: the number of goroutines without a pool, the
\* pool's size with one.  benchmarkPlain(152) needs one more than MySQL's
\* default of 151.
RefusedOnlyBeyondLimit ==
    refused => limit < IF mode = "plain" THEN Cardinality(Worker) ELSE MaxConn

\* A handle is in the channel or with one worker that uses it, never in two
\* places, and no worker that ends takes one with it.
HandleInOnePlace ==
    mode = "channel" => \A h \in Handle :
        Cardinality({i \in 1 .. Len(ch) : ch[i] = h})
            + Cardinality({w \in At("got") \cup At("exec") : held[w] = h}) = 1
=============================================================================
