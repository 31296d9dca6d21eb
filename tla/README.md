# Specifications of the prototypes

The repository is a collection of independent prototypes: a chat server, a seat
booking program, a TCP load balancer, pools, an event-loop server, presence
indicators and smaller exercises.  They share no code, so each is specified on
its own.  Paths below are relative to the repository's root.

## 1. Inventory

| Part | Code | State | Operations | What is hard | What makes it correct |
|---|---|---|---|---|---|
| Chat server (Go) | `slack/main.go`, `slack/asset/*.html` | MySQL tables `user`, `channel`, `message`, `membership`; in memory `wsMap` (user id to socket); per page `channelIdObj` and the user id of its URL | HTTP `createUser`, `createChannel`, `sendMessage`, `/status`; socket.io connect, `hearbeat`, disconnect; the push `sendMessageOverWebSocket` | one goroutine per request; statements in autocommit mode, so a handler can fail or die half way; a push spawned beside its handler; stale sockets in `wsMap`; blocking `Emit`; answers arriving in any order; read errors the loops over rows do not notice | pushed text is persisted, goes to addressees only and once; a click opens a usable channel of the right pair; requests end; connected users are reachable |
| Chat server (C++) | `slack/chat_server.cpp` | same tables through one connection under `dbMutex`; `wsMap` (user id to a vector of connections) under `wsMutex` | `createUser`, `createChannel`, `sendMessage`, `/status`; `onopen`, `onmessage`, `onclose`; the push | local times read back as standard time; two mutexes taken inside one another; raw pointers to connections; every heartbeat appends the connection again; statements still commit one by one | one id per name and one channel per pair; no push to a destroyed connection; no deadlock; only members receive |
| Airline check-in | `airlineCheckin/main.go`, `seed.sql` | table `seat`, one transaction per goroutine | `makeBooking`, `reserveEmptyForUser`, `printSeats` | all users select the same first free row; rollbacks, failed commits, read errors taken for an empty result, a panic that ends every goroutine | no seat is sold twice, refusals are honest, `wg.Wait` returns |
| Load balancer | `LoadBalancer/main.go`, `backend_server_*` | `LastUsed`, `Servers[i].Total`, mutex `mu` | `NewLB`, `Proxy`, accept loop | `LastUsed` is written outside `mu` and read three times; `log.Fatal` in a goroutine | counts exact, rotation fair, connections served |
| Blocking queue | `blockingQ/main.go` | token channel, slice, mutex | `Get`, `Put` | value receivers: the slice and mutex changed are copies | at most `size` holders, nobody blocks for ever |
| Connection pool | `connectionPool/main.go`, `temp.go` | a channel of handles; the pool inside `sql.DB` | `Get`, `Put`, three benchmarks | a panic between `Get` and `Put`; MySQL's connection limit; connections handed from one goroutine to another | at most `maxCon` users; a handle has one holder; the benchmarks end |
| Ticket counter | `pessimistic_locking/main.go` | counter under a mutex | decrement | lost update without the lock | final count |
| obdIssue | `pessimistic_locking/obdIssue.go` | unbuffered channel, flag passed by value | two senders, a select with a 45 s timeout, close | a late sender never sees the flag and sends on a closed channel | the calls end; who panics and when |
| Event-loop server | `redis/main.go` | kqueue registrations, socket buffers, descriptors | accept, read, echo, close | edge-triggered events with a single 1024-byte read; EOF tested before reading; events as old as their batch; descriptors reused; a blocking `Accept` | own bytes come back in order; clients that left, and only those, are closed; what is sent is echoed |
| Online/offline indicator | `online_offline_indicator/main.go` | `user.last_timestamp`; prepared statements | heartbeat, status | stamps read before they are stored, rounded to seconds; statements never closed; ids in base 36 | the status differs from the truth by the rounding at most |
| Bloom filter | `bloomFilter/main.go` | bit array | add, contains | index computation | no false negatives |
| TCP, websocket echo, SSE, static files | `tcp`, `websockets`, `server_sent_events`, `staticFileServer` | none between requests | one loop or handler each | blocking reads, a client that leaves | the loop ends with its client |
| File I/O, index benchmarks | `fileIO/file.c`, `indexBenchmarkId/*.py` | files | library calls; batched inserts written to a file | the last partial batch | all rows written |
| Vendored libraries | `*/vendor` | - | - | third-party code | used through the one behaviour `Emit` of SlackSockets models |

The parts of one prototype interact as follows.  Chat pages call the handlers by
HTTP and keep a socket.io connection that emits `hearbeat`; handlers and event
handlers share the database and `wsMap`; a handler reaches another user's page
only through `wsMap` and `Emit`.  The check-in's goroutines interact only through
row locks in MySQL, and with `main` through the wait group.  The goroutines of the
load balancer share `LastUsed`, `Total` and the fate of the process.  Queue, pools,
counter and calls are goroutines around one channel or mutex; the event loop is one
thread against the kernel's queues; presence is the same protocol in three servers,
which share only the idea.

`PROJECT.json` lists every hazard at its line with the properties that cover it.

## 2. Modules

| Module | Role |
|---|---|
| `SlackDb` | tables, foreign keys, queries and inserts of the chat server |
| `SlackSockets` | pages, connections, heartbeats, `wsMap`, crashes; extends `SlackDb` |
| `SlackServer` | the three HTTP handlers and the push, composed with the two above; `Spec` and the properties |
| `SlackServerProofs` | type correctness and the safety of the push |
| `SlackClickProofs` | what logins and clicks guarantee; extends `SlackServerProofs` |
| `MCSlack`, `MCSlackSituations` | instances of `SlackServer` for TLC |
| `SeatReservation` | what the check-in promises: users served one at a time |
| `AirlineCheckin` | the concurrent check-in with row locks and error paths; instantiates `SeatReservation` |
| `AirlineProofs` | safety of the check-in and the refinement |
| `CrowChat` | the C++ server: handlers and websocket callbacks under two mutexes; extends `SlackDb` |
| `CrowChatProofs` | its safety properties |
| `MCCrowChat`, `MCCrowSituations` | instances of `CrowChat` for TLC |
| `LoadBalancer` | `Proxy` at the granularity of its loads and stores |
| `LoadBalancerProofs` | exact counts and the rotation, for any number of backends |
| `Presence` | heartbeats, `last_timestamp` and the status page of the indicator and of both chat servers, with a clock |
| `PresenceProofs` | how far the status can be from the truth, for any window, delay and resolution |
| `KqueueServer` | the event loop of `redis/main.go` |
| `KqueueProofs` | order of the echo, small writes, who is hung up on |
| `MCServers` | instances of `Presence` and `KqueueServer` |
| `ResourcePool` | what a pool promises: at most `Size` users at a time |
| `BlockingQueue` | `blockingQ`; implements `ResourcePool` |
| `ConnectionPool` | `connectionPool`: plain connections, a channel of handles, `sql.DB`; the pools implement `ResourcePool` |
| `PessimisticLocking` | the ticket counter and the OBD calls |
| `BloomFilter` | `bloomFilter` |
| `ProgramProofs` | the safety of these four and both refinements of `ResourcePool` |
| `MCPrograms` | instances of `BlockingQueue`, `ConnectionPool`, `PessimisticLocking` and `BloomFilter` |

### Chat server

`SlackDb` has one variable per table.  `user` and `message` are functions from ids
to rows (or `None`), `membership` is a set of pairs.  A message is named by the
request that wrote it, which is also the text pushed to clients.  Auto-increment
is the choice of an unused id.  Every insert is guarded by the foreign keys of
`slack/brainstroming.md:90-112`.  The documents show no UNIQUE index
on `userName`, and the model has none: two logins at once may register one name
twice.  `UniqueNames` says that this has not happened; properties that need it say so.

`SlackServer` has one action per database statement of a handler, because each
statement commits on its own:

* `createUser`: `FetchUser`, `NewUser`;
* `createChannel`: `FetchSender`, `FetchReceiver`, `FindChannel`, then either
  `FetchHistory`, or `NewChannel`, `NewChannelMessage` (which also starts the
  push), `NewSenderMembership`, `NewReceiverMembership`;
* `sendMessage`: `Persist`, `FetchMembers`, and its answer waits for the push;
* push: `PushLookup` reads `wsMap`, `PushEmit` writes to the connection read before;
* a read error inside a loop over rows is not noticed, since `rows.Err()` is never
  asked: `FindChannel` may find nothing although there is a channel, `FetchHistory`
  and `FetchMembers` may read a part of the rows.  The history variable `cut` has the
  requests this happened to;
* `Fail` is the error return of any statement, `Respond` and `LoseResponse` the
  end of a handler, with the page's callback in `Respond`; `Crash` the death and
  restart of the process at any point.

In `SlackSockets` a connection is new, open, stalled (the client is gone and the
server has not noticed), full (stalled, and the buffers towards it take no more) or
closed.  `Emit` hands a text to the connection's writer: it blocks on a full
connection, drops on a closed one, and what was taken reaches an open page unless
the connection breaks first.
`Disconnect` leaves `wsMap` alone, as `OnDisconnect` does.  `wsMap` is a Go map used
without a lock; the Go runtime's reaction to an overlap is an abort, covered by
`Crash`.

Abstractions: texts, names and time stamps are dropped.  `created_at` is taken
before the insert and stored in seconds, so the history query may answer any
`HistoryLimit` rows of the channel (`Histories`), all of them when there are no
more.  The query of the sender's name in `sendMessage` and the parsing of paths
and bodies decide nothing the properties see; their error returns are `Fail`.
`last_timestamp` and `/status` are in `Presence`.

### Chat server in C++

`CrowChat` uses the tables of `SlackDb`.  A handler takes `dbMutex` (`LockDb`),
executes its statements one action each, and gives the mutex back when it answers
(`Return`) or a statement throws (`Fail`); a push takes `wsMutex` inside
(`LockWs`, `PushMember` per member, `PushDone`).  Reads that follow one another under
`dbMutex` with no write between them are one action (`FindChannel` has both ids and
the join): no other thread can change the tables meanwhile.  The vector of a user's
connections is a bag, `wsMap[u][c]` counting the entries of `c`.

A callback whose work is one block under a mutex is one action that needs the mutex
free: `AppendConn` and `EraseConn` under `wsMutex`, `Upsert` under `dbMutex`.  Crow is
assumed to run the callbacks of a connection one after the other, to call `onclose`
last and to destroy the connection after it; `send_text` queues and returns, so a
slow client does not hold `wsMutex`.  What is queued may be lost when the
connection breaks.

Clients behave as the chat's pages do: heartbeats carry the id of a registered user,
a message carries its sender's own id (the channel id is arbitrary), and nobody opens
a channel with himself.  As in the Go model the texts are left out and the time
stamps are in `Presence`.

### Airline check-in

`seat` is the committed table, `lock` the row locks.  `ScanRow` is one row of
`select ... where name is NULL ORDER BY id LIMIT 1 for update`: it waits for the
row's lock and sees the committed value.  `RepeatableRead` selects the isolation
level (under READ COMMITTED the lock of a non-matching row is released).  The
uncommitted update is visible to nobody else because the row is locked, so `seat`
changes at `Commit`.  `StatementFails` is every error path with a rollback,
`ScanBreaks` the error that is not one: fetching the row fails (a lock wait timeout
arrives there), `rows.Next()` returns false, and the program goes on as if no seat
were free, keeping the locks a timeout leaves it.  `LoadUsers` may start the goroutines
of some users only, for the same reason.  `BeginFails` is the panic on the nil
transaction, `CommitFails` a commit whose error the code drops.  Initially the table holds any bookings of earlier runs.

### Load balancer

`lb.LastUsed = (lb.LastUsed + 1) % len(lb.Servers)` is `Load` and `Store`; `Log`,
`Count` and `Pick` are the three later reads.  Loads and stores of a word are
atomic on Go's platforms, so the data race is exactly their interleaving.
`Count` and `Add` split `Total++`.  `Toggle` (external) takes a backend down or up.
`AcceptFails`, `DialFails` and `CopyFails` are the calls of `log.Fatal`, which end the
process.

### Presence

Heartbeats and status of the three servers, picked by `Init`.  Time is a number of
ticks, `TickPerSec` to the second.  A heartbeat of the Go servers is `BeatArrives`
(the clock is read), `Prepare` and `Exec`; events of one connection are handled one
after the other, those of two connections overlap, and in the chat two pages may be
of one user.  `Tick` waits for handlers older than `MaxDelay`, the bound on what a
handler takes.  What is stored is what the column keeps: MySQL rounds the Go
driver's fraction to the nearest second, `strftime` truncates (`timePointToSQL`).
The C++ server writes local time and reads it back with `parseSQLTime`, whose zeroed
`tm_isdst` makes `mktime` take it for standard time: in summer (`summer`, picked by
`PInit`) a row reads `SummerTime` late.  The change of the season itself, when local
times repeat or are skipped, is not modelled.
`Query` takes the rows (in Go possibly the first ones only, as a read error goes
unnoticed there, too), and the answer is what `Online` says of them at any later
tick (`ShownOnline`, `ShownOffline`): Go compares to the nanosecond, C++ in whole
seconds.  `prepared` counts statements MySQL holds for the process, up to
`MaxStmt`; only `Restart` and a replaced database connection (`Reconnect`) free
them.  The indicator takes its user id from `conn.ID()`, a counter in base 36 whose
tenth value is `a`: an INT column rejects such an id (`Rejected`); a text column
takes it, and then the status page fails to scan the row (`Unscannable`).
`handleHearBeat` (`main.go:17-42`) is reached by no route and is not modelled apart.

### Event loop

A batch of `Poll` holds descriptors with the EOF flag as it was at the poll; the
actions of `HandleEvent` take events of the batch in any order, one per branch of the
loop body: `HandleEof`, `HandleAccept`, `RegisterFails`, `AcceptFails`,
`HandleData`, `ReadFails`.  Connections are edge-triggered: `ready` holds those with
an arrival since the last report.  The kernel's side (`Connect`, `Send`, `Finish`,
`Reset`, the readiness rules) is modelled from how the code uses it.  Descriptors
are reused as soon as they are closed.  A write may be cut short or fail, and the
rest is not retried.  The listener's descriptor comes from `File().Fd()`, which puts
it into blocking mode, so `Accept` waits if the connection reported was reset
meanwhile: then no event is handled until somebody connects.  `KeventFails` is an
error of `Kevent` other than EINTR, after which `main` returns.  The error returns of
the set-up (lines 66-100) exit before the loop and have no successor state.

### Queue, pools, counter, calls, filter

`BlockingQueue`: `Get` and `Put` have value receivers, so the mutex and the slice
header they change are copies: they exclude nobody and do not appear; the tokens of
the channel are the whole shared state.  `ConnectionPool`: `mode` is the benchmark.
`sql.Open` connects to nothing and fails only for a malformed DSN, which the
constant in the code is not, so its error returns are left out; the first `Exec` of a handle
connects; `limit` is
MySQL's `max_connections`.  Of `database/sql` the model has what the benchmarks use:
an idle connection is taken, else one is opened up to `MaxConn`, else the goroutine
queues; a freed connection goes to one that queues, else becomes idle up to
`MaxIdle`, else is closed.  An error panics and ends the process, except in the
benchmark of `sql.DB`, which logs it.  `PessimisticLocking`: `tickets--` is `BLoad`
and `BStore` under the mutex.  Each OBD call races two senders on an unbuffered
channel with a timeout; the flag `isChanClosed` is copied when the senders start and
stays false, so its test does not appear; a send on, or blocked on, the channel when
it is closed ends the process (`SendOnClosed`) unless `main` has returned (`Exit`).
`BloomFilter`: an item is its sum of bytes, `hash` adds the index.

## 3. Runs

| Run | Instance | Shows |
|---|---|---|
| `slack` | four situations: alice (1 connection) opens a channel and writes to bob (2 connections); alice and bob click each other, alice again; alice clicks, writes, clicks; dave logs in on two pages, clicks an unknown name and bob; 1 crash | `TypeOK`, `Durable`, `DeliveredToAddressee`, `AtMostOnce`, `ClickSelectsPair`, `CreateOnce`, `LoginOnce`, `SelectedIsUsable` |
| `slack_live` | alice opens a channel and writes, bob has two connections; 1 crash | `EveryRequestEnds`, `Reachable` |
| `slack_click_shows` | two clicks at once, a message, a third click | `ClickShowsSent` is violated |
| `crow` | three situations: alice clicks bob and an unknown name and writes, bob beats twice; alice and bob click each other, bob beats once; carol registers twice while alice clicks her; 1 connection, 1 crash | `TypeOK`, `OneChannelPerPair`, `OneIdPerName`, `ReceivedByMember`, `NoDangling`, `EveryRequestEnds` |
| `crow_sent_once` | the first of these | `SentOnce` is violated |
| `airline` | 3 users, 2 seats, every earlier booking | `TypeOK`, `HonestRefusal`, `OneBuyerPerSeat`, `NoOverwrite`, `WaitReturns`, `ServesOneAtATime` |
| `load_balancer` | 2 connections, 2 backends | `NoLostCount`, `RotationResumes`, `EveryRequestDialled` |
| `load_balancer_available` | same | `AvailableIsServed` is violated |
| `programs` | queue: 4 goroutines, 2 tokens; pools: 4 workers, 2 connections, 1 idle, limits 1 to 4; 3 ticket buyers; 2 calls; filter: 5 items, 9 cells, 3 hashes | `PutNeverBlocks`, `QImplementsPool`, `ImplementsPool`, `RefusedOnlyBeyondLimit`, `HandleInOnePlace`, `NoLostTicket`, `ContainsExactly`, `ProgramsEnd` |
| `servers` | event loop: 3 clients sending 3, 1 and 0 bytes, 2 descriptors, a buffer of 2; presence: 2 pages of one user, 3 ticks to the second, a window of 1 s, summer time 3 ticks ahead, instants 0 to 9 | `EchoInOrder`, `SmallWritesAreRead`, `HangsUpOnTheGone`, `GoneIsClosed`, `OnlineWasSeen`, `SeenIsOnline` |
| `kqueue_echo` | same | `DataIsEchoed` is violated |
| `presence_stored` | same, all ids numeric | `BeatCanBeStored` is violated |

Programs that share nothing are checked in one run: the initial state picks the
program (`prog`) or the situation, and the others stay put.  A situation of a chat
server is what its clients send and which connections they open; requests of the
other situations count as failed at their first statement.  In `slack` the constraint
`InOrder` hands out ids in ascending order, as `auto_increment` does, and bob's two
connections are interchangeable (`ConnSymmetry`; the run has safety properties only).

Bounds.  The set `Request` bounds the number of requests, `Conn` the number of
connections (each is opened once), `ChannelId` and `UserId` the rows, `MaxCrash`
the crashes.  Two connections of one user are the least for a stale entry and a
late heartbeat to matter; `slack` has an id for every click that can create
a channel; three users for two seats give a winner, a second winner and a refusal
as well as a waiting transaction behind a rollback; two overlapping `Proxy`
goroutines are enough to lose an update of `LastUsed` and to find `mu` taken.
For the C++ server, two requests per question are enough since `dbMutex` serialises
them; there is a channel id for each click and a spare user id for each
registration; bob beats twice where repeated entries of one connection matter,
and the connection count stays at one because callbacks of different
connections share nothing but the mutexes.
`HistoryLimit` is 1 in the passing runs of the Go server so that the limit cuts the answer off, and 10
in `slack_click_shows`, above the number of messages.
One client that overflows the read buffer, one that does not and one that only
connects, over two descriptors, reach reuse within a batch, a full descriptor table
and a blocked `Accept`.  With three ticks to the second rounding goes both ways, and
the instants exceed the window plus its rounding, its delay and summer time.  Four users of two
tokens leave two waiting; four workers against limits from 1 to 4 lie on both sides
of every bound; nine cells make the cells of an item wrap around.
Deadlock is not checked where the instance ends when its
requests are used up; `airline` has an explicit stuttering action after its end
instead, so a transaction stuck for ever would be reported.

Fairness.  Chat server: handlers and pushes run (Go scheduler; the driver answers
a statement with a result or an error), a connected page keeps beating
(`setInterval`, `message.html:54`), event handlers run, and a silent client is
closed (`PingTimeout`, `main.go:355`).  Nothing is assumed of sending, connecting,
stalling, closing by the client or crashing.  C++ server: the threads
run and statements return or throw (weak fairness of `Handle` and `Callback`); nothing
is assumed of the order in which `std::mutex` serves its waiters, so
`EveryRequestEnds` holds because requests and heartbeats are finite in the model,
and says that there is no deadlock rather than that there is no starvation.
Check-in: goroutines run and MySQL
answers statements that wait for no lock; a lock wait is not assumed to time out,
so `WaitReturns` does not rest on the timeout.  Load balancer: goroutines run, and
`Lock` is strongly fair because `sync.Mutex` hands a released lock to a goroutine
that has waited long enough (starvation mode).  The copies are not assumed to end.
Queue and pools: goroutines run and statements return; `Get` is strongly fair because
waiting receivers of a Go channel are served in order.  Ticket counter: goroutines run;
since each locks once, nothing is assumed of the order in which the mutex is given.
OBD calls: sleeps and timers end.  Event loop: the loop runs; clients do as they like, so `GoneIsClosed` excepts a
loop that waits in `Accept` for a client that may never come, and one that `Kevent`
ended.  Presence: safety only.

Findings.

* `slack_click_shows`: `createChannel` checks and creates in separate statements;
  two clicks at once give a pair two channels, a later click opens an arbitrary
  one, and a message sent before it can be missing from the list, contrary to
  `slack/brainstroming.md:75`.
* `crow_sent_once`: every heartbeat appends the connection to its user's vector again
  (`chat_server.cpp:425`), so a text is sent once per heartbeat, contrary to the
  one connection per user of the comment at line 58.
* `load_balancer_available`: a failed dial ends the load balancer although another
  backend is up, contrary to `LoadBalancer/requirement.md:1,4`.
* `kqueue_echo`: one read of 1024 bytes per edge-triggered report (`redis/main.go:144`,
  156) leaves the rest of a longer arrival unread until the client sends more, or
  drops it at the close, contrary to "Echo the data back" (167).  For clients that
  stay within the buffer `SmallWritesAreRead` shows that nothing is left.
* `presence_stored`: heartbeats prepare statements that nothing closes
  (`online_offline_indicator/main.go:122`, `slack/main.go:391`); at MySQL's limit
  heartbeats are dropped and their senders fade to offline, contrary to
  `online_offline_indicator/requirements.txt:9-11`.

The lost sends of `obdIssue.go` are not a finding: no text promises that the process
survives.

Three deviations that the model has, and that the properties therefore allow for:

* A read error ends a loop over rows as the end of the rows does, and nobody asks
  `rows.Err()`.  In the check-in (`airlineCheckin/main.go:58`) a lock wait timeout makes
  the program print "All seats booked!!" and commit while seats are free; `HonestRefusal`
  is about reads that went through all the rows, and the refinement counts a broken read
  as an error.  In `createChannel` it hides an existing channel (`slack/main.go:152`), so
  that a second one is created, or part of the history (221), so that a click is answered
  with an empty list; `CreateOnce` and `ClickSelectsPair` except these requests (`cut`).
* `parseSQLTime` (`chat_server.cpp:77-82`) takes local summer time for standard time, so
  that in such a zone the C++ server shows users online for an hour longer;
  `OnlineWasSeen` has the exact bound.
* Two logins at once can register one name twice; `CreateOnce` and `SelectedIsUsable`
  hold as long as that has not happened (`UniqueNames`).

## 4. Proofs

All theorems are for arbitrary constants that satisfy the named assumptions of the
modules (`DbAssumption`, `SocketAssumption`, `RequestAssumption`,
`CrowAssumption`, `CheckinAssumption`, `LBAssumption`, `PresenceAssumption`,
`KqueueAssumption`, `QAssumption`, `PoolAssumption`, `LockingAssumption`,
`BloomAssumption`).  The assumptions say that `None` (or `Nobody`, `Free`, `NoHandle`)
is not an id, that constants have their types, that sizes are positive, that
`MaxIdle` is at most `MaxConn`, that goroutines which are counted (connections of the
load balancer, users of the queue, workers, buyers) are finitely many, that the
names seeded for the C++ server are unique, and that a page does not offer its own user's name, as in `message.html:84`.

**`SlackServerProofs`.**  `TypeCorrect`: `Spec => []TypeOK`.  It uses the foreign
keys to type the rows of `membership`.

`PushedIsDurable`, `PushedToAddressees`, `PushedOnce`: the three properties of
pushed texts.  None is inductive.  The invariant `IInv` follows a text on its way
to a user: the user is *Pending* (in `todo`), then *InFlight* (the looked-up
connection is the user's), then has *Got* it.  `PushInv` says that the three
exclude one another (`Once`), that only addressees are in any of them
(`AddressedOnly`), and that none is reached before the message is saved
(`Started`).  It also needs facts about the handlers (`HandlerInv`): a handler
executes its own operation's statements (`OpPc`), the sender and receiver ids
belong to different names (`Names`), rows exist from the insert on (`Saved`), and a
socket in `wsMap` belongs to a page of the user it is registered for
(`RegisteredIsOwn`).  Most steps change none of the push's variables: the lemma
`QuietKeepsPush` handles them together, and each remaining action has a lemma of
its own (`NewChannelMessagePush`, `FetchMembersPush`, `PushLookupPush`,
`DroppedPush`, `DeliveredPush`, `CrashPush`).

**`CrowChatProofs`.**  Three invariants, each on top of `TypeCorrect`.
`Registered`: an entry of `wsMap` belongs to a connection between `onopen` and the end
of `onclose`, under the id its heartbeats carry.  It is stronger than `NoDangling`,
which it implies (`PushMeetsLiveConnections`): a heartbeat must not find the
connection already erased.
`DbInv`: a handler between its first statement and its end holds `dbMutex`
(`Exclusive`), so what it read is still true when it writes (`Fresh`: the name is
free, the pair has no channel, the new channel has no member but the sender), and the
two ids differ (`Distinct`).  From it follow `PairHasOneChannel` and `NameHasOneId`; a
channel left half-made by a failure has one member and joins no pair.
`Delivery`: the row of a text exists before anybody is listed for a push, everybody
listed is a member and not the sender, and nobody has received anything before.  With
`Registered` it gives `OnlyMembersReceive`.

**`AirlineProofs`.**  The invariant states what a transaction knows: the rows its
locking read has passed are booked (`Passed`), and the row it picked is free,
locked by it and the lowest free one (`Picked`).  `Passed` survives without any lock
on the passed rows, because booked seats are never freed; this is why the
results hold under READ COMMITTED too.  A read that broke off knows nothing: it has
picked no row, and `Passed` is about the rows before it.  From it follow `RefusalsAreHonest`,
`SeatHasOneBuyer`, `BookedStaysBooked` (an action property), and `Refinement`:
with `result` mapped to `Outcome`, a commit is `Book` or `TellFull`, failing
transactions, broken reads and the panic are `Refuse`, every other step stutters.

**`SlackClickProofs`.**  `ClickInv`, on top of `IInv`.  None of the four properties
is inductive, and each needs a part of what the handlers know.
`LoginInv`: the id a page got belongs to a row with the page's name, and nobody
clicks before he has one; since rows stay, a later login under that name finds it
(`LoginsFindTheRow`, without a UNIQUE index).
`MemberInv` and `ChannelInv`: a channel has a message before it has a member, so the
history of a channel found by the join is not empty; between the inserts the
message, and then the first membership, are in place.  This is why the order of the
four inserts matters: it gives `ClicksSelectPair` also when a statement fails or the
process dies between them.
`RepeatInv`: a click whose pair has an answered click finds both ids and then a
channel, unless a read error cut its look-up short, so it stays away from the inserts
(`Avoids`).  It is stated for states with `UniqueNames`; a step that ends in such a
state started in one (`UniqueBefore`).  It needs `Fresh` (a request
writes its message once), and that users, messages and memberships are never
removed (`StepGrows`); it gives `ClicksCreateOnce`.  Two clicks that overlap are
outside it: they are the finding `slack_click_shows`.
`UsableInv` is `SelectedIsUsable` with the second member named.  Pushes, sockets and
heartbeats change nothing all this is about (`AsideStep`); only the upsert of a
heartbeat could, and it finds its row.

**`LoadBalancerProofs`.**  `LBInv`: the holder of `mu`, and nobody else, is at lines 42
to 46 (`MutexInv`); at its store, a request's loaded total is the current one
(`RequestInv`); and a value of `LastUsed` nobody was sent to will still be picked by
somebody who has stored (`RotationInv`).  The first two make `NoLostCount` inductive,
the third gives `RotationContinues` although loads and stores of `LastUsed` are lost
at will.

**`ProgramProofs`.**
Queue: `TokenInv`, the tokens in the channel and the goroutines between `Get` and
`Put` add up to `QSize`.  Neither `PutNeverBlocks` nor the bound on the holders is
inductive without the count of the other.  From it follow `PutDoesNotBlock` and
`QRefinement`: `Get` is `Acquire`, `Put` is `Release`, the use in between stutters.
Connection pools: `PoolInv` counts, per benchmark, the open connections: one for each
worker at work (`PlainInv`), one for each handle dialled (`ChannelInv`), or idle plus in
use and at most `MaxConn` (`SqlPoolInv`); handles are in one place each, and none is
missing (`Placed`).  From it follow `LimitSuffices`, `HandlesHaveOneHolder` and
`PoolRefinement`, where a freed connection that goes straight to a queued goroutine is
the abstract `HandOver`.
Locking: `BuyInv`, the value a buyer loaded is current while it holds the mutex.
Filter: `BloomInv`, a cell is set if and only if it is a cell of an item added.  It
gives `NoFalseNegatives`, and that an item is found only when the cells of added items
cover its own.

**`KqueueProofs`.**  `KInv`: what was echoed to a client, followed by what is not read
yet, are its own bytes in order (`StreamInv`); a connection waits in the backlog once
or has one descriptor (`OwnerInv`); a batch has one report per descriptor, about the
client that owns it now (`EventInv`); the bytes of a client that never exceeds the
buffer fit one read and are announced (`ReadInv`).  `EventInv` is the heart: a
descriptor closed during a batch is closed by its only report, so its next owner,
accepted in the same batch, has none and can be neither read nor closed by a stale
one.  `ClosesOnlyTheGone` follows from it: an `EV_EOF`, or a read of nothing, is never
of a client that may still send.

**`PresenceProofs`.**  `PresenceInv`: a row is near the newest clock reading stored
(`RowInv`), within bounds that depend on the server: half a second for the rounding
of MySQL, less than a second for the truncation of `strftime`, and `MaxDelay` more
where handlers of two pages of one user overlap; a handler's reading is at most
`MaxDelay` old, and for the indicator, whose user has one connection, the newest
(`HandlerInv`).  `OnlineIsRecent` and `OfflineIsStale` add the comparison of the status page,
to the tick in Go and in whole seconds in C++, where a row reads `Late` (zero, or
`SummerTime` in summer) too young.  The lemmas `DivBounds`, `RoundedNear`
and `TruncatedNear` say what the conversions do to a time.

Every invariant, every safety action property and every refinement that a passing run checks
has its theorem.  Only model-checked: the liveness properties (`EveryRequestEnds` of
both chat servers, `Reachable`, `WaitReturns`, `EveryRequestDialled`, `ProgramsEnd`,
`GoneIsClosed`), since the prover does not reason about `ENABLED`; and the
counterexamples of the violation runs, which are single behaviours.

## 5. Plan

Done: the models of section 2, their runs, and the theorems of section 4.  Left:

1. Safety facts that the liveness properties rest on, as theorems: that a waiting
   transaction of the check-in waits for one that can run on, and that no two threads
   of the C++ server wait for each other's mutex.
2. The same for the load balancer and `sql.DB`: whoever waits, waits for a goroutine that
   holds what it waits for.

## 6. Not modelled

* `tcp`, `websockets`: a goroutine per connection that reads, writes and ends, sharing
  nothing with others; the one remarkable thing, that an error ends the process, is
  in the load balancer's model.
* `server_sent_events`: an endless loop without state; it never notices that its
  client left.
* `staticFileServer`, `fileIO`, `indexBenchmarkId`: input and output without state
  between operations.
* The insert branch of the C++ heartbeat's upsert (`chat_server.cpp:431-441`): a page
  beats with the id `createUser` gave it, and rows are never removed, so the row exists.
* Changes of the season while the C++ server runs; errors of `sql.Open`, which cannot
  fail for the constant DSN of the benchmarks.
* Time measurements, logging, wording of answers, and vendored code beyond what is
  said above.
