------------------------------ MODULE Presence ------------------------------
(***************************************************************************)
(* Who is online: the "hearbeat" event and /status of                      *)
(* online_offline_indicator/main.go, slack/main.go and                     *)
(* slack/chat_server.cpp.  Init picks the server.                          *)
(*                                                                         *)
(* The Go servers read the clock, prepare the upsert and execute it in     *)
(* three steps, for the events of one connection one after the other and   *)
(* for those of different connections at the same time; the statement they *)
(* prepare is never closed.  The C++ server does it all under dbMutex.     *)
(*                                                                         *)
(* Time passes in ticks, TickPerSec to the second.  last_timestamp is a    *)
(* TIMESTAMP without fraction: MySQL rounds what the Go driver sends to    *)
(* the nearest second, strftime truncates.  The C++ server writes and      *)
(* reads local time; its season does not change while the model runs.  A   *)
(* user is named by one of its connections.                                *)
(***************************************************************************)
EXTENDS Integers

CONSTANTS
    Conn,         \* connections
    ConnUser,     \* ConnUser[c]: the user id the page of c sends
    Lettered,     \* connections whose base-36 id (the tenth is "a") has a letter
    TickPerSec,
    Window,       \* seconds after which a user is offline (10 in the code)
    MaxDelay,     \* ticks a handler takes from reading the clock to its end
    SummerTime,   \* ticks local time is ahead in summer (an hour)
    MaxStmt,      \* max_prepared_stmt_count (16382 unless configured)
    MaxTime       \* bound on the clock

NoRow == -1

ASSUME PresenceAssumption ==
    /\ ConnUser \in [Conn -> Conn] /\ Lettered \subseteq Conn
    /\ TickPerSec \in Nat \ {0} /\ Window \in Nat
    /\ MaxDelay \in Nat /\ MaxStmt \in Nat /\ MaxTime \in Nat
    /\ SummerTime \in Nat

VARIABLES
    server,    \* "indicator", "slack" or "crow"
    idColumn,  \* indicator: the type of column user_id, "int" or "text"
    summer,    \* crow: the process runs in summer time
    now,       \* the clock
    last,      \* last[u]: column last_timestamp of row u
    hpc,       \* hpc[c]: what the handler of c's heartbeat does next
    stamp,     \* stamp[c]: the time that handler read
    prepared,  \* statements the server holds for this process
    rows,      \* the rows /status is going through
    newest,    \* history: newest[u] is the latest stamp stored for u
    seen       \* history: newest when /status ran its query

presenceVars == <<server, idColumn, summer, now, last, hpc, stamp, prepared, rows,
                  newest, seen>>

Second(t) == t * TickPerSec
User(c) == IF server = "indicator" THEN c ELSE ConnUser[c]
Later(s, t) == IF s < t THEN t ELSE s
NoRows == [u \in Conn |-> NoRow]

PInit ==
    /\ server \in {"indicator", "slack", "crow"}
    /\ idColumn \in {"int", "text"}
    /\ summer \in BOOLEAN
    /\ now = 0
    /\ last = NoRows
    /\ hpc = [c \in Conn |-> "idle"]
    /\ stamp = [c \in Conn |-> 0]
    /\ prepared = 0
    /\ rows = NoRows
    /\ newest = NoRows /\ seen = NoRows

\* What MySQL keeps of a time, and what timePointToSQL makes of it, as the
\* instant the local time it writes stands for.
Rounded(t) == Second((t + TickPerSec \div 2) \div TickPerSec)
Truncated(t) == Second(t \div TickPerSec)
Stored(t) == IF server = "crow" THEN Truncated(t) ELSE Rounded(t)

\* parseSQLTime: get_time leaves tm_isdst at 0, so mktime takes the local time
\* for standard time and in summer returns a time that is an hour late.
Late == IF summer THEN SummerTime ELSE 0
ParseSQLTime(t) == t + Late

\* Row u is written with a clock reading s.
Write(u, s) ==
    /\ last' = [last EXCEPT ![u] = Stored(s)]
    /\ newest' = [newest EXCEPT ![u] = Later(@, s)]

-----------------------------------------------------------------------------
\* A handler under way ends within MaxDelay.
Tick ==
    /\ now < MaxTime
    /\ \A c \in Conn : hpc[c] # "idle" => now < stamp[c] + MaxDelay
    /\ now' = now + 1
    /\ UNCHANGED <<server, idColumn, summer, last, hpc, stamp, prepared, rows, newest,
                   seen>>

\* createUser of the chat servers enters the time of the registration.
Register(u) ==
    /\ server # "indicator" /\ ConnUser[u] = u /\ last[u] = NoRow
    /\ Write(u, now)
    /\ UNCHANGED <<server, idColumn, summer, now, hpc, stamp, prepared, rows, seen>>

\* currentTime := time.Now().  A page of the chat has registered its user.
BeatArrives(c) ==
    /\ server # "crow" /\ hpc[c] = "idle"
    /\ server = "slack" => last[User(c)] # NoRow
    /\ hpc' = [hpc EXCEPT ![c] = "prepare"]
    /\ stamp' = [stamp EXCEPT ![c] = now]
    /\ UNCHANGED <<server, idColumn, summer, now, last, prepared, rows, newest, seen>>

\* Db.Prepare; nobody closes the statement.
Prepare(c) ==
    /\ hpc[c] = "prepare" /\ prepared < MaxStmt
    /\ hpc' = [hpc EXCEPT ![c] = "exec"]
    /\ prepared' = prepared + 1
    /\ UNCHANGED <<server, idColumn, summer, now, last, stamp, rows, newest, seen>>

HandlerEnds(c) ==
    /\ hpc' = [hpc EXCEPT ![c] = "idle"]
    /\ stamp' = [stamp EXCEPT ![c] = 0]
    /\ UNCHANGED <<server, idColumn, summer, now, prepared, rows, seen>>

\* An integer column does not take an id with a letter.
Rejected(c) == server = "indicator" /\ idColumn = "int" /\ c \in Lettered

\* Mutant: the row is inserted and never updated.
Exec_Mut(c) ==
    /\ hpc[c] = "exec" /\ ~Rejected(c)
    /\ last' = [last EXCEPT ![User(c)] = IF @ = NoRow THEN Stored(stamp[c]) ELSE @]
    /\ newest' = [newest EXCEPT ![User(c)] = Later(@, stamp[c])]
    /\ HandlerEnds(c)

\* stmt.Exec: insert ... on duplicate key update last_timestamp = ?
Exec(c) ==
    /\ hpc[c] = "exec" /\ ~Rejected(c)
    /\ Write(User(c), stamp[c])
    /\ HandlerEnds(c)

\* Prepare or Exec returns an error, as Prepare does when MySQL holds too
\* many statements: the error is printed and the beat dropped.
BeatFails(c) ==
    /\ hpc[c] # "idle"
    /\ HandlerEnds(c)
    /\ UNCHANGED <<last, newest>>

\* onmessage: clock and upsert under one hold of dbMutex.
CrowBeat(c) ==
    /\ server = "crow" /\ last[User(c)] # NoRow
    /\ Write(User(c), now)
    /\ UNCHANGED <<server, idColumn, summer, now, hpc, stamp, prepared, rows, seen>>

\* The process dies and is started again: handlers end, the table stays, and
\* MySQL frees the statements of the connections that are gone.
Restart ==
    /\ prepared' = 0
    /\ hpc' = [c \in Conn |-> "idle"]
    /\ stamp' = [c \in Conn |-> 0]
    /\ rows' = NoRows /\ seen' = NoRows
    /\ UNCHANGED <<server, idColumn, summer, now, last, newest>>

\* database/sql replaces a connection that was closed while nobody used it.
Reconnect ==
    /\ prepared > 0 /\ \A c \in Conn : hpc[c] # "exec"
    /\ prepared' = 0
    /\ UNCHANGED <<server, idColumn, summer, now, last, hpc, stamp, rows, newest, seen>>

-----------------------------------------------------------------------------
\* fetchOnlineOfflineStatus: the query.  The Go servers do not ask rows.Err():
\* after a read error they go through the rows read so far ...
Query ==
    /\ rows = NoRows
    /\ \E S \in SUBSET Conn :
          /\ server = "crow" => S = Conn
          /\ rows' = [u \in Conn |-> IF u \in S THEN last[u] ELSE NoRow]
          /\ seen' = [u \in Conn |-> IF u \in S THEN newest[u] ELSE NoRow]
    /\ UNCHANGED <<server, idColumn, summer, now, last, hpc, stamp, prepared, newest>>

\* Mutant: the Go servers cut the difference to seconds, too.
Online_Mut(t) == (now - ParseSQLTime(t)) \div TickPerSec <= Window

\* ... for each row the time that has passed since, to the nanosecond in Go,
\* in whole seconds (duration_cast) in C++ ...
Online(t) ==
    IF server = "crow" THEN (now - ParseSQLTime(t)) \div TickPerSec <= Window
                       ELSE now - t <= Second(Window)

\* ... unless rows.Scan meets a user_id that is no int: 500 for everybody.
Unscannable == server = "indicator" /\ \E u \in Lettered : rows[u] # NoRow

\* Users the answer lists, were it given now, as online and as offline.
Answerable == rows # NoRows /\ ~Unscannable
ShownOnline == {u \in Conn : Answerable /\ rows[u] # NoRow /\ Online(rows[u])}
ShownOffline == {u \in Conn : Answerable /\ rows[u] # NoRow /\ ~Online(rows[u])}

\* The answer, or the error, is written.
StatusEnds ==
    /\ rows # NoRows
    /\ rows' = NoRows /\ seen' = NoRows
    /\ UNCHANGED <<server, idColumn, summer, now, last, hpc, stamp, prepared, newest>>

-----------------------------------------------------------------------------
PNext ==
    \/ Tick \/ Restart \/ Reconnect \/ Query \/ StatusEnds
    \/ \E c \in Conn :
          \/ Register(c) \/ BeatArrives(c) \/ Prepare(c) \/ Exec(c)
          \/ BeatFails(c) \/ CrowBeat(c)

PSpec == PInit /\ [][PNext]_presenceVars

-----------------------------------------------------------------------------
\* Whoever is shown online registered or beat within the window, give or take
\* the rounding: half a second in Go, less than one more second in C++, whose
\* window is in effect eleven seconds, and in summer an hour longer.
OnlineWasSeen ==
    \A u \in ShownOnline :
        IF server = "crow"
        THEN now - seen[u] < Second(Window + 1) + Late
        ELSE now - seen[u] <= Second(Window) + TickPerSec \div 2

\* How much younger than last_timestamp says a stored beat may be: Slack
\* handles the beats of two pages of one user at once, so that an older one
\* can be stored last, but only one that is at most MaxDelay older.  In summer
\* the C++ server's rows look younger than they are.
Lag ==
    CASE server = "crow"      -> 0 - Late
      [] server = "indicator" -> TickPerSec \div 2
      [] server = "slack"     -> TickPerSec \div 2 + MaxDelay

\* Whoever is shown offline had no beat within the window, less that lag,
\* stored when /status ran its query, although rows are written by handlers
\* that overlap and the clock is read before the statement is prepared.
SeenIsOnline ==
    \A u \in ShownOffline : now - seen[u] > Second(Window) - Lag

\* "what every user must send and what must be stored? user_id |
\* last_timestamp" (online_offline_indicator/requirements.txt:9-11): a
\* statement can be prepared for every beat that arrives.
BeatCanBeStored ==
    \A c \in Conn : hpc[c] = "prepare" => prepared < MaxStmt
=============================================================================
