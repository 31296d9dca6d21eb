--------------------------- MODULE PresenceProofs ---------------------------
(***************************************************************************)
(* For any window, delay, resolution of the clock and assignment of pages  *)
(* to users, in each of the three servers: a user shown online was seen    *)
(* within the window, and a user shown offline was not, up to what         *)
(* rounding to seconds, the handlers' delay and the C++ server's reading   *)
(* of summer time add or take away.                                        *)
(***************************************************************************)
EXTENDS Presence, TLAPS

\* Half a second, what MySQL's rounding can add.
Half == TickPerSec \div 2

\* What \div does.
LEMMA DivBounds ==
    ASSUME NEW a \in Int
    PROVE  /\ a \div TickPerSec \in Int
           /\ Second(a \div TickPerSec) \in Int
           /\ Second(a \div TickPerSec) <= a
           /\ a < Second(a \div TickPerSec) + TickPerSec
  BY PresenceAssumption DEF Second

\* Seconds are ordered like ticks.
LEMMA SecondMonotone ==
    ASSUME NEW a \in Int, NEW b \in Int, a <= b
    PROVE  Second(a) \in Int /\ Second(b) \in Int /\ Second(a) <= Second(b)
  BY PresenceAssumption DEF Second

\* One second has TickPerSec ticks.
LEMMA SecondNext ==
    ASSUME NEW a \in Int
    PROVE  Second(a + 1) = Second(a) + TickPerSec /\ Second(a) \in Int
  BY PresenceAssumption DEF Second

\* Two halves are a second, up to the tick an odd resolution leaves over.
LEMMA HalfBounds ==
    /\ Half \in Nat
    /\ 2 * Half <= TickPerSec /\ TickPerSec <= 2 * Half + 1
  BY PresenceAssumption DEF Half

\* MySQL's rounding moves a time by half a second at most.
LEMMA RoundedNear ==
    ASSUME NEW t \in Int
    PROVE  Rounded(t) \in Int /\ t - Half <= Rounded(t) /\ Rounded(t) <= t + Half
<1>. DEFINE q == Second((t + Half) \div TickPerSec)
<1>1. t + Half \in Int /\ Rounded(t) = q
  BY HalfBounds DEF Rounded, Half
<1>2. q \in Int /\ q <= t + Half /\ t + Half < q + TickPerSec
  BY <1>1, DivBounds
<1>. HIDE DEF q
<1>. QED
  BY <1>1, <1>2, HalfBounds, PresenceAssumption

\* strftime moves it back, by less than a second.
LEMMA TruncatedNear ==
    ASSUME NEW t \in Int
    PROVE  /\ Truncated(t) \in Int
           /\ t - (TickPerSec - 1) <= Truncated(t) /\ Truncated(t) <= t
<1>1. /\ Truncated(t) \in Int /\ Truncated(t) <= t
      /\ t < Truncated(t) + TickPerSec
  BY DivBounds DEF Truncated
<1>. QED
  BY <1>1, PresenceAssumption

-----------------------------------------------------------------------------
\* How far last_timestamp may be ahead of, and behind, the newest reading of
\* the clock that was stored.
Ahead == IF server = "crow" THEN 0 ELSE Half
Behind ==
    CASE server = "crow"      -> TickPerSec - 1
      [] server = "indicator" -> Half
      [] server = "slack"     -> Half + MaxDelay

\* row may be what the column keeps when the newest reading stored is t.
Near(row, t) == t - Behind <= row /\ row <= t + Ahead

\* Types of the clock, the rows and the handlers.
PTypeOK ==
    /\ server \in {"indicator", "slack", "crow"}
    /\ now \in Nat /\ summer \in BOOLEAN
    /\ last \in [Conn -> Int] /\ rows \in [Conn -> Int]
    /\ newest \in [Conn -> Int] /\ seen \in [Conn -> Int]
    /\ hpc \in [Conn -> {"idle", "prepare", "exec"}]
    /\ stamp \in [Conn -> Nat]

\* A row is near the newest beat stored, and no stored beat is from the
\* future.
RowInv ==
    /\ \A u \in Conn : newest[u] <= now
    /\ \A u \in Conn : last[u] # NoRow => Near(last[u], newest[u])
    /\ \A u \in Conn : rows[u] # NoRow => Near(rows[u], seen[u])

\* A handler holds a recent time; the indicator's only handler of a user,
\* the newest.
HandlerInv ==
    \A c \in Conn : hpc[c] # "idle" =>
        /\ server # "crow"
        /\ stamp[c] <= now /\ now <= stamp[c] + MaxDelay
        /\ server = "indicator" => newest[c] <= stamp[c]

\* The inductive invariant.
PresenceInv == PTypeOK /\ RowInv /\ HandlerInv

-----------------------------------------------------------------------------
\* The bounds are numbers, and every page has a user.
LEMMA BoundTypes ==
    ASSUME PTypeOK
    PROVE  /\ Ahead \in Nat /\ Behind \in Nat
           /\ \A u \in Conn : User(u) \in Conn
<1>1. Ahead \in Nat
  BY HalfBounds DEF Ahead
<1>2. Behind \in Nat
  <2>1. CASE server = "crow"
    BY <2>1, PresenceAssumption DEF Behind
  <2>2. CASE server = "indicator"
    BY <2>2, HalfBounds DEF Behind
  <2>3. CASE server = "slack"
    BY <2>3, HalfBounds, PresenceAssumption DEF Behind
  <2>. QED
    BY <2>1, <2>2, <2>3 DEF PTypeOK
<1>. QED
  BY <1>1, <1>2, PresenceAssumption DEF User

\* So is what parseSQLTime adds.
LEMMA LateType == Late \in Nat
  BY PresenceAssumption DEF Late

\* Writing row u with a reading s of the clock keeps RowInv when s is near
\* enough to the newest time stored for u.
LEMMA WriteStep ==
    ASSUME PresenceInv, NEW u \in Conn, NEW s \in Nat, s <= now, Write(u, s),
           server = "slack" => newest[u] <= s + MaxDelay,
           server # "slack" => newest[u] <= s,
           UNCHANGED <<server, summer, now, rows, seen>>
    PROVE  /\ last' \in [Conn -> Int] /\ newest' \in [Conn -> Int]
           /\ RowInv'
           /\ \A v \in Conn : v # u => newest'[v] = newest[v]
<1>. USE DEF PresenceInv, NoRow
<1>1. Stored(s) \in Int /\ Later(newest[u], s) \in Int
  BY RoundedNear, TruncatedNear DEF Stored, Later, PTypeOK
<1>2. Ahead' = Ahead /\ Behind' = Behind /\ Ahead \in Nat /\ Behind \in Nat
  BY BoundTypes DEF Ahead, Behind
<1>3. Near(Stored(s), Later(newest[u], s))
  <2>0. newest[u] \in Int
    BY DEF PTypeOK
  <2>1. CASE server = "crow"
    <3>1. Stored(s) = Truncated(s) /\ Ahead = 0 /\ Behind = TickPerSec - 1
      BY <2>1 DEF Stored, Ahead, Behind
    <3>2. Later(newest[u], s) = s
      BY <2>0, <2>1 DEF Later
    <3>3. s - (TickPerSec - 1) <= Truncated(s) /\ Truncated(s) <= s /\ Truncated(s) \in Int
      BY TruncatedNear
    <3>. QED
      BY <3>1, <3>2, <3>3 DEF Near
  <2>2. CASE server = "indicator"
    <3>1. Stored(s) = Rounded(s) /\ Ahead = Half /\ Behind = Half
      BY <2>2 DEF Stored, Ahead, Behind
    <3>2. Later(newest[u], s) = s
      BY <2>0, <2>2 DEF Later
    <3>. QED
      BY <3>1, <3>2, RoundedNear DEF Near
  <2>3. CASE server = "slack"
    <3>1. Stored(s) = Rounded(s) /\ Ahead = Half /\ Behind = Half + MaxDelay
      BY <2>3 DEF Stored, Ahead, Behind
    <3>2. s <= Later(newest[u], s) /\ Later(newest[u], s) <= s + MaxDelay
      BY <2>0, <2>3, PresenceAssumption DEF Later
    <3>3. Rounded(s) \in Int /\ s - Half <= Rounded(s) /\ Rounded(s) <= s + Half
      BY RoundedNear
    <3>4. Later(newest[u], s) - (Half + MaxDelay) <= Rounded(s)
      BY <1>1, <3>2, <3>3, HalfBounds, PresenceAssumption
    <3>5. Rounded(s) <= Later(newest[u], s) + Half
      BY <1>1, <3>2, <3>3, HalfBounds
    <3>. QED
      BY <3>1, <3>4, <3>5 DEF Near
  <2>. QED
    BY <2>1, <2>2, <2>3 DEF PTypeOK
<1>4. /\ last' = [last EXCEPT ![u] = Stored(s)]
      /\ newest' = [newest EXCEPT ![u] = Later(newest[u], s)]
  BY DEF Write
<1>5. last' \in [Conn -> Int] /\ newest' \in [Conn -> Int]
  BY <1>1, <1>4 DEF PTypeOK
<1>6. /\ last'[u] = Stored(s) /\ newest'[u] = Later(newest[u], s)
      /\ \A v \in Conn : v # u => last'[v] = last[v] /\ newest'[v] = newest[v]
  BY <1>4 DEF PTypeOK
<1>7. Later(newest[u], s) <= now
  BY DEF Later, RowInv
<1>8. RowInv'
  <2>1. \A v \in Conn : newest'[v] <= now'
    BY <1>6, <1>7 DEF RowInv
  <2>2. \A v \in Conn : last'[v] # NoRow => Near(last[v], newest[v])'
    BY <1>2, <1>3, <1>6 DEF RowInv, Near
  <2>3. \A v \in Conn : rows'[v] # NoRow => Near(rows[v], seen[v])'
    BY <1>2 DEF RowInv, Near
  <2>. QED
    BY <2>1, <2>2, <2>3 DEF RowInv
<1>. QED
  BY <1>5, <1>6, <1>8

\* PresenceInv holds before the first beat.
LEMMA PInitInv == PInit => PresenceInv
  BY DEF PInit, PresenceInv, PTypeOK, RowInv, HandlerInv, NoRows, NoRow

\* Time passes, but not past MaxDelay for a handler under way.
LEMMA TickStep ==
    ASSUME PresenceInv, Tick
    PROVE  PresenceInv'
<1>. USE DEF PresenceInv, Tick
<1>1. PTypeOK'
  BY DEF PTypeOK
<1>2. RowInv'
  <2>1. \A u \in Conn : newest'[u] <= now'
    BY DEF RowInv, PTypeOK
  <2>. QED
    BY <2>1 DEF RowInv, Near, Ahead, Behind
<1>3. HandlerInv'
  <2>1. \A c \in Conn : stamp[c] \in Nat /\ now \in Nat
    BY DEF PTypeOK
  <2>. QED
    BY <2>1, PresenceAssumption DEF HandlerInv
<1>. QED
  BY <1>1, <1>2, <1>3

\* The steps that store nothing.
LEMMA QuietStep ==
    ASSUME PresenceInv,
           \/ Restart \/ Reconnect \/ Query \/ StatusEnds
           \/ \E c \in Conn : BeatArrives(c) \/ Prepare(c) \/ BeatFails(c)
    PROVE  PresenceInv'
<1>. USE DEF PresenceInv
<1>1. CASE Restart
  BY <1>1 DEF Restart, PTypeOK, RowInv, HandlerInv, NoRows, NoRow, Near, Ahead, Behind
<1>2. CASE Reconnect
  BY <1>2 DEF Reconnect, PTypeOK, RowInv, HandlerInv, Near, Ahead, Behind
<1>3. CASE Query
  <2>1. PICK S \in SUBSET Conn :
          /\ rows' = [u \in Conn |-> IF u \in S THEN last[u] ELSE NoRow]
          /\ seen' = [u \in Conn |-> IF u \in S THEN newest[u] ELSE NoRow]
    BY <1>3 DEF Query
  <2>2. UNCHANGED <<server, summer, now, last, hpc, stamp, newest>>
    BY <1>3 DEF Query
  <2>3. PTypeOK' /\ HandlerInv'
    BY <2>1, <2>2 DEF PTypeOK, HandlerInv, NoRow
  <2>4. \A u \in Conn : rows'[u] # NoRow => rows'[u] = last[u] /\ seen'[u] = newest[u]
    BY <2>1
  <2>5. RowInv'
    BY <2>2, <2>4 DEF RowInv, Near, Ahead, Behind
  <2>. QED
    BY <2>3, <2>5
<1>4. CASE StatusEnds
  BY <1>4 DEF StatusEnds, PTypeOK, RowInv, HandlerInv, NoRows, NoRow, Near, Ahead, Behind
<1>5. ASSUME NEW c \in Conn, BeatArrives(c)
      PROVE  PresenceInv'
  <2>1. PTypeOK'
    BY <1>5 DEF BeatArrives, PTypeOK
  <2>2. RowInv'
    BY <1>5 DEF BeatArrives, RowInv, Near, Ahead, Behind
  <2>3. HandlerInv'
    BY <1>5, PresenceAssumption DEF BeatArrives, HandlerInv, PTypeOK, RowInv
  <2>. QED
    BY <2>1, <2>2, <2>3
<1>6. ASSUME NEW c \in Conn, Prepare(c)
      PROVE  PresenceInv'
  BY <1>6 DEF Prepare, PTypeOK, RowInv, HandlerInv, Near, Ahead, Behind
<1>7. ASSUME NEW c \in Conn, BeatFails(c)
      PROVE  PresenceInv'
  <2>1. PTypeOK'
    BY <1>7 DEF BeatFails, HandlerEnds, PTypeOK
  <2>2. RowInv'
    BY <1>7 DEF BeatFails, HandlerEnds, RowInv, Near, Ahead, Behind
  <2>3. HandlerInv'
    BY <1>7 DEF BeatFails, HandlerEnds, HandlerInv, PTypeOK
  <2>. QED
    BY <2>1, <2>2, <2>3
<1>. QED
  BY <1>1, <1>2, <1>3, <1>4, <1>5, <1>6, <1>7

\* The steps that store a time.
LEMMA StoreStep ==
    ASSUME PresenceInv, NEW c \in Conn, Register(c) \/ Exec(c) \/ CrowBeat(c)
    PROVE  PresenceInv'
<1>. USE DEF PresenceInv
<1>0. now \in Nat /\ User(c) \in Conn
  BY BoundTypes DEF PTypeOK
<1>1. \A u \in Conn : newest[u] \in Int /\ newest[u] <= now /\ newest[u] <= now + MaxDelay
  <2>1. \A u \in Conn : newest[u] \in Int /\ newest[u] <= now
    BY DEF RowInv, PTypeOK
  <2>2. MaxDelay \in Nat
    BY PresenceAssumption
  <2>3. ASSUME NEW u \in Conn PROVE newest[u] <= now + MaxDelay
    <3>1. newest[u] \in Int /\ newest[u] <= now
      BY <2>1
    <3>. QED
      BY <1>0, <2>2, <3>1
  <2>. QED
    BY <2>1, <2>3
<1>2. CASE Register(c)
  <2>1. /\ Write(c, now)
        /\ UNCHANGED <<server, summer, now, hpc, stamp, rows, seen>> /\ server # "indicator"
    BY <1>2 DEF Register
  <2>2. last' \in [Conn -> Int] /\ newest' \in [Conn -> Int] /\ RowInv'
    BY <1>0, <1>1, <2>1, WriteStep
  <2>. QED
    BY <2>1, <2>2 DEF PTypeOK, HandlerInv
<1>3. CASE CrowBeat(c)
  <2>1. /\ Write(User(c), now)
        /\ UNCHANGED <<server, summer, now, hpc, stamp, rows, seen>> /\ server = "crow"
    BY <1>3 DEF CrowBeat
  <2>2. last' \in [Conn -> Int] /\ newest' \in [Conn -> Int] /\ RowInv'
    BY <1>0, <1>1, <2>1, WriteStep
  <2>. QED
    BY <2>1, <2>2 DEF PTypeOK, HandlerInv
<1>4. CASE Exec(c)
  <2>1. /\ Write(User(c), stamp[c]) /\ hpc[c] # "idle"
        /\ hpc' = [hpc EXCEPT ![c] = "idle"]
        /\ stamp' = [stamp EXCEPT ![c] = 0]
        /\ UNCHANGED <<server, summer, now, rows, seen>>
    BY <1>4 DEF Exec, HandlerEnds
  <2>2. /\ stamp[c] \in Nat /\ stamp[c] <= now /\ now <= stamp[c] + MaxDelay
        /\ server # "crow"
        /\ server = "indicator" => User(c) = c /\ newest[c] <= stamp[c]
    BY <2>1 DEF HandlerInv, PTypeOK, User
  <2>3. newest[User(c)] <= stamp[c] + MaxDelay
    BY <1>0, <1>1, <2>2, PresenceAssumption
  <2>4. /\ server = "slack" => newest[User(c)] <= stamp[c] + MaxDelay
        /\ server # "slack" => newest[User(c)] <= stamp[c]
    BY <2>2, <2>3 DEF PTypeOK
  <2>5. /\ last' \in [Conn -> Int] /\ newest' \in [Conn -> Int] /\ RowInv'
        /\ \A v \in Conn : v # User(c) => newest'[v] = newest[v]
    BY <1>0, <2>1, <2>2, <2>4, WriteStep
  <2>6. PTypeOK'
    BY <2>1, <2>5 DEF PTypeOK
  <2>7. HandlerInv'
    BY <2>1, <2>2, <2>5 DEF HandlerInv, PTypeOK
  <2>. QED
    BY <2>5, <2>6, <2>7
<1>. QED
  BY <1>2, <1>3, <1>4

\* The invariant of the three servers.
THEOREM PresenceInvariant == PSpec => []PresenceInv
<1>1. PresenceInv /\ [PNext]_presenceVars => PresenceInv'
  <2>. SUFFICES ASSUME PresenceInv, [PNext]_presenceVars PROVE PresenceInv'
    OBVIOUS
  <2>1. CASE UNCHANGED presenceVars
    BY <2>1 DEF presenceVars, PresenceInv, PTypeOK, RowInv, HandlerInv, Near, Ahead, Behind
  <2>. QED
    BY <2>1, TickStep, QuietStep, StoreStep DEF PNext
<1>. QED
  BY <1>1, PInitInv, PTL DEF PSpec

\* OnlineWasSeen for any clock resolution, window and number of connections.
THEOREM OnlineIsRecent == PSpec => []OnlineWasSeen
<1>1. PresenceInv => OnlineWasSeen
  <2>. SUFFICES ASSUME PresenceInv, NEW u \in ShownOnline
                PROVE  IF server = "crow"
                       THEN now - seen[u] < Second(Window + 1) + Late
                       ELSE now - seen[u] <= Second(Window) + TickPerSec \div 2
    BY DEF OnlineWasSeen
  <2>1. u \in Conn /\ rows[u] # NoRow /\ Online(rows[u])
    BY DEF ShownOnline
  <2>2. rows[u] \in Int /\ seen[u] \in Int /\ now \in Nat /\ rows[u] <= seen[u] + Ahead
    BY <2>1 DEF PresenceInv, PTypeOK, RowInv, Near
  <2>3. CASE server = "crow"
    <3>. DEFINE t == rows[u] + Late
    <3>. DEFINE q == (now - t) \div TickPerSec
    <3>1. q <= Window /\ rows[u] <= seen[u]
      BY <2>1, <2>2, <2>3 DEF Online, ParseSQLTime, Ahead
    <3>2. now - t \in Int /\ t \in Int
      BY <2>2, LateType
    <3>3. q \in Int /\ Second(q) \in Int /\ now - t < Second(q) + TickPerSec
      BY <3>2, DivBounds
    <3>. HIDE DEF q
    <3>4. Second(q) <= Second(Window) /\ Second(Window) \in Int
      BY <3>1, <3>3, SecondMonotone, PresenceAssumption
    <3>5. Second(Window + 1) = Second(Window) + TickPerSec
      BY SecondNext, PresenceAssumption
    <3>6. now - seen[u] < Second(Window) + TickPerSec + Late
      BY <2>2, <3>1, <3>3, <3>4, LateType, PresenceAssumption
    <3>. QED
      BY <2>3, <3>4, <3>5, <3>6, LateType, PresenceAssumption
  <2>4. CASE server # "crow"
    <3>1. now - rows[u] <= Second(Window) /\ rows[u] <= seen[u] + Half
      BY <2>1, <2>2, <2>4 DEF Online, Ahead
    <3>2. Second(Window) \in Int /\ Half \in Int
      BY SecondNext, HalfBounds, PresenceAssumption
    <3>3. now - seen[u] <= Second(Window) + Half
      BY <2>2, <3>1, <3>2
    <3>. QED
      BY <2>4, <3>3 DEF Half
  <2>. QED
    BY <2>3, <2>4
<1>. QED
  BY <1>1, PresenceInvariant, PTL

\* SeenIsOnline: whatever handlers overlap.
THEOREM OfflineIsStale == PSpec => []SeenIsOnline
<1>1. PresenceInv => SeenIsOnline
  <2>. SUFFICES ASSUME PresenceInv, NEW u \in ShownOffline
                PROVE  now - seen[u] > Second(Window) - Lag
    BY DEF SeenIsOnline
  <2>1. u \in Conn /\ rows[u] # NoRow /\ ~Online(rows[u])
    BY DEF ShownOffline
  <2>2. rows[u] \in Int /\ seen[u] \in Int /\ now \in Nat /\ seen[u] - Behind <= rows[u]
    BY <2>1 DEF PresenceInv, PTypeOK, RowInv, Near
  <2>3. Second(Window) \in Int /\ Half \in Nat
    BY SecondNext, HalfBounds, PresenceAssumption
  <2>4. CASE server = "crow"
    <3>. DEFINE t == rows[u] + Late
    <3>. DEFINE q == (now - t) \div TickPerSec
    <3>1. ~(q <= Window) /\ Behind = TickPerSec - 1 /\ Lag = 0 - Late
      BY <2>1, <2>4 DEF Online, ParseSQLTime, Behind, Lag
    <3>2. now - t \in Int /\ t \in Int
      BY <2>2, LateType
    <3>3. q \in Int /\ Second(q) \in Int /\ Second(q) <= now - t
      BY <3>2, DivBounds
    <3>. HIDE DEF q
    <3>4. Window + 1 <= q
      BY <3>1, <3>3, PresenceAssumption
    <3>5. Second(Window + 1) <= Second(q)
      BY <3>3, <3>4, SecondMonotone, PresenceAssumption
    <3>6. Second(Window + 1) = Second(Window) + TickPerSec
      BY SecondNext, PresenceAssumption
    <3>. QED
      BY <2>2, <2>3, <3>1, <3>3, <3>5, <3>6, LateType, PresenceAssumption
  <2>5. CASE server = "indicator"
    <3>1. ~(now - rows[u] <= Second(Window)) /\ Behind = Half /\ Lag = Half
      BY <2>1, <2>5 DEF Online, Behind, Lag, Half
    <3>. QED
      BY <2>2, <2>3, <3>1
  <2>6. CASE server = "slack"
    <3>1. /\ ~(now - rows[u] <= Second(Window))
          /\ Behind = Half + MaxDelay /\ Lag = Half + MaxDelay
      BY <2>1, <2>6 DEF Online, Behind, Lag, Half
    <3>. QED
      BY <2>2, <2>3, <3>1, PresenceAssumption
  <2>. QED
    BY <2>4, <2>5, <2>6 DEF PresenceInv, PTypeOK
<1>. QED
  BY <1>1, PresenceInvariant, PTL
=============================================================================
