-------------------------- MODULE SeatReservation --------------------------
(***************************************************************************)
(* What airlineCheckin/main.go promises its users, without transactions or *)
(* locks: each asks for a seat once and gets the lowest free one, or is    *)
(* told that all seats are booked, or gets an error and nothing happens.   *)
(***************************************************************************)
EXTENDS Naturals

CONSTANTS User, NSeat, None

Seat == 1 .. NSeat

VARIABLES
    seat,     \* seat[s]: who has seat s, None if it is free
    result    \* result[u]: how u's request ended

LowestFree(table, s) ==
    /\ table[s] = None
    /\ \A t \in Seat : t < s => table[t] # None

Init ==
    /\ seat \in [Seat -> User \cup {None}]
    /\ result = [u \in User |-> "waiting"]

Book(u) ==
    /\ result[u] = "waiting"
    /\ \E s \in Seat :
          /\ LowestFree(seat, s)
          /\ seat' = [seat EXCEPT ![s] = u]
    /\ result' = [result EXCEPT ![u] = "booked"]

TellFull(u) ==
    /\ result[u] = "waiting"
    /\ \A s \in Seat : seat[s] # None
    /\ result' = [result EXCEPT ![u] = "full"]
    /\ UNCHANGED seat

\* One request fails, or many at once when the process dies.
Refuse ==
    /\ \E S \in SUBSET {u \in User : result[u] = "waiting"} :
          result' = [u \in User |-> IF u \in S THEN "error" ELSE result[u]]
    /\ UNCHANGED seat

Next == (\E u \in User : Book(u) \/ TellFull(u)) \/ Refuse

Spec == Init /\ [][Next]_<<seat, result>>
=============================================================================
