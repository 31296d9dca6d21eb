---------------------------- MODULE ResourcePool ----------------------------
(***************************************************************************)
(* What a pool of Size resources promises its users, whatever it is made   *)
(* of: nobody holds a resource before acquiring it, and never do more than *)
(* Size users hold one.  BlockingQueue and ConnectionPool implement it.    *)
(***************************************************************************)
EXTENDS Naturals, FiniteSets

CONSTANTS User, Size

VARIABLE phase   \* phase[u]: "waiting", "holding" or "done"

Holding == {u \in User : phase[u] = "holding"}

Init == phase = [u \in User |-> "waiting"]

Acquire(u) ==
    /\ phase[u] = "waiting" /\ Cardinality(Holding) < Size
    /\ phase' = [phase EXCEPT ![u] = "holding"]

Release(u) ==
    /\ phase[u] = "holding"
    /\ phase' = [phase EXCEPT ![u] = "done"]

\* The resource goes from its holder straight to a user who waits.
HandOver(u, v) ==
    /\ phase[u] = "holding" /\ phase[v] = "waiting"
    /\ phase' = [phase EXCEPT ![u] = "done", ![v] = "holding"]

\* A user is turned away.
GiveUp(u) ==
    /\ phase[u] = "waiting"
    /\ phase' = [phase EXCEPT ![u] = "done"]

Next ==
    \E u \in User :
        Acquire(u) \/ Release(u) \/ GiveUp(u) \/ \E v \in User : HandOver(u, v)

Spec == Init /\ [][Next]_phase
=============================================================================
