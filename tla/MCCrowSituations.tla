-------------------------- MODULE MCCrowSituations --------------------------
(***************************************************************************)
(* Three situations in one run: which requests the clients send is chosen  *)
(* at first.                                                               *)
(***************************************************************************)
EXTENDS MCCrowChat

CONSTANTS u3, u4, k1, k2

\* alice and bob click each other.
ClickRequests == {R(1, "createChannel", "alice", "bob"),
                  R(4, "createChannel", "bob", "alice")}

\* Two clients register carol while alice clicks her.
RegisterRequests == {R(5, "createUser", "carol", "bob"),
                     R(6, "createUser", "carol", "bob"),
                     R(2, "createChannel", "alice", "carol")}

AllRequests == PushRequests \cup ClickRequests \cup RegisterRequests

\* What the clients send, and how often bob beats.
Situations ==
    {[sends |-> PushRequests,     beats |-> 2],
     [sends |-> ClickRequests,    beats |-> 1],
     [sends |-> RegisterRequests, beats |-> 0]}

\* The requests of the other situations have failed at their first statement,
\* and the heartbeats beyond the situation's have been received.
InitSituations ==
    /\ DbInit
    /\ dbMutex = None /\ wsMutex = None
    /\ wsMap = [u \in UserId |-> [c \in Conn |-> 0]]
    /\ \E s \in Situations :
          /\ pc = [r \in Request |-> IF r \in s.sends THEN "idle" ELSE "failed"]
          /\ beats = [c \in Conn |-> MaxBeat - s.beats]
    /\ sid = [r \in Request |-> None]
    /\ rid = [r \in Request |-> None]
    /\ chan = [r \in Request |-> None]
    /\ todo = [r \in Request |-> {}]
    /\ cpc = [c \in Conn |-> "new"]
    /\ here = [c \in Conn |-> FALSE]
    /\ got = [c \in Conn |-> [r \in Request |-> 0]]
    /\ crashes = 0

SpecSituations == InitSituations /\ [][Next]_vars /\ Fairness
=============================================================================
