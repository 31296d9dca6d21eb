------------------------- MODULE MCSlackSituations -------------------------
(***************************************************************************)
(* Four situations in one run.  Which requests are sent and which          *)
(* connections are opened is up to the environment: it is chosen at first. *)
(***************************************************************************)
EXTENDS MCSlack

CONSTANTS u3, u4, ch3, pageC, pageD

FourPageNames == TwoPageNames @@ pageC :> "dave" @@ pageD :> "dave"

\* dave logs in on two pages at once, clicks a name nobody has, then bob's.
LoginRequests == {Login(5, pageC), Login(6, pageD), Click(7, pageC, "carol"),
                  Click(8, pageC, "bob"), Say(9, pageC)}

AllRequests == ClickRequests \cup ReadRequests \cup LoginRequests

\* What the pages send and the connections they open.
Situations ==
    {[sends |-> PushRequests,  opens |-> Conn],
     [sends |-> ClickRequests, opens |-> {}],
     [sends |-> ReadRequests,  opens |-> {}],
     [sends |-> LoginRequests, opens |-> {}]}

\* The requests of the other situations have failed at their first statement
\* and the other connections are closed.
InitSituations ==
    /\ DbInit
    /\ pageUser = [p \in Page |->
          IF p = pageA THEN u1 ELSE IF p = pageB THEN u2 ELSE None]
    /\ \E s \in Situations :
          /\ conn = [c \in Conn |-> IF c \in s.opens THEN "new" ELSE "closed"]
          /\ pc = [r \in Request |-> IF r \in s.sends THEN "idle" ELSE "failed"]
    /\ beat = [c \in Conn |-> FALSE]
    /\ wsMap = [u \in UserId |-> None]
    /\ inbox = [c \in Conn |-> <<>>]
    /\ crashes = 0
    /\ cur = [p \in Page |-> None]
    /\ sid = [r \in Request |-> None]
    /\ rid = [r \in Request |-> None]
    /\ chan = [r \in Request |-> None]
    /\ shown = [r \in Request |-> {}]
    /\ todo = [r \in Request |-> {}]
    /\ target = [r \in Request |-> None]
    /\ before = [r \in Request |-> {}]
    /\ cut = {}

SpecSituations == InitSituations /\ [][Next]_vars

\* bob's two connections are interchangeable.
ConnSymmetry == Permutations({connB, connB2})

\* auto_increment hands ids out in order.
InOrder ==
    /\ channel \in {{}, {ch1}, {ch1, ch2}, {ch1, ch2, ch3}}
    /\ user[u4] # None => user[u3] # None
=============================================================================
