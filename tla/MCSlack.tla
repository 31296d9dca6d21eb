------------------------------ MODULE MCSlack ------------------------------
(***************************************************************************)
(* Small instances of SlackServer: two users, the requests their pages     *)
(* send, the connections the pages open.                                   *)
(***************************************************************************)
EXTENDS SlackServer, TLC

CONSTANTS u1, u2, ch1, ch2, pageA, pageB, connA, connB, connB2

Click(n, p, name) == [n |-> n, op |-> "createChannel", page |-> p, to |-> name]
Say(n, p) == [n |-> n, op |-> "sendMessage", page |-> p, to |-> "nobody"]
Login(n, p) == [n |-> n, op |-> "createUser", page |-> p, to |-> "nobody"]

Names == {"alice", "bob", "carol", "dave", "nobody"}
TwoPageNames == pageA :> "alice" @@ pageB :> "bob"

\* alice and bob have registered already.
Registered == [u \in UserId |->
    IF u = u1 THEN "alice" ELSE IF u = u2 THEN "bob" ELSE None]

\* alice opens a channel with bob and writes to him.
PushRequests == {Click(1, pageA, "bob"), Say(2, pageA)}

\* alice and bob click each other; alice clicks bob again.
ClickRequests == {Click(1, pageA, "bob"), Click(3, pageB, "alice"), Click(4, pageA, "bob")}

\* alice clicks bob, writes to him and clicks him again.
ReadRequests == PushRequests \cup {Click(4, pageA, "bob")}

\* alice and bob click each other, alice writes, bob clicks again.
LostRequests == {Click(1, pageA, "bob"), Click(2, pageB, "alice"),
                 Say(3, pageA), Click(4, pageB, "alice")}

NoConns == [c \in {} |-> pageA]
ConnsOfBob == connB :> pageB @@ connB2 :> pageB
ThreeConns == connA :> pageA @@ connB :> pageB @@ connB2 :> pageB
=============================================================================
