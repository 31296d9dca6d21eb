----------------------------- MODULE MCCrowChat -----------------------------
(***************************************************************************)
(* A small instance of CrowChat: alice and bob are registered, carol       *)
(* may register, bob may connect.                                          *)
(***************************************************************************)
EXTENDS CrowChat, TLC

CONSTANTS u1, u2

Names == {"alice", "bob", "carol"}
Seed == [u \in UserId |-> IF u = u1 THEN "alice" ELSE IF u = u2 THEN "bob" ELSE None]
OfBob == [c \in Conn |-> u2]

R(n, op, from, to) == [n |-> n, op |-> op, from |-> from, to |-> to]

\* alice clicks bob and somebody who is not registered, and writes.
PushRequests == {R(1, "createChannel", "alice", "bob"),
                 R(2, "createChannel", "alice", "carol"),
                 R(3, "sendMessage", "alice", "bob")}
=============================================================================
