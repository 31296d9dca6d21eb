----------------------------- MODULE MCServers -----------------------------
(***************************************************************************)
(* Small instances of KqueueServer and Presence.  They share nothing: the  *)
(* initial state picks one and the other stays as it is.                   *)
(***************************************************************************)
EXTENDS KqueueServer, Presence, TLC

CONSTANTS big, small, mute, c1, c2

\* Clients that send much, little and nothing.
Sends == big :> 3 @@ small :> 1 @@ mute :> 0

\* Two pages of one user.
OneUser == c1 :> c1 @@ c2 :> c1

VARIABLE prog

serverVars == <<prog, vars, presenceVars>>

InitServers ==
    /\ prog \in {"kqueue", "presence"}
    /\ Init /\ PInit
    /\ prog = "kqueue" => server = "crow" /\ ~summer
    /\ server # "indicator" => idColumn = "int"
    /\ server # "crow" => ~summer

RunKqueue == prog = "kqueue" /\ UNCHANGED <<prog, presenceVars>>
RunPresence == prog = "presence" /\ UNCHANGED <<prog, vars>>

NextServers == (Next /\ RunKqueue) \/ (PNext /\ RunPresence)

FairServers ==
    /\ WF_serverVars(Poll /\ Runs /\ RunKqueue)
    /\ WF_serverVars(HandleEvent /\ Runs /\ RunKqueue)

SpecServers == InitServers /\ [][NextServers]_serverVars /\ FairServers
=============================================================================
