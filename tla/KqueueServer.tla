---------------------------- MODULE KqueueServer ----------------------------
(***************************************************************************)
(* redis/main.go: one thread, one kqueue, an echo server.  The listener is *)
(* registered level-triggered, a connection edge-triggered (EV_CLEAR): it  *)
(* is reported once per arrival of bytes or of the end of the stream.  A   *)
(* report carries EV_EOF as it was when Kevent returned, and is handled    *)
(* after other reports of the same batch.  File().Fd() puts the listener   *)
(* into blocking mode, so Accept waits when the connection it was called   *)
(* for is gone.                                                            *)
(*                                                                         *)
(* Bytes are numbered per client; BufSize of them fit the read buffer.  At *)
(* most 128 descriptors are ready at once, so a batch holds them all.      *)
(***************************************************************************)
EXTENDS Naturals, Sequences

CONSTANTS
    Client,    \* clients, each connects once
    Fd,        \* descriptors Accept may return
    BufSize,   \* size of buf (1024 in the code)
    MaxSend,   \* MaxSend[c]: bound on the bytes of c
    None

Listener == "listener"

ASSUME KqueueAssumption ==
    /\ BufSize \in Nat \ {0} /\ MaxSend \in [Client -> Nat]
    /\ Listener \notin Fd /\ None \notin Client

VARIABLES
    running,  \* the loop has not been left
    state,    \* state[c]: "new", "waiting" for Accept, "served", "closed"
    writes,   \* writes[c]: the client may still send
    inq,      \* inq[c]: bytes sent and not read, with their client
    sent,     \* sent[c]: number of bytes sent
    got,      \* got[c]: bytes echoed to the client
    backlog,  \* connections waiting for Accept
    owner,    \* owner[f]: the client behind descriptor f
    ready,    \* descriptors with something new to report
    batch,    \* events of the current batch not handled yet
    excess    \* history: clients that once had more than BufSize bytes unread

connVars == <<state, writes, inq, sent, got, backlog, owner, ready, batch, excess>>
vars == <<running, connVars>>

Init ==
    /\ running = TRUE
    /\ state = [c \in Client |-> "new"]
    /\ writes = [c \in Client |-> FALSE]
    /\ inq = [c \in Client |-> <<>>]
    /\ sent = [c \in Client |-> 0]
    /\ got = [c \in Client |-> <<>>]
    /\ backlog = <<>>
    /\ owner = [f \in Fd |-> None]
    /\ ready = {} /\ batch = {} /\ excess = {}

FdsOf(c) == {f \in Fd : owner[f] = c}

-----------------------------------------------------------------------------
\* Clients.
Connect(c) ==
    /\ state[c] = "new"
    /\ state' = [state EXCEPT ![c] = "waiting"]
    /\ writes' = [writes EXCEPT ![c] = TRUE]
    /\ backlog' = Append(backlog, c)
    /\ UNCHANGED <<inq, sent, got, owner, ready, batch, excess>>

Send(c) ==
    /\ writes[c] /\ sent[c] < MaxSend[c]
    /\ sent' = [sent EXCEPT ![c] = @ + 1]
    /\ inq' = [inq EXCEPT ![c] = Append(@, <<c, sent[c] + 1>>)]
    /\ excess' = IF Len(inq[c]) >= BufSize THEN excess \cup {c} ELSE excess
    /\ ready' = ready \cup FdsOf(c)
    /\ UNCHANGED <<state, writes, got, backlog, owner, batch>>

\* The client closes or shuts down its end; what it sent can still be read.
Finish(c) ==
    /\ writes[c]
    /\ writes' = [writes EXCEPT ![c] = FALSE]
    /\ ready' = ready \cup FdsOf(c)
    /\ UNCHANGED <<state, inq, sent, got, backlog, owner, batch, excess>>

\* The client resets the connection: unread bytes are gone, and so is a
\* connection that nobody accepted.
Reset(c) ==
    /\ writes[c]
    /\ writes' = [writes EXCEPT ![c] = FALSE]
    /\ inq' = [inq EXCEPT ![c] = <<>>]
    /\ ready' = ready \cup FdsOf(c)
    /\ \/ state[c] # "waiting" /\ UNCHANGED <<state, backlog>>
       \/ \E i \in 1 .. Len(backlog) :
             /\ backlog[i] = c
             /\ state' = [state EXCEPT ![c] = "closed"]
             /\ backlog' = SubSeq(backlog, 1, i - 1)
                              \o SubSeq(backlog, i + 1, Len(backlog))
    /\ UNCHANGED <<sent, got, owner, batch, excess>>

-----------------------------------------------------------------------------
\* The event loop.

\* Kevent returns what is ready and clears it; the kernel checks once more
\* whether there is something to report.
Poll ==
    LET c(f) == owner[f]
        reports == {[fd |-> f, eof |-> ~writes[c(f)]] :
                       f \in {g \in ready : inq[c(g)] # <<>> \/ ~writes[c(g)]}}
        accepts == IF backlog = <<>> THEN {} ELSE {[fd |-> Listener, eof |-> FALSE]}
    IN  /\ batch = {} /\ reports \cup accepts # {}
        /\ batch' = reports \cup accepts
        /\ ready' = {}
        /\ UNCHANGED <<state, writes, inq, sent, got, backlog, owner, excess>>

\* Kevent fails, other than by EINTR: the loop is left and main returns.
KeventFails ==
    /\ batch = {} /\ running
    /\ running' = FALSE
    /\ UNCHANGED connVars

CloseFd(f) ==
    /\ state' = [state EXCEPT ![owner[f]] = "closed"]
    /\ owner' = [owner EXCEPT ![f] = None]
    /\ ready' = ready \ {f}

\* Mutant: the branch forgets syscall.Close.
HandleEof_Mut(e) ==
    /\ e \in batch /\ e.eof /\ batch' = batch \ {e}
    /\ UNCHANGED <<state, owner, ready, writes, inq, sent, got, backlog, excess>>

\* EV_EOF is tested first: bytes that were not read are dropped.
HandleEof(e) ==
    /\ e \in batch /\ e.eof /\ batch' = batch \ {e}
    /\ CloseFd(e.fd)
    /\ UNCHANGED <<writes, inq, sent, got, backlog, excess>>

\* Accept and register; the new descriptor is ready at once when there is
\* something to report already.
HandleAccept(e) ==
    LET c == Head(backlog)
    IN  /\ e \in batch /\ e.fd = Listener /\ backlog # <<>>
        /\ batch' = batch \ {e}
        /\ backlog' = Tail(backlog)
        /\ state' = [state EXCEPT ![c] = "served"]
        /\ \E f \in FdsOf(None) :
              /\ owner' = [owner EXCEPT ![f] = c]
              /\ ready' = IF inq[c] # <<>> \/ ~writes[c]
                          THEN ready \cup {f} ELSE ready
        /\ UNCHANGED <<writes, inq, sent, got, excess>>

\* Kevent refuses to register the connection: it is closed.
RegisterFails(e) ==
    LET c == Head(backlog)
    IN  /\ e \in batch /\ e.fd = Listener /\ backlog # <<>> /\ FdsOf(None) # {}
        /\ batch' = batch \ {e}
        /\ backlog' = Tail(backlog)
        /\ state' = [state EXCEPT ![c] = "closed"]
        /\ UNCHANGED <<writes, inq, sent, got, owner, ready, excess>>

\* Accept fails for want of a descriptor; the connection keeps waiting.
AcceptFails(e) ==
    /\ e \in batch /\ e.fd = Listener /\ backlog # <<>> /\ FdsOf(None) = {}
    /\ batch' = batch \ {e}
    /\ UNCHANGED <<state, writes, inq, sent, got, backlog, owner, ready, excess>>

\* Mutant: buf[:n-1] is read.
ReadLen_Mut(c) == IF Len(inq[c]) < BufSize THEN Len(inq[c]) ELSE BufSize - 1

\* What one Read returns.
ReadLen(c) == IF Len(inq[c]) < BufSize THEN Len(inq[c]) ELSE BufSize

\* Mutant: a short write is repeated from the start of the buffer.
HandleData_Mut(e) ==
    LET c == owner[e.fd]
        n == ReadLen(c)
    IN  /\ e \in batch /\ e.fd # Listener /\ ~e.eof /\ n > 0
        /\ batch' = batch \ {e}
        /\ inq' = [inq EXCEPT ![c] = SubSeq(@, n + 1, Len(@))]
        /\ \E k \in 0 .. n :
              got' = [got EXCEPT ![c] = @ \o SubSeq(inq[c], 1, k) \o SubSeq(inq[c], 1, n)]
        /\ UNCHANGED <<state, writes, sent, backlog, owner, ready, excess>>

\* One Read, one Write: the socket takes any part of the bytes, or none when
\* its buffer is full or the client is gone, and the rest is not sent again.
HandleData(e) ==
    LET c == owner[e.fd]
        n == ReadLen(c)
    IN  /\ e \in batch /\ e.fd # Listener /\ ~e.eof /\ n > 0
        /\ batch' = batch \ {e}
        /\ inq' = [inq EXCEPT ![c] = SubSeq(@, n + 1, Len(@))]
        /\ \E k \in 0 .. n : got' = [got EXCEPT ![c] = @ \o SubSeq(inq[c], 1, k)]
        /\ UNCHANGED <<state, writes, sent, backlog, owner, ready, excess>>

\* Mutant: a read that does not fill the buffer is taken for the end.
ReadFails_Mut(e) ==
    /\ e \in batch /\ e.fd # Listener /\ ~e.eof
    /\ ReadLen(owner[e.fd]) < BufSize
    /\ batch' = batch \ {e}
    /\ CloseFd(e.fd)
    /\ UNCHANGED <<writes, inq, sent, got, backlog, excess>>

\* Read returns 0 or an error: the client reset the connection meanwhile.
ReadFails(e) ==
    /\ e \in batch /\ e.fd # Listener /\ ~e.eof
    /\ ReadLen(owner[e.fd]) = 0
    /\ batch' = batch \ {e}
    /\ CloseFd(e.fd)
    /\ UNCHANGED <<writes, inq, sent, got, backlog, excess>>

-----------------------------------------------------------------------------
HandleEvent ==
    \E e \in batch :
        \/ HandleEof(e) \/ HandleAccept(e) \/ RegisterFails(e)
        \/ AcceptFails(e) \/ HandleData(e) \/ ReadFails(e)

Runs == running /\ UNCHANGED running

Next ==
    \/ \E c \in Client : (Connect(c) \/ Send(c) \/ Finish(c) \/ Reset(c)) /\ Runs
    \/ (Poll \/ HandleEvent) /\ Runs
    \/ KeventFails

\* The loop runs; clients do as they like.
Spec == Init /\ [][Next]_vars /\ WF_vars(Poll /\ Runs) /\ WF_vars(HandleEvent /\ Runs)

-----------------------------------------------------------------------------
\* Accept blocks: its connection was reset after Kevent reported it.
InAccept == [fd |-> Listener, eof |-> FALSE] \in batch /\ backlog = <<>>

\* A client gets back its own bytes only, in order and none twice, although
\* descriptors are closed and reused within a batch and writes fall short.
EchoInOrder ==
    \A c \in Client : \A i \in 1 .. Len(got[c]) :
        /\ got[c][i][1] = c
        /\ i > 1 => got[c][i - 1][2] < got[c][i][2]

\* The server hangs up only on a client that has finished or reset, or whose
\* registration failed: no event closes the next owner of its descriptor.
HangsUpOnTheGone ==
    [][\A f \in Fd : owner[f] # None /\ owner'[f] # owner[f] => ~writes[owner[f]]]_vars

\* A client that never has more than BufSize bytes under way is not kept
\* waiting: when the loop sleeps, whatever is unread belongs to one that had.
SmallWritesAreRead ==
    \A f \in Fd :
        /\ batch = {} /\ f \notin ready
        /\ owner[f] # None /\ inq[owner[f]] # <<>>
        => owner[f] \in excess

\* The descriptor of a client that is gone is closed, unless the loop is
\* stuck in Accept or has been left.
GoneIsClosed ==
    \A c \in Client :
        (FdsOf(c) # {} /\ ~writes[c]) ~> (FdsOf(c) = {} \/ InAccept \/ ~running)

\* "Echo the data back" (line 167): when the loop has nothing left to do, a
\* connected client has no bytes waiting to be read.
DataIsEchoed ==
    \A f \in Fd :
        /\ batch = {} /\ ready = {} /\ backlog = <<>> /\ owner[f] # None
        => inq[owner[f]] = <<>>
=============================================================================
