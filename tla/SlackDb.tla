------------------------------ MODULE SlackDb ------------------------------
(***************************************************************************)
(* The MySQL database behind the chat servers slack/main.go and            *)
(* slack/chat_server.cpp (same tables, same statements): the foreign keys  *)
(* of slack/brainstroming.md:90-112, and the queries and inserts the       *)
(* handlers issue; line numbers are main.go's.  Every statement runs in    *)
(* autocommit mode (no handler opens a transaction), so each of them is    *)
(* one atomic step and what it wrote survives a crash of the server.       *)
(*                                                                         *)
(* Ids are members of constant sets; auto_increment is the choice of an    *)
(* unused one.  Texts, names and timestamps are abstracted: a message is   *)
(* named by the HTTP request that wrote its text, because that text is     *)
(* what the server also pushes to the clients.                             *)
(***************************************************************************)
EXTENDS Naturals, FiniteSets

CONSTANTS
    UserId,          \* ids of table user
    UserName,        \* names users register with
    ChannelId,       \* ids of table channel
    Request,         \* HTTP requests; also the texts of messages
    None,            \* Go's zero id: "no row"
    SeedUser,        \* rows of table user when the server starts
    HistoryLimit     \* LIMIT of the history query (10 in the code)

\* The columns of a message row that matter.
Message == [sender : UserId, channel : ChannelId]

ASSUME DbAssumption ==
    /\ None \notin UserId \cup UserName \cup ChannelId \cup Message
    /\ IsFiniteSet(Request)
    /\ SeedUser \in [UserId -> UserName \cup {None}]
    /\ HistoryLimit \in Nat \ {0}

VARIABLES
    user,        \* user[u]: the name in row u, None if there is no such row
    channel,     \* the rows of table channel
    message,     \* message[r]: sender and channel of r's text, None if unsaved
    membership   \* pairs <<channel_id, user_id>>

dbVars == <<user, channel, message, membership>>

DbTypeOK ==
    /\ user \in [UserId -> UserName \cup {None}]
    /\ channel \subseteq ChannelId
    /\ message \in [Request -> Message \cup {None}]
    /\ membership \subseteq channel \X UserId

DbInit ==
    /\ user = SeedUser
    /\ channel = {}
    /\ message = [r \in Request |-> None]
    /\ membership = {}

-----------------------------------------------------------------------------
\* Queries.

UserExists(u) == u \in UserId /\ user[u] # None

\* select id from user where userName = ?
IdsOf(name) == {u \in UserId : user[u] = name}

\* No two rows of table user carry one name.
UniqueNames ==
    \A u, v \in UserId : user[u] # None /\ user[u] = user[v] => u = v

\* The self join of membership: channels both users are members of.
ChannelsBetween(s, r) ==
    {ch \in channel : <<ch, s>> \in membership /\ <<ch, r>> \in membership}

\* select * from membership where channel_id = ?
Members(ch) == {u \in UserId : <<ch, u>> \in membership}

MessagesIn(ch) ==
    {m \in Request : message[m] # None /\ message[m].channel = ch}

\* "order by created_at desc limit 10".  created_at is read before the
\* insert and has a resolution of one second, so which rows are the newest
\* is not fixed by the order of the inserts: any HistoryLimit rows of the
\* channel may be the answer, and all of them when there are no more.
Histories(ch) ==
    LET all == MessagesIn(ch)
    IN  IF Cardinality(all) <= HistoryLimit
        THEN {all}
        ELSE {h \in SUBSET all : Cardinality(h) = HistoryLimit}

-----------------------------------------------------------------------------
\* Inserts.  Each is enabled when MySQL accepts the row.

\* The repository does not define table user, so no UNIQUE index is assumed:
\* a second row of the same name is accepted.
InsertUser(u, name) ==
    /\ user[u] = None
    /\ user' = [user EXCEPT ![u] = name]
    /\ UNCHANGED <<channel, message, membership>>

\* insert into user ... on duplicate key update last_timestamp = ?
\* Only last_timestamp changes when the row exists.
UpsertUser(u, name) ==
    /\ user' = [user EXCEPT ![u] = IF @ = None THEN name ELSE @]
    /\ UNCHANGED <<channel, message, membership>>

InsertChannel(ch) ==
    /\ ch \in ChannelId \ channel
    /\ channel' = channel \cup {ch}
    /\ UNCHANGED <<user, message, membership>>

\* foreign key (channel_id), foreign key (sender_id)
InsertMessage(r, s, ch) ==
    /\ UserExists(s) /\ ch \in channel
    /\ message' = [message EXCEPT ![r] = [sender |-> s, channel |-> ch]]
    /\ UNCHANGED <<user, channel, membership>>

\* Mutant: membership.user_id has no foreign key.
InsertMembership_Mut(ch, u) ==
    /\ ch \in channel
    /\ membership' = membership \cup {<<ch, u>>}
    /\ UNCHANGED <<user, channel, message>>

\* foreign key (channel_id), foreign key (user_id)
InsertMembership(ch, u) ==
    /\ UserExists(u) /\ ch \in channel
    /\ membership' = membership \cup {<<ch, u>>}
    /\ UNCHANGED <<user, channel, message>>
=============================================================================
