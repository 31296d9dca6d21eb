\* alice clicks bob and a name nobody has, and writes; or alice and bob click each other; or
\* carol is registered twice without a UNIQUE index.  bob beats twice over one connection.
SPECIFICATION SpecSituations
CONSTANTS
    u1 = u1
    u2 = u2
    u3 = u3
    u4 = u4
    k1 = k1
    k2 = k2
    None = None
    UserId = {u1, u2, u3, u4}
    UserName <- Names
    ChannelId = {k1, k2}
    Request <- AllRequests
    SeedUser <- Seed
    HistoryLimit = 10
    Conn = {c1}
    ConnUser <- OfBob
    MaxBeat = 2
    MaxCrash = 1
INVARIANTS
    TypeOK
    OneChannelPerPair
    OneIdPerName
    ReceivedByMember
    NoDangling
PROPERTIES
    EveryRequestEnds
CHECK_DEADLOCK FALSE
