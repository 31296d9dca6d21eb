\* alice clicks bob and a name nobody has, and writes; bob beats twice over one connection.
SPECIFICATION Spec
CONSTANTS
    u1 = u1
    u2 = u2
    None = None
    UserId = {u1, u2}
    UserName <- Names
    ChannelId = {k1, k2}
    Request <- PushRequests
    SeedUser <- Seed
    HistoryLimit = 10
    Conn = {c1}
    ConnUser <- OfBob
    MaxBeat = 2
    MaxCrash = 1
INVARIANTS
    SentOnce
CHECK_DEADLOCK FALSE
