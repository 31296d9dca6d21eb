\* alice and bob are registered.  alice opens a channel and writes while both connect and
\* bob may reconnect; or both click each other; or alice clicks, writes and clicks again;
\* or dave logs in on two pages at once and clicks bob and a name nobody has.
SPECIFICATION SpecSituations
CONSTANTS
    u1 = u1
    u2 = u2
    u3 = u3
    u4 = u4
    ch1 = ch1
    ch2 = ch2
    ch3 = ch3
    pageA = pageA
    pageB = pageB
    pageC = pageC
    pageD = pageD
    connA = connA
    connB = connB
    connB2 = connB2
    None = None
    UserId = {u1, u2, u3, u4}
    UserName <- Names
    ChannelId = {ch1, ch2, ch3}
    Request <- AllRequests
    SeedUser <- Registered
    HistoryLimit = 1
    Page = {pageA, pageB, pageC, pageD}
    PageName <- FourPageNames
    Conn = {connA, connB, connB2}
    ConnPage <- ThreeConns
    MaxCrash = 1
CONSTRAINT InOrder
SYMMETRY ConnSymmetry
INVARIANTS
    TypeOK
    Durable
    DeliveredToAddressee
    AtMostOnce
    ClickSelectsPair
    CreateOnce
    LoginOnce
    SelectedIsUsable
CHECK_DEADLOCK FALSE
