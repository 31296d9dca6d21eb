\* Requests end and bob stays reachable although his client may go silent.
SPECIFICATION Spec
CONSTANTS
    u1 = u1
    u2 = u2
    ch1 = ch1
    ch2 = ch2
    pageA = pageA
    pageB = pageB
    connA = connA
    connB = connB
    connB2 = connB2
    None = None
    UserId = {u1, u2}
    UserName <- Names
    ChannelId = {ch1}
    Request <- PushRequests
    SeedUser <- Registered
    HistoryLimit = 1
    Page = {pageA, pageB}
    PageName <- TwoPageNames
    Conn = {connB, connB2}
    ConnPage <- ConnsOfBob
    MaxCrash = 1
PROPERTIES
    EveryRequestEnds
    Reachable
CHECK_DEADLOCK FALSE
