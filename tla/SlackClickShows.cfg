\* bob clicks alice after she wrote to him; the history holds ten messages.
SPECIFICATION Spec
CONSTANTS
    u1 = u1
    u2 = u2
    ch1 = ch1
    ch2 = ch2
    pageA = pageA
    pageB = pageB
    connA = connA
    connB = connB
    connB2 = connB2
    None = None
    UserId = {u1, u2}
    UserName <- Names
    ChannelId = {ch1, ch2}
    Request <- LostRequests
    SeedUser <- Registered
    HistoryLimit = 10
    Page = {pageA, pageB}
    PageName <- TwoPageNames
    Conn = {}
    ConnPage <- NoConns
    MaxCrash = 0
INVARIANTS
    ClickShowsSent
CHECK_DEADLOCK FALSE
