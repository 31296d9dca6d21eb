\* Clients of the event loop; one of them sends more than the buffer holds.
SPECIFICATION SpecServers
CONSTANTS
    big = big
    small = small
    mute = mute
    Client = {big, small, mute}
    Fd = {f1, f2}
    BufSize = 2
    MaxSend <- Sends
    None = None
    c1 = c1
    c2 = c2
    Conn = {c1, c2}
    ConnUser <- OneUser
    Lettered = {c2}
    TickPerSec = 3
    Window = 1
    MaxDelay = 1
    SummerTime = 3
    MaxStmt = 2
    MaxTime = 7
INVARIANTS
    DataIsEchoed
CHECK_DEADLOCK FALSE
