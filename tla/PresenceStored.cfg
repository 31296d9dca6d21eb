\* Two pages; MySQL holds two prepared statements; every id is a number.
SPECIFICATION SpecServers
CONSTANTS
    big = big
    small = small
    mute = mute
    Client = {big, small, mute}
    Fd = {f1, f2}
    BufSize = 2
    MaxSend <- Sends
    None = None
    c1 = c1
    c2 = c2
    Conn = {c1, c2}
    ConnUser <- OneUser
    Lettered = {}
    TickPerSec = 3
    Window = 1
    MaxDelay = 1
    SummerTime = 3
    MaxStmt = 2
    MaxTime = 7
INVARIANTS
    BeatCanBeStored
CHECK_DEADLOCK FALSE
