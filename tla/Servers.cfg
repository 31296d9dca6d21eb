\* kqueue: three clients share two descriptors; two bytes fit the buffer.
\* presence: two pages, a window of one second, handlers that take up to a third of one;
\* summer time is a second ahead.
SPECIFICATION SpecServers
CONSTANTS
    big = big
    small = small
    mute = mute
    Client = {big, small, mute}
    Fd = {f1, f2}
    BufSize = 2
    MaxSend <- Sends
    None = None
    c1 = c1
    c2 = c2
    Conn = {c1, c2}
    ConnUser <- OneUser
    Lettered = {c2}
    TickPerSec = 3
    Window = 1
    MaxDelay = 1
    SummerTime = 3
    MaxStmt = 2
    MaxTime = 9
INVARIANTS
    EchoInOrder
    SmallWritesAreRead
    OnlineWasSeen
    SeenIsOnline
PROPERTIES
    HangsUpOnTheGone
    GoneIsClosed
CHECK_DEADLOCK FALSE
