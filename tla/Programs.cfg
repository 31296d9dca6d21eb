\* Four users of a blocking queue of two, four workers and a pool of two with one idle
\* connection, three ticket buyers and two calls, five items in a filter of nine bits.
SPECIFICATION SpecPrograms
CONSTANTS
    QUser = {q1, q2, q3, q4}
    QSize = 2
    Worker = {w1, w2, w3, w4}
    MaxConn = 2
    MaxIdle = 1
    Limits = {1, 2, 3, 4}
    NoHandle = 0
    Buyer = {b1, b2, b3}
    Tickets = 5
    Call = {c1, c2}
    Free = Free
    Item = {"dhina", "naidh", "sun", "apple", "vimal"}
    ByteSum <- Sums
    BloomSize = 9
    NHash = 3
INVARIANTS
    PutNeverBlocks
    RefusedOnlyBeyondLimit
    HandleInOnePlace
    NoLostTicket
    ContainsExactly
PROPERTIES
    QImplementsPool
    ImplementsPool
    ProgramsEnd
CHECK_DEADLOCK FALSE
