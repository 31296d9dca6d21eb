\* MySQL's default isolation level; three users compete for two seats.
SPECIFICATION Spec
CONSTANTS
    User = {a, b, c}
    NSeat = 2
    None = None
    RepeatableRead = TRUE
INVARIANTS
    TypeOK
    HonestRefusal
    OneBuyerPerSeat
PROPERTIES
    NoOverwrite
    WaitReturns
    ServesOneAtATime
