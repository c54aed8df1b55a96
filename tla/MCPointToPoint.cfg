SPECIFICATION Spec
CONSTANTS
    a = a
    b = b
    None = None
    Devices = {a, b}
    Sizes = {1, 2}
    ByteTimes = {1, 2}
    Gap <- GapAB
    Delay = 1
    Mode <- ModeAB
    Limit <- LimitAB
    MaxSends = 4
    Horizon = 2
INVARIANTS
    TypeOK
    OneTransmission
    QueueAccounts
    WireCapacity
    WholeAtTxEnd
PROPERTIES
    ImplementsFifoLink
CHECK_DEADLOCK FALSE
