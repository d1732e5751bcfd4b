CONSTANTS
    Requests = {r1, r2}
    r1 = r1
    r2 = r2
    Shape <- MCShape
    Hooks <- MCHooks
    MaxPending = 1
    Drain = Drain
SPECIFICATION FairSpec
CHECK_DEADLOCK FALSE
INVARIANTS
    TypeOK
    NothingVanishes
    InOrder
    NoGaps
    CloseKeepsAccepted
    AlertsRaised
PROPERTIES
    CallersEnd
    EventuallyReceived
