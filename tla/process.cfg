SPECIFICATION FairSpec
CONSTANTS
    k1 = k1
    k2 = k2
    Slots <- TwoSlots
    Workers <- AJob
    Callers <- AllCallers
    NoCaller = NoCaller
    NoChild = NoChild
    Versions <- OneVersion
    EarlyJoins = FALSE
    Faults <- AllFaults
CHECK_DEADLOCK FALSE
INVARIANT PInv
INVARIANT OneChild
INVARIANT NoOrphan
PROPERTY NoFalseAlarm
PROPERTY ShutdownCompletes
