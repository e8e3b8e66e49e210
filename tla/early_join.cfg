SPECIFICATION FairSpec
CONSTANTS
    k1 = k1
    k2 = k2
    Slots <- TwoSlots
    Workers <- Nobody
    Callers <- AllCallers
    NoCaller = NoCaller
    NoChild = NoChild
    Versions <- OneVersion
    EarlyJoins = TRUE
    Faults <- NoFaults
CHECK_DEADLOCK FALSE
PROPERTY LeadCurrent
