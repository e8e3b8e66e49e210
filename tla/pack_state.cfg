SPECIFICATION FairSpec
CONSTANTS
    k1 = k1
    k2 = k2
    Slots <- TwoSlots
    Workers <- TheWorker
    Callers <- AllCallers
    NoCaller = NoCaller
    NoChild = NoChild
    Versions <- ThreeVersions
    EarlyJoins = FALSE
    Faults <- StartsFail
CHECK_DEADLOCK FALSE
PROPERTY LeadCurrent
