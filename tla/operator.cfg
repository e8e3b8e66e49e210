SPECIFICATION Spec
CONSTANTS
    n1 = n1
    n2 = n2
    g1 = g1
    g2 = g2
    g3 = g3
    j1 = j1
    j2 = j2
    Names <- OneName
    Guids <- TwoGuids
    Jobs <- OneJob
    Scanner = Scanner
    NoGuid = NoGuid
    NoRecord = NoRecord
    NoApp = NoApp
    NoName = NoName
    Faults <- OperatorAndLateErrors
SYMMETRY GuidSymmetry
INVARIANT ReadyIsMember
PROPERTY GuidStable
PROPERTY OthersKept
PROPERTY DeletionSticks
