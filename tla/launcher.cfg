SPECIFICATION FairSpec
CONSTANTS
    r1 = r1
    r2 = r2
    Requests <- TwoRequests
    NoRequest = NoRequest
    Troubles <- TroubleKinds
INVARIANT CollieHasJoined
INVARIANT PortHandedOver
INVARIANT TokenConsumed
PROPERTY AnswerIsTrue
PROPERTY NoSecondJoin
PROPERTY JoinedRuns
PROPERTY RequestsEnd
PROPERTY Enrols
CHECK_DEADLOCK FALSE
