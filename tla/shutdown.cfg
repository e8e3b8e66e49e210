SPECIFICATION FairSpec
CONSTANTS
    main0 = main0
    other = other
    g1 = g1
    g2 = g2
    q1 = q1
    q2 = q2
    Callers <- TwoCallers
    Generations <- TwoGenerations
    NoGeneration = NoGeneration
    Free = Free
    Requests <- TwoRequests
    Main <- main0
INVARIANT OneGeneration
INVARIANT Quiet
PROPERTY StopMeansStopped
PROPERTY StartServes
PROPERTY ShutdownEnds
CHECK_DEADLOCK FALSE
