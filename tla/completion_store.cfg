SPECIFICATION Spec
CONSTANTS
    r1 = r1  r2 = r2
    Requests <- AllRequests
    Explicit <- NamingRequests
    QueueSize = 1
INVARIANTS CausalOrder OnlyCountRetained
PROPERTY AnsweredReachTrajectory
CHECK_DEADLOCK FALSE
