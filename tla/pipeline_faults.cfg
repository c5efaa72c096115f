\* Any fault, any number of times, but one restart of each gateway.  Sessions share
\* nothing in this module, so one of them is enough; two gateways make a retry differ.
CONSTANTS
    Sessions = {s1}
    Nodes = {n1, n2}
    Faults <- EveryFault
SPECIFICATION FairSpec
INVARIANTS OneGatewayPerSession TimeoutMeansLost
PROPERTY EverySessionResolves
\* A session that has returned is never taken up again.
CHECK_DEADLOCK FALSE
