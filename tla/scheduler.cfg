SPECIFICATION FairSpec
CONSTANTS
    Nodes = {n1}
    Limit = 2
    MaxSessions = 7
INVARIANT AdmissionBounded
PROPERTIES IdleGatewayIsUsed DrainCompletes
