SPECIFICATION Spec
CONSTANTS
    e1 = e1  e2 = e2  g1 = g1  g2 = g2  r1 = r1  r2 = r2
    Engines <- TwoEngines
    Gateways <- TwoGateways
    Requests <- TwoRequests
    Home <- OneEach
    StateDict <- SmallModel
    Threshold = 5
    MaxVersion = 2
    MaxFailures = 1
INVARIANT RefitLeavesAllRunning
PROPERTIES NoMixedWeights RefitEnds
CHECK_DEADLOCK FALSE
