SPECIFICATION Spec
CONSTANTS
    actor = actor  critic = critic
    Actor = actor
    Groups <- BothGroups
    MaxStep = 3
    MaxMetric = 1
    MaxRuns = 2
    SaveSteps = {0, 1}
    MaxNums = {2}
INVARIANT Retention
PROPERTIES ResumesTheLastSave ImplementsAtomic
CHECK_DEADLOCK FALSE
