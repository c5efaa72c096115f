\* Every command line; the job is killed once at any moment.  An episode is one full
\* batch and an incomplete one, and the updates end before or after the data.
SPECIFICATION FairSpec
CONSTANTS
    Modes <- AllModes
    DataLen = 3
    Episodes = 2
    Batch = 2
    Capacity = 3
    MaxSteps = 3
    EvalSteps = 1
    EvalAtStart = TRUE
    SaveSteps = 2
    WarmResume = TRUE
    MaxCrashes = 1
INVARIANTS OncePerPass StalenessBounded CheckpointsSound
PROPERTY TrainingEnds
\* The run ends.
CHECK_DEADLOCK FALSE
