\* Two sessions against one worker of each kind and one slot; cancel() and stop() at any
\* moment, and runtime.cancel() may fail.
CONSTANTS
    Sessions = {s1, s2}
    InitWorkers = {i1}
    RunWorkers = {r1}
    PostWorkers = {p1}
    CancelMayRaise = TRUE
    StopAllowed = TRUE
SPECIFICATION FairSpec
INVARIANTS CallbackExclusion StagesOnce SlotsBalanced SnapshotFaithful
PROPERTIES ImplementsLifecycle EverySessionLeaves
\* The system stops once every session has left and no new one is submitted.
CHECK_DEADLOCK FALSE
