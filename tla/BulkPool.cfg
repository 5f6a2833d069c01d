SPECIFICATION FairSpec
CONSTANTS
    r1 = r1
    r2 = r2
    Runs = {r1}
    Ripple = {}
    NumSteps = 3
    NumActions = 2
    OpKind <- FlatOps
    Concurrency = 2
INVARIANTS
    SettledMeansDone
PROPERTIES
    AutoRunEnds
    CancelledRunWindsDown
\* After a crash every run may be beyond reach and no run hash left to use.
CHECK_DEADLOCK FALSE
