SPECIFICATION Spec
CONSTANTS
    r1 = r1
    r2 = r2
    Runs = {r1, r2}
    Ripple = {r1}
    NumSteps = 2
    NumActions = 1
    OpKind <- TaskOps
    Concurrency = 2
PROPERTIES
    ImplementsBulkRun
\* After a crash every run may be beyond reach and no run hash left to use.
CHECK_DEADLOCK FALSE
