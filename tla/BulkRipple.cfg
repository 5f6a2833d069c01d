SPECIFICATION Spec
CONSTANTS
    r1 = r1
    r2 = r2
    Runs = {r1}
    Ripple = {r1}
    NumSteps = 3
    NumActions = 2
    OpKind <- RippleOps
    Concurrency = 1
INVARIANTS
    CascadeOrder
    OnlyConfirmedPublishes
PROPERTIES
    CompletedStaysCompleted
\* After a crash every run may be beyond reach and no run hash left to use.
CHECK_DEADLOCK FALSE
