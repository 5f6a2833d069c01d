SPECIFICATION Spec
CONSTANTS
    Modules = {1, 2, 3}
    Outside = {9}
    Ecosystem = {1, 2, 3, 9}
    Ranges = {"caret", "file"}
    LocalRanges = {"file"}
    Requests <- RippleRequests
    FlatRequests <- FlatTargets
    MaxDeclared = 3
INVARIANTS
    ConeExact
    ProducersFirst
    LeftoverExact
    CyclesExact
    PublishRefreshed
\* A plan is the end of a behaviour.
CHECK_DEADLOCK FALSE
