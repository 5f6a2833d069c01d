SPECIFICATION RunnerFairSpec
CONSTANTS
    single = single
    abort = abort
    legacy = legacy
    NoOp = NoOp
    Ops = {abort, legacy}
    Sequence = {abort, legacy}
    AbortOnError = {abort}
    Length <- ChainLengths
INVARIANTS
    RunningIsTrue
    AbortHalts
PROPERTIES
    UncrossedAnswered
    ReplacedChainStops
\* The operation ids are used up and every child has closed.
CHECK_DEADLOCK FALSE
