SPECIFICATION FairSpec
CONSTANTS
    examples = examples
    docs = docs
    NoPort = NoPort
    NoStart = NoStart
    Keys = {examples, docs}
    Starts = {1, 2, 3}
    Key <- StartsOf
    NumPre <- TwoSteps
    Port <- PortOf
INVARIANTS
    NeverOrphaned
    StatusTrue
PROPERTIES
    StartAnswered
    StoppedStaysStopped
\* The start ids are used up, or the manager has ended.
CHECK_DEADLOCK FALSE
