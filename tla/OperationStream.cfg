SPECIFICATION Spec
CONSTANTS
    Ops = {1, 2, 4}
    Mine = {1, 2}
    Theirs = {4}
    Sequence = {4}
    AbortOnError = {}
    Length <- Commands
    NoOp = 0
    HistoryCap = 2
    MaxFaults = 1
INVARIANTS
    NeverStuck
    OneAtATime
PROPERTIES
    QueueDrains
CHECK_DEADLOCK FALSE
