SPECIFICATION WizardSpec
CONSTANTS
    r1 = r1
    r2 = r2
    Runs = {r1}
    Ripple = {}
    NumSteps = 2
    NumActions = 1
    OpKind <- TwoPublishes
    Concurrency = 1
    NoRun = NoRun
    Outcomes = {"Complete"}
    MaxCalls = 2
    MaxFrames = 2
    MaxLosses = 1
INVARIANTS
    PublishWasClicked
    GateOnScreen
    ScreenMirrorsRun

    
\* The one run may have ended, or be lost with the manager that ran it.
CHECK_DEADLOCK FALSE
