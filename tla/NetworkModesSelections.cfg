SPECIFICATION Spec
CONSTANTS
    Baseline = FALSE
    Crashes = FALSE
    RacingEdits = FALSE
    MaxFaults = 0
    MaxEdits = 0
    NoRestore = NoRestore
    NoJob = NoJob
INVARIANT SelectionsSurvive
