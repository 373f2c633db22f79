SPECIFICATION MCSpec
CONSTANTS
    Selectors = {g1}
    Nodes = {1, 2}
    Policy = "balanced"
    FactChoices <- MCReachable
    Panels <- FirstOrAll
    Settings = {s1, s2}
    Conns = {c1}
    NoNode = NoNode
    NoScope = NoScope
    NoJob = NoJob
    NoFetch = NoFetch
    Window = 2
    StaleAfter = 1
    Threshold = 1
    MaxRound = 2
    MaxRev = 1
    MaxBytes = 2
INVARIANT IdleMeansQuiet
PROPERTY NoSwitchDuringTransfer
SYMMETRY SettingSymmetry
