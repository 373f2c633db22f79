SPECIFICATION RoundsSpec
CONSTANTS
    Selectors = {g1, g2}
    Nodes = {1, 2}
    Policy = "balanced"
    FactChoices <- MCFacts
    Panels <- AllNodes
    Settings = {s1}
    Conns = {}
    NoNode = NoNode
    NoScope = NoScope
    NoJob = NoJob
    NoFetch = NoFetch
    Window = 1
    StaleAfter = 0
    Threshold = 1
    MaxRound = 2
    MaxRev = 0
    MaxBytes = 0
PROPERTIES ConfirmedTwice OnlyConfiguredSelector
