SPECIFICATION MCSpec
CONSTANTS
    MaxRuntimeId = 2
    MaxRequests = 3
    MaxRuntimes = 1
    NodeCount = 2
    MaxDeaths = 1
    Sources = {"s1"}
    MaxVersion = 2
    MaxRuns = 2
    MaxFaults = 2
    Nodes = {"n1"}
    Channel = 1
    MaxLines = 3
    Escapes = TRUE
INVARIANTS
    OutcomeIsEarned RuntimesSound RefreshSound
PROPERTIES
    ProbeEnds SessionEnds CommitGetsLoaded
CHECK_DEADLOCK FALSE
