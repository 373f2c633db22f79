SPECIFICATION MCSpec
CONSTANTS
    Profiles = {"office"}
    Kinds = {"sonicwall", "hillstone-tun", "hillstone-bridge"}
    MaxPid = 2
    MaxCommands = 2
    QueueCapacity = 2
    ReconnectBudget = 1
    MaxDialogs = 2
    MaxFaults = 1
    Rules = {"os", "custom"}
    Supported = {"os"}
    MaxTokens = 2
    MaxSessions = 2
    MaxReplies = 1
    Budget = 2
    MaxFrames = 3
    MaxErrors = 2
    Mod = 16
    Window = 6
    Isns = {2, 14}
    Length = 4
    Ports = 3
    MaxRequests = 2
    NumNames = 2
    MaxHelpers = 2
    MaxSession = 3
    Queue = 1
    MaxEdits = 1
    MaxMishaps = 1
INVARIANTS
    SessionsSound BridgeExact VpnSessionSound ConfigurationExact LogonSound
PROPERTIES
    HelperSound
CHECK_DEADLOCK FALSE
