SPECIFICATION MCSpec
CONSTANTS
    Baseline = TRUE
    Crashes = TRUE
    RacingEdits = FALSE
    MaxFaults = 1
    MaxEdits = 1
    Services = 2
    Servers = {"s1", "s2"}
    MaxFailures = 1
    MaxChanges = 1
    Openers = {"p1", "p2"}
    Facts = {"f1", "f2"}
    MaxCrashes = 1
    MaxAlterations = 1
    NoRestore = NoRestore
    NoJob = NoJob
INVARIANTS
    TypeOK ModeAgrees QuitKeepsModes ConfigEditsSound
PROPERTIES
    DisableRestores NoDanglingProxy SettingsFollowIntent OthersKept DatabaseSafe
CHECK_DEADLOCK FALSE
