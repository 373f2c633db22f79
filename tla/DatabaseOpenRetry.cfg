SPECIFICATION DbSpec
CONSTANTS
    Openers = {p1, p2}
    Facts = {f1, f2}
    MaxCrashes = 1
    MaxAlterations = 1
INVARIANT ResetCanBeRetried
CHECK_DEADLOCK FALSE
