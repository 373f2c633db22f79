SPECIFICATION MCSpec
CONSTANTS
    Managers = {"a"}
    Platforms = {"sudo", "helper"}
    MaxPid = 2
    MaxInst = 2
    MaxAttempts = 2
    MaxFaults = 1
    Members = {1, 2, 3}
    MemberFacts <- MCFacts
    Nobody = Nobody
    Nodes = {"n1"}
    Criteria = {"c1"}
    Interval = 2
    MaxRuns = 2
    MaxGen = 2
    MaxTime = 3
    MaxMishaps = 1
    MaxWorkers = 2
    MaxEpoch = 2
    MaxStatus = 1
    MaxLosses = 1
    Probed = {"n1", "n2"}
    Targets = {"t1", "t2"}
    Limit = 1
    Expected = 2
    MaxJobs = 2
    MaxFacts = 1
    MaxChanges = 1
    Total = 3
    Files = {1, 2, 3, 4}
    ManifestIds = {"a", "b"}
    Builtins = {"a"}
    MaxManifests = 2
    MaxScanned = 3
INVARIANTS
    OwnProcessesOnly OneWorkerFollowed VerdictsEarned CatalogFromFiles IsolatedExactly SustainedSound ScanFindsBest
PROPERTIES
    RunsSound
CHECK_DEADLOCK FALSE
