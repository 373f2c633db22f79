CONSTANTS
    n1 = n1
    bridge = bridge
    f1 = f1
    f2 = f2
    b1 = b1
    Tags <- MCTags
    Fingerprints <- MCFingerprints
    NoFingerprint = NoFingerprint
    BridgeTag = bridge
    RouteTables = {}
    Payloads <- MCPayloads
    NoConfig = NoConfig
    Procs = {tui, worker, refresh}
    Managers = {tui}
    Workers = {worker}
    Committers = {refresh}
    Nobody = Nobody
    MaxGen = 2
    MaxPid = 2
SPECIFICATION Spec
INVARIANTS
    FactsAttributable
    SessionRuntimeAgree
PROPERTIES
    LeaseFreezesIdentities
