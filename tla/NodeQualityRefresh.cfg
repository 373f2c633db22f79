CONSTANTS
    n1 = n1
    bridge = bridge
    f1 = f1
    f2 = f2
    b1 = b1
    Tags <- MCTags
    Fingerprints <- MCFingerprints
    NoFingerprint = NoFingerprint
    BridgeTag = bridge
    RouteTables = {b1}
    Payloads <- MCPayloads
    NoConfig = NoConfig
    Procs = {tui, refresh}
    Managers = {tui}
    Workers = {}
    Committers = {refresh}
    Nobody = Nobody
    MaxGen = 2
    MaxPid = 1
SPECIFICATION FairSpec
INVARIANTS
    TypeOK
    SessionConfigAgree
PROPERTIES
    ImplementsNodeFacts
    OperationsEnd
