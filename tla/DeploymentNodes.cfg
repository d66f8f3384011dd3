\* Node Outcomes and Applied State: two Deployments over two Services and a Volume.
SPECIFICATION Spec
CONSTANTS
    web = web
    db = db
    data = data
    r1 = r1
    r2 = r2
    Service = {web, db}
    Volume = {data}
    Value = {1, 2}
    Absent = Absent
    Mounts <- MCMounts
    Intents <- MCIntents
    Runner = {r1}
    NoRunner = NoRunner
    StorageOf <- MCStorageOf
    NoStorage = NoStorage
    Lease = 1
    MaxDeployments = 2
    MaxTime = 0
CHECK_DEADLOCK FALSE
INVARIANTS
    TypeOK
    AppliedHasEvidence
    ConfirmedIsApplied
PROPERTIES
    AppliedShipsAll
