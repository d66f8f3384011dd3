\* Takeover: two Deployments of one Service, two runners, leases renewed and lapsed.
SPECIFICATION Spec
CONSTANTS
    web = web
    db = db
    data = data
    r1 = r1
    r2 = r2
    Service = {web}
    Volume = {}
    Value = {1, 2}
    Absent = Absent
    Mounts = {}
    Intents <- MCWebIntents
    Runner = {r1, r2}
    NoRunner = NoRunner
    StorageOf <- MCStorageOf
    NoStorage = NoStorage
    Lease = 2
    MaxDeployments = 2
    MaxTime = 3
SYMMETRY MCSymmetry
CHECK_DEADLOCK FALSE
INVARIANTS
    NewestRuns
PROPERTIES
    EndIsFinal
    AppliedForward
    ImplementsLedger
