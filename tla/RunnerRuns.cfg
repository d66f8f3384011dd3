\* One Deployment, two runs with a retry each, a lapse and three faults.
SPECIFICATION System
CONSTANTS
    Service = {}
    Volume = {}
    Value = {1}
    Absent = Absent
    Mounts = {}
    Intents <- MCIntents
    Runner = {r1, r2}
    NoRunner = NoRunner
    StorageOf <- MCStorageOf
    NoStorage = NoStorage
    Lease = 1
    MaxDeployments = 1
    MaxTime = 1
    Tries = 2
    MaxFaults = 3
SYMMETRY MCSymmetry
CHECK_DEADLOCK FALSE
INVARIANTS
    RunnerTypeOK
    ExecutedOnce
    NotExecutedIsTrue
    RunningForSomebody
