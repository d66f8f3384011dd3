\* Two runs and two Deployments that must be claimed and end, one fault.
SPECIFICATION FairSystem
CONSTANTS
    Service = {}
    Volume = {}
    Value = {1}
    Absent = Absent
    Mounts = {}
    Intents <- MCIntents
    Runner = {r1, r2}
    NoRunner = NoRunner
    StorageOf <- MCStorageOf
    NoStorage = NoStorage
    Lease = 1
    MaxDeployments = 2
    MaxTime = 0
    Tries = 1
    MaxFaults = 1
CHECK_DEADLOCK FALSE
PROPERTIES
    Settles
