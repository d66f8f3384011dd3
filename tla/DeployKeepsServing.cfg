SPECIFICATION Spec
CONSTANTS
    Machines <- MCMachines
    Services <- MCPlain
    Revisions = {1, 2}
    MaxFaults = 1
    MaxDeploys = 2
    MaxCancels = 1
CHECK_DEADLOCK FALSE
INVARIANTS KeepsServing
