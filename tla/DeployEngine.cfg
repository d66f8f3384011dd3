SPECIFICATION FairSpec
CONSTANTS
    Machines <- MCMachines
    Services <- MCServices
    Revisions = {1, 2}
    MaxFaults = 1
    MaxDeploys = 2
    MaxCancels = 1
INVARIANTS TypeOK Converged KeepsOneOrTells OneHook OneWriterReplica 
PROPERTIES Ends
CHECK_DEADLOCK FALSE
