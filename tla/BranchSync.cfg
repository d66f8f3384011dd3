SPECIFICATION Spec
CONSTANTS
    Lineages = {"web", "db"}
    Keys = {"K", "S", "replicas"}
    Owned = {"replicas"}
    Values = {0, 1, 2, 3}
    Refers <- MCRefers
    Environments = {1, 2}
    Parent <- MCParent
    Inputs <- MCInputs
    Marking <- MCMarking
    Secrets <- MCSecrets
    First <- MCFirst
    Refusing = {2}
    MaxEdits = 2
    MaxSyncs = 1
    MaxDeploys = 2
INVARIANTS TypeOK SecretsStay
PROPERTIES OfferedAgain NeverSynced  
CHECK_DEADLOCK FALSE
