SPECIFICATION Spec
CONSTANTS
    Lineages = {"web"}
    Keys = {"K"}
    Owned = {}
    Values = {0, 1, 2}
    Refers = {}
    Environments = {1, 2}
    Parent <- MCParent
    Inputs <- MCParentOnly
    Marking = {}
    Secrets <- MCSecrets
    First <- MCFirst
    Refusing = {}
    MaxEdits = 1
    MaxSyncs = 0
    MaxDeploys = 1
PROPERTIES FollowsChanges
CHECK_DEADLOCK FALSE
