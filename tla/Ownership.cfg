\* Two attempts of any kind on two slots, with crashes and unconfirmed ends.
SPECIFICATION FairSpec
CONSTANTS
    Attempt = {a1, a2}
    Slots = 2
    Kind <- MCAllKinds
    None = None
INVARIANTS
    TypeOK
    NoConflict
    ContainerMarked
PROPERTIES
    FilesKept
    GivenUp
CHECK_DEADLOCK FALSE
