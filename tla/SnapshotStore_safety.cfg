SPECIFICATION Spec
CONSTANTS
    pool = pool
    vault = vault
    clock = clock
    program = program
    authority = authority
    p1 = p1
    p2 = p2
    Addresses <- MCAddresses
    Kind <- MCKind
    Procs <- TwoProcs
    Fixtures = TRUE
    MaxSlot = 1
SYMMETRY Symmetry
INVARIANTS
    TypeOK
    SingleSlot
PROPERTIES
    ForceUnblocks
    OkMeansComplete
    OnlyForceDestroys
    RefinesSnapshotFolder
