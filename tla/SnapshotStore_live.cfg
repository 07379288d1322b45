SPECIFICATION FairSpec
CONSTANTS
    pool = pool
    vault = vault
    clock = clock
    program = program
    authority = authority
    p1 = p1
    p2 = p2
    Addresses <- MCAddresses
    Kind <- MCKind
    Procs <- OneProc
    Fixtures = TRUE
    MaxSlot = 2
PROPERTIES
    ForcedRunReplaces
