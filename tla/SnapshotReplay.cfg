SPECIFICATION ReplaySpec
CONSTANTS
    pool = pool
    vault = vault
    clock = clock
    program = program
    p1 = p1
    p2 = p2
    Addresses <- MCAddresses
    Kind <- MCKind
    Procs <- OneProc
    Fixtures = TRUE
    MaxSlot = 1
    Pool = pool
    Clock = clock
    Vaults <- MCVaults
    Pairs = 2
INVARIANTS
    ReplayTypeOK
    ReplayReadsTheSnapshot
    ReplayIsOneMoment
