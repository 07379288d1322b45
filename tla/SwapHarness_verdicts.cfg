SPECIFICATION FairSpec
CONSTANTS
    vaultA = vaultA
    vaultB = vaultB
    mintA = mintA
    mintB = mintB
    user = user
    authority = authority
    userA = userA
    userB = userB
    authorityA = authorityA
    authorityB = authorityB
    poolKey = poolKey
    Token2022 = Token2022
    Jupiter = Jupiter
    SplToken = SplToken
    EventAuthority = EventAuthority
    None = None
    User = user
    Authority = authority
    Addresses <- MCAddresses
    Mints <- MCMints
    Keys <- MCKeys
    PoolState <- MCPoolState
    MaxU64 = 45
    CurveSwap <- MCCurveSwap
    Ata <- MCAta
    InAmount <- MCInAmount
    Attempts = 3
    PoolKeys <- MCPoolKeys
    Snapshots <- MCSnapshots
    Programs <- MCPrograms
    ProgramSwap <- MCProgramSwap
    Requests <- MCRequests
INVARIANTS
    TypeOK
    PassMeansAgreement
    LargestQuotable
    FailMeansDisagreement
    ExpectedErrorIsReal
PROPERTIES
    TestEnds
