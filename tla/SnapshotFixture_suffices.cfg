SPECIFICATION FixtureSpec
CONSTANTS
    vaultA = vaultA
    vaultB = vaultB
    mintA = mintA
    mintB = mintB
    user = user
    authority = authority
    userA = userA
    userB = userB
    authorityA = authorityA
    authorityB = authorityB
    swapProgram = swapProgram
    swap = swap
    swapAuthority = swapAuthority
    poolMint = poolMint
    poolFee = poolFee
    Clock = clock
    Placeholder = placeholder
    ProgramIds <- FxProgramIds
    Chains <- FxChains
    Token2022 = Token2022
    Jupiter = Jupiter
    SplToken = SplToken
    EventAuthority = EventAuthority
    None = None
    User = user
    Authority = authority
    Addresses <- FxAddresses
    Mints <- FxMints
    Keys <- FxKeys
    PoolState <- FxPoolState
    MaxU64 = 45
    CurveSwap <- FxCurveSwap
    Ata <- FxAta
    InAmount <- FxInAmount
    Attempts = 3
    PoolKeys <- FxPoolKeys
    Snapshots <- FxSnapshots
    Programs <- FxPrograms
    ProgramSwap <- FxProgramSwap
    Requests <- FxRequests
INVARIANTS
    SnapshotSuffices
