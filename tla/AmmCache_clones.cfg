SPECIFICATION Spec
CONSTANTS
    vaultA = vaultA
    vaultB = vaultB
    mintA = mintA
    mintB = mintB
    mintX = mintX
    amm1 = amm1
    amm2 = amm2
    Addresses <- MCAddresses
    Mints <- PoolMints
    PoolState <- MCPoolState
    MaxU64 = 15
    CurveSwap <- MCCurveSwap
    Amms <- TwoAmms
    KeyedAccounts <- MCKeyedAccounts
    ChainStates <- MCChainStates
    TradeAmounts = {4}
    MaxSlot = 1
INVARIANTS
    TypeOK
    ReservesFromOneSlot
PROPERTIES
    RefinesPoolView
