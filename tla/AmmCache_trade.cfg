SPECIFICATION Spec
CONSTANTS
    vaultA = vaultA
    vaultB = vaultB
    mintA = mintA
    mintB = mintB
    mintX = mintX
    amm1 = amm1
    amm2 = amm2
    Addresses <- MCAddresses
    Mints <- MCMints
    PoolState <- MCPoolState
    MaxU64 = 15
    CurveSwap <- MCCurveSwap
    Amms <- OneAmm
    KeyedAccounts <- MCKeyedAccounts
    ChainStates <- MCChainStates
    TradeAmounts = {4, 15}
    MaxSlot = 3
INVARIANTS
    QuoteMatchesSimulation
    NoPhantomLiquidity
    QuoteFailsOnlyWithCurve
