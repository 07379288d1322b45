------------------------------- MODULE MCAmmCache -------------------------------
(***************************************************************************)
(* A small pool for TLC: two vaults, a third mint the pool does not serve, *)
(* and a constant-product curve with a trading fee.                        *)
(***************************************************************************)
EXTENDS AmmCache, TLC

CONSTANTS vaultA, vaultB, mintA, mintB, mintX, amm1, amm2

MCAddresses == {vaultA, vaultB}
MCMints == {mintA, mintB, mintX}
PoolMints == {mintA, mintB}
OneAmm == {amm1}
TwoAmms == {amm1, amm2}

MCPoolState == [token_a |-> vaultA, token_b |-> vaultB,
                token_a_mint |-> mintA, token_b_mint |-> mintB]

CeilDiv(a, b) == (a + b - 1) \div b

(* x * y = k, rounded in the pool's favour, with a fee of one quarter of   *)
(* the input and at least one token; a swap that pays nothing is refused.  *)
MCCurveSwap(amount, source, destination, direction) ==
    LET fee == IF amount = 0 THEN 0 ELSE IF amount < 4 THEN 1 ELSE amount \div 4
        kept == IF source + amount - fee = 0 THEN 0
                ELSE CeilDiv(source * destination, source + amount - fee)
    IN  IF destination > kept
        THEN [some |-> TRUE, source_amount_swapped |-> amount,
              destination_amount_swapped |-> destination - kept,
              trade_fee |-> fee, owner_fee |-> 0]
        ELSE [some |-> FALSE, source_amount_swapped |-> 0,
              destination_amount_swapped |-> 0, trade_fee |-> 0, owner_fee |-> 0]

Token(n) == [token |-> TRUE, amount |-> n]
NotToken == [token |-> FALSE, amount |-> 0]

Pool(a, b) == vaultA :> Token(a) @@ vaultB :> Token(b)

(* Two healthy pools, one whose vaults are exchanged, one with a vault     *)
(* missing and one with a vault that does not unpack.                      *)
MCChainStates ==
    {Pool(5, 9), Pool(9, 5), vaultA :> Token(7), vaultA :> Token(7) @@ vaultB :> NotToken}

MCKeyedAccounts ==
    {[supported_owner |-> TRUE, unpacks |-> TRUE],
     [supported_owner |-> FALSE, unpacks |-> TRUE],
     [supported_owner |-> TRUE, unpacks |-> FALSE]}

================================================================================
