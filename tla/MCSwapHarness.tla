------------------------------ MODULE MCSwapHarness ------------------------------
(***************************************************************************)
(* A pool whose curve refuses to take more than the source reserve holds.  *)
(* Its program has the same curve, or one that pays one token less, or     *)
(* refuses every swap.                                                     *)
(***************************************************************************)
EXTENDS SwapHarness, TLC

CONSTANTS
    vaultA, vaultB, mintA, mintB, user, authority,
    userA, userB, authorityA, authorityB, poolKey

MCAddresses == {vaultA, vaultB}
MCMints == {mintA, mintB}
MCKeys == {vaultA, vaultB, mintA, mintB, user, authority, userA, userB,
           authorityA, authorityB, poolKey, Token2022}

MCPoolState == [token_a |-> vaultA, token_b |-> vaultB,
                token_a_mint |-> mintA, token_b_mint |-> mintB]

MCAta ==
    (user :> (mintA :> userA @@ mintB :> userB))
        @@ (authority :> (mintA :> authorityA @@ mintB :> authorityB))

MCInAmount == (mintA :> 8) @@ (mintB :> 6)

MCPoolKeys == [role \in {"token_swap_program", "swap", "authority", "pool_mint", "pool_fee"} |->
                  poolKey]

(* x * y = k, rounded in the pool's favour; a swap that pays nothing is refused. *)
MCCurveSwap(x, source, destination, direction) ==
    LET kept == IF source + x = 0 THEN 0
                ELSE (source * destination + source + x - 1) \div (source + x)
    IN  IF destination > kept /\ x <= source
        THEN [some |-> TRUE, source_amount_swapped |-> x,
              destination_amount_swapped |-> destination - kept,
              trade_fee |-> 0, owner_fee |-> 0]
        ELSE NoCurveResult

MCPrograms == {"same", "meaner", "halted"}

MCProgramSwap(pool_program, x, source, destination, direction) ==
    LET r == MCCurveSwap(x, source, destination, direction) IN
        CASE pool_program = "same" -> r
          [] pool_program = "meaner" /\ r.some ->
                 [r EXCEPT !.destination_amount_swapped = @ - 1]
          [] OTHER -> NoCurveResult

Token(n) == [token |-> TRUE, amount |-> n]
NotToken == [token |-> FALSE, amount |-> 0]

Pool(a, b) == vaultA :> Token(a) @@ vaultB :> Token(b)

(* Healthy pools; one that can take a swap of mint A only after a halving; *)
(* an empty one; one whose vault is full; broken snapshots, one without    *)
(* the pool and one without a mint.                                        *)
MCSnapshots ==
    [accounts : {Pool(20, 30), Pool(3, 4), Pool(40, 2), Pool(0, 0), Pool(45, 45),
                 vaultA :> Token(7), vaultA :> Token(7) @@ vaultB :> NotToken},
     rest : {{poolKey, mintA, mintB}, {poolKey, mintB}, {mintA, mintB}}]

MCRequests ==
    [swap_mode : SwapModes, use_shared_accounts : BOOLEAN, tolerance : {0, 1},
     expected_error : {None, QuoteFailed, "other"}]

================================================================================
