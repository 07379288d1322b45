------------------------------ MODULE MCSwapFixture ------------------------------
(***************************************************************************)
(* Snapshots of chains on which an account of the pool is missing, a mint  *)
(* is missing, or a vault is none, and their tests.  The authority of the  *)
(* pool is an address without an account.                                  *)
(***************************************************************************)
EXTENDS SnapshotFixture, TLC

CONSTANTS
    vaultA, vaultB, mintA, mintB, user, authority,
    userA, userB, authorityA, authorityB,
    swapProgram, swap, swapAuthority, poolMint, poolFee

FxAddresses == {vaultA, vaultB}
FxMints == {mintA, mintB}
FxKeys == {vaultA, vaultB, mintA, mintB, user, authority, userA, userB, authorityA,
           authorityB, swapProgram, swap, swapAuthority, poolMint, poolFee, Token2022}

FxPoolState == [token_a |-> vaultA, token_b |-> vaultB,
                token_a_mint |-> mintA, token_b_mint |-> mintB]

FxAta ==
    (user :> (mintA :> userA @@ mintB :> userB))
        @@ (authority :> (mintA :> authorityA @@ mintB :> authorityB))

FxInAmount == (mintA :> 8) @@ (mintB :> 6)

FxPoolKeys ==
    [token_swap_program |-> swapProgram, swap |-> swap, authority |-> swapAuthority,
     pool_mint |-> poolMint, pool_fee |-> poolFee]

FxProgramIds == {swapProgram, SplToken}

(* x * y = k, rounded in the pool's favour; a swap that pays nothing is refused. *)
FxCurveSwap(x, source, destination, direction) ==
    LET kept == IF source + x = 0 THEN 0
                ELSE (source * destination + source + x - 1) \div (source + x)
    IN  IF destination > kept
        THEN [some |-> TRUE, source_amount_swapped |-> x,
              destination_amount_swapped |-> destination - kept,
              trade_fee |-> 0, owner_fee |-> 0]
        ELSE NoCurveResult

FxPrograms == {"same", "meaner"}

FxProgramSwap(pool_program, x, source, destination, direction) ==
    LET r == FxCurveSwap(x, source, destination, direction) IN
        IF pool_program = "meaner" /\ r.some
        THEN [r EXCEPT !.destination_amount_swapped = @ - 1] ELSE r

Token(n) == [token |-> TRUE, amount |-> n]
NotToken == [token |-> FALSE, amount |-> 0]

Pool(a, b) == vaultA :> Token(a) @@ vaultB :> Token(b)

FxChains ==
    [accounts : {Pool(20, 30), Pool(30, 20), Pool(0, 0),
                 vaultA :> Token(7), vaultA :> Token(7) @@ vaultB :> NotToken},
     closed : {{swapAuthority} \cup more : more \in
                    {{}, {swap}, {poolMint}, {poolFee}, {mintA}, {mintB}}}]

(* With or without the mints: a harness that saved none is of the model too. *)
FxSnapshots ==
    [accounts : {Pool(20, 30), Pool(30, 20), Pool(0, 0)},
     rest : {{swap, poolMint, poolFee, mintA, mintB, Clock} \ unsaved : unsaved \in
                {{}, {poolMint}, {poolFee}, {mintA}, {mintB}, {mintA, mintB},
                 {poolMint, mintA, mintB}, {poolFee, mintA, mintB}}}]

FxRequests ==
    [swap_mode : SwapModes, use_shared_accounts : BOOLEAN, tolerance : {0, 1},
     expected_error : {None}]

================================================================================
