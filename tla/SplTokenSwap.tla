------------------------------ MODULE SplTokenSwap ------------------------------
(***************************************************************************)
(* The adapter of an SPL token-swap pool, `SplTokenSwapAmm`, as operators  *)
(* on the value of one instance.  The state machines that own instances    *)
(* build on this module.                                                   *)
(*                                                                         *)
(* The curve and its fees belong to the spl-token-swap crate.  The adapter *)
(* hands them an amount, the two reserves and a direction and gets a swap  *)
(* result or nothing, so the curve is a parameter: what is shown here      *)
(* holds for every curve within CurveAssumption.                           *)
(***************************************************************************)
EXTENDS Integers

CONSTANTS
    Addresses,              \* account addresses the chain may hold
    Mints,                  \* every mint a caller may name
    PoolState,              \* the SwapV1 state stored in the pool account
    MaxU64,                 \* u64::MAX
    CurveSwap(_, _, _, _)   \* SwapCurve::swap with the pool's own fees

U64 == 0 .. MaxU64

Directions == {"AtoB", "BtoA"}

SwapV1 == [token_a : Addresses, token_b : Addresses,
           token_a_mint : Mints, token_b_mint : Mints]

(* A curve answers with the amounts it moves, or with nothing. *)
CurveResults ==
    [some : BOOLEAN, source_amount_swapped : Nat,
     destination_amount_swapped : Nat, trade_fee : Nat, owner_fee : Nat]

NoCurveResult ==
    [some |-> FALSE, source_amount_swapped |-> 0,
     destination_amount_swapped |-> 0, trade_fee |-> 0, owner_fee |-> 0]

ASSUME PoolAssumption ==
    /\ MaxU64 \in Nat
    /\ PoolState \in SwapV1
    /\ PoolState.token_a # PoolState.token_b

(* A swap takes at most the offered amount, its fees come out of that      *)
(* amount, and it cannot pay out more than the destination reserve.        *)
ASSUME CurveAssumption ==
    \A amount, source, destination \in U64, direction \in Directions :
        LET r == CurveSwap(amount, source, destination, direction) IN
            /\ r \in CurveResults
            /\ r.some => /\ r.source_amount_swapped <= amount
                         /\ r.trade_fee + r.owner_fee <= amount
                         /\ r.destination_amount_swapped <= destination

--------------------------------------------------------------------------------
(* Accounts.  A fetched account either unpacks as a token account, and has *)
(* an amount, or does not; an account that does not exist is not in the    *)
(* map at all.                                                             *)

VaultAccount == [token : BOOLEAN, amount : U64]

AccountMap == UNION {[S -> VaultAccount] : S \in SUBSET Addresses}

IsTokenAccount(account_map, address) ==
    address \in DOMAIN account_map /\ account_map[address].token

--------------------------------------------------------------------------------
(* Instances.                                                              *)

SplTokenSwapAmm ==
    [state : SwapV1, reserve_mints : Mints \X Mints, reserves : U64 \X U64]

(* Construction from the pool account; reserves start at zero. *)
from_keyed_account ==
    [state |-> PoolState,
     reserve_mints |-> <<PoolState.token_a_mint, PoolState.token_b_mint>>,
     reserves |-> <<0, 0>>]

(* The hand-written Clone: every field, the reserves included. *)
clone_amm(amm) ==
    [state |-> amm.state, reserve_mints |-> amm.reserve_mints,
     reserves |-> amm.reserves]

get_accounts_to_update(amm) == {amm.state.token_a, amm.state.token_b}

(* `update` returns at the first vault that is missing or does not unpack; *)
(* only when both were read does it assign the reserves.                   *)
CanUpdate(amm, account_map) ==
    /\ IsTokenAccount(account_map, amm.state.token_a)
    /\ IsTokenAccount(account_map, amm.state.token_b)

(* Mutant: each reserve is assigned as soon as its vault was read. *)
update_OneByOne(amm, account_map) ==
    IF IsTokenAccount(account_map, amm.state.token_a)
    THEN [amm EXCEPT !.reserves =
            <<account_map[amm.state.token_a].amount,
              IF IsTokenAccount(account_map, amm.state.token_b)
              THEN account_map[amm.state.token_b].amount ELSE amm.reserves[2]>>]
    ELSE amm

update(amm, account_map) ==
    IF CanUpdate(amm, account_map)
    THEN [amm EXCEPT !.reserves = <<account_map[amm.state.token_a].amount,
                                    account_map[amm.state.token_b].amount>>]
    ELSE amm

--------------------------------------------------------------------------------
(* Quoting.  The direction depends on the input mint alone: every mint but *)
(* the first reserve mint is priced from B to A.                           *)

Quotes == [ok : BOOLEAN, in_amount : U64, out_amount : U64, fee_amount : U64]

NoQuote == [ok |-> FALSE, in_amount |-> 0, out_amount |-> 0, fee_amount |-> 0]

(* `fee_pct` is left out: it depends on the pool's fees alone, and its      *)
(* decimal quotient of two u64 and its sum of two such always exist.       *)
get_swap_curve_result(amount, source, destination, direction) ==
    LET r == CurveSwap(amount, source, destination, direction) IN
        [some |-> r.some, input_amount |-> r.source_amount_swapped,
         expected_output_amount |-> r.destination_amount_swapped,
         fees |-> r.trade_fee + r.owner_fee]

(* Mutant: the conversions refuse u64::MAX itself. *)
IntoQuote_Strict(result) ==
    IF /\ result.some
       /\ result.input_amount < MaxU64
       /\ result.expected_output_amount < MaxU64
       /\ result.fees < MaxU64
    THEN [ok |-> TRUE, in_amount |-> result.input_amount,
          out_amount |-> result.expected_output_amount,
          fee_amount |-> result.fees]
    ELSE NoQuote

(* The three u128 to u64 conversions fail rather than truncate. *)
IntoQuote(result) ==
    IF /\ result.some
       /\ result.input_amount <= MaxU64
       /\ result.expected_output_amount <= MaxU64
       /\ result.fees <= MaxU64
    THEN [ok |-> TRUE, in_amount |-> result.input_amount,
          out_amount |-> result.expected_output_amount,
          fee_amount |-> result.fees]
    ELSE NoQuote

(* Mutant: the direction is chosen, the reserves are not exchanged. *)
quote_SameReserves(amm, input_mint, amount) ==
    IntoQuote(get_swap_curve_result(amount, amm.reserves[1], amm.reserves[2],
        IF input_mint = amm.reserve_mints[1] THEN "AtoB" ELSE "BtoA"))

quote(amm, input_mint, amount) ==
    IntoQuote(
        IF input_mint = amm.reserve_mints[1]
        THEN get_swap_curve_result(amount, amm.reserves[1], amm.reserves[2], "AtoB")
        ELSE get_swap_curve_result(amount, amm.reserves[2], amm.reserves[1], "BtoA"))

(* Mutants: the vaults are exchanged; the mints are named for the vaults. *)
metas_Exchanged(amm, source_mint) ==
    IF source_mint = amm.state.token_a_mint
    THEN [swap_source |-> amm.state.token_b, swap_destination |-> amm.state.token_a]
    ELSE [swap_source |-> amm.state.token_a, swap_destination |-> amm.state.token_b]

metas_Mints(amm, source_mint) ==
    IF source_mint = amm.state.token_a_mint
    THEN [swap_source |-> amm.state.token_a_mint, swap_destination |-> amm.state.token_b_mint]
    ELSE [swap_source |-> amm.state.token_b_mint, swap_destination |-> amm.state.token_a_mint]

(* The vaults named in the swap instruction's account list. *)
get_swap_and_account_metas(amm, source_mint) ==
    IF source_mint = amm.state.token_a_mint
    THEN [swap_source |-> amm.state.token_a, swap_destination |-> amm.state.token_b]
    ELSE [swap_source |-> amm.state.token_b, swap_destination |-> amm.state.token_a]

================================================================================
