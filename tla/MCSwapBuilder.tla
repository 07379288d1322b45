------------------------------ MODULE MCSwapBuilder ------------------------------
(***************************************************************************)
(* One user, one pair of mints, and every combination of the flags and of  *)
(* the optional accounts.                                                  *)
(***************************************************************************)
EXTENDS SwapBuilder

CONSTANTS
    user, authority, authority7, authority8, user_source, user_destination, program_source,
    program_destination, token2022, mint_in, mint_out, ledger, fee, elsewhere, vault,
    limit, create, record, close

(* The ids on either side of the boundary have addresses of their own; the *)
(* others are not told apart.                                              *)
MCAuthority ==
    [id \in AuthorityIds |->
        IF id = 7 THEN authority7 ELSE IF id = 8 THEN authority8 ELSE authority]

(* The ranges of jupiter/src/lib.rs:164 and 168, and their boundary. *)
TestRanges == {<<0, 8>>, <<8, 16>>}

BoundaryRanges == {<<7, 8>>, <<8, 9>>}

MCKeys ==
    {user, authority, authority7, authority8, user_source, user_destination,
     program_source, program_destination, token2022, mint_in, mint_out, ledger,
     fee, elsewhere, vault}

MCAccountsRequests ==
    [use_shared_accounts : BOOLEAN, swap_mode : SwapModes, user : {user},
     program_authority : {authority7, authority8}, user_source_token_account : {user_source},
     source_token_account : {program_source},
     user_destination_token_account : {user_destination},
     destination_token_account : {program_destination},
     destination_token_program : {token2022},
     input_mint : {mint_in}, output_mint : {mint_out}, token_ledger : {ledger, None},
     platform_fee_account : {fee, None},
     optional_destination_token_account : {elsewhere, None},
     token2022_program : {token2022, None}]

MCDataRequests ==
    [use_shared_accounts : BOOLEAN, use_token_ledger : BOOLEAN,
     swap_mode : SwapModes, program_authority_id : AuthorityIds,
     amount : {1, 2}, quoted_amount : {0}]

MCAmmMetas == [i \in 1 .. 6 |-> [pubkey |-> vault, is_writable |-> TRUE]]

(* Instructions with and without preparations and cleanup; the one that    *)
(* records the ledger in its field, among the preparations, in both or in  *)
(* none.                                                                   *)
MCOthers == {limit, create, record, close}

MCRecords == [i \in MCOthers |-> IF i = record THEN ledger ELSE None]

MCSurroundings ==
    [compute_budget_instructions : {<<>>, <<limit>>},
     setup_instructions : {<<>>, <<create>>, <<create, record>>},
     token_ledger_instruction : {record, None},
     cleanup_instruction : {close, None}]

================================================================================
