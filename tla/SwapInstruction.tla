----------------------------- MODULE SwapInstruction -----------------------------
(***************************************************************************)
(* The two halves of a swap instruction of the Jupiter program, and how    *)
(* the program reads it.  `build_swap_accounts` decides from one set of    *)
(* parameters which of six instructions the accounts are for,              *)
(* `build_swap_instruction_data` decides from another which one the data   *)
(* are for.  The program looks at the data first and then reads the        *)
(* accounts by position, as the IDL lists them for that instruction.       *)
(***************************************************************************)
EXTENDS Integers, Sequences

CONSTANTS
    Keys,               \* public keys a caller may pass
    Jupiter,            \* jupiter::ID
    SplToken,           \* spl_token::ID
    EventAuthority,     \* find_event_authority()
    None                \* an Option without value

(* The event authority is derived from a seed of the program's own; it is  *)
(* no account a caller or a pool would name.                               *)
ASSUME InstructionAssumption ==
    /\ {Jupiter, SplToken, EventAuthority, None} \cap Keys = {}
    /\ EventAuthority \notin {Jupiter, SplToken, None}
    /\ None \notin {Jupiter, SplToken}

SwapModes == {"ExactIn", "ExactOut"}

BuildSwapAccountsParams ==
    [use_shared_accounts : BOOLEAN, swap_mode : SwapModes, user : Keys,
     program_authority : Keys, user_source_token_account : Keys,
     source_token_account : Keys, user_destination_token_account : Keys,
     destination_token_account : Keys, destination_token_program : Keys \cup {SplToken},
     input_mint : Keys, output_mint : Keys, token_ledger : Keys \cup {None},
     platform_fee_account : Keys \cup {None},
     optional_destination_token_account : Keys \cup {None},
     token2022_program : Keys \cup {None}]

BuildSwapInstructionDataParams ==
    [use_shared_accounts : BOOLEAN, use_token_ledger : BOOLEAN,
     swap_mode : SwapModes, program_authority_id : Nat,
     amount : Nat, quoted_amount : Nat]

(* The six instructions and their accounts, in the order of the IDL. *)
IdlAccounts ==
    [Route |->
        <<"token_program", "user_transfer_authority", "user_source_token_account",
          "user_destination_token_account", "destination_token_account",
          "destination_mint", "platform_fee_account", "event_authority", "program">>,
     RouteWithTokenLedger |->
        <<"token_program", "user_transfer_authority", "user_source_token_account",
          "user_destination_token_account", "destination_token_account",
          "destination_mint", "platform_fee_account", "token_ledger",
          "event_authority", "program">>,
     ExactOutRoute |->
        <<"token_program", "user_transfer_authority", "user_source_token_account",
          "user_destination_token_account", "destination_token_account",
          "source_mint", "destination_mint", "platform_fee_account",
          "token_2022_program", "event_authority", "program">>,
     SharedAccountsRoute |->
        <<"token_program", "program_authority", "user_transfer_authority",
          "source_token_account", "program_source_token_account",
          "program_destination_token_account", "destination_token_account",
          "source_mint", "destination_mint", "platform_fee_account",
          "token_2022_program", "event_authority", "program">>,
     SharedAccountsExactOutRoute |->
        <<"token_program", "program_authority", "user_transfer_authority",
          "source_token_account", "program_source_token_account",
          "program_destination_token_account", "destination_token_account",
          "source_mint", "destination_mint", "platform_fee_account",
          "token_2022_program", "event_authority", "program">>,
     SharedAccountsRouteWithTokenLedger |->
        <<"token_program", "program_authority", "user_transfer_authority",
          "source_token_account", "program_source_token_account",
          "program_destination_token_account", "destination_token_account",
          "source_mint", "destination_mint", "platform_fee_account",
          "token_2022_program", "token_ledger", "event_authority", "program">>]

Variants == DOMAIN IdlAccounts

(* The accounts the IDL marks writable. *)
Writable ==
    {"user_source_token_account", "user_destination_token_account",
     "source_token_account", "program_source_token_account",
     "program_destination_token_account", "destination_token_account",
     "platform_fee_account"}

to_account_metas(variant, roles) ==
    [i \in DOMAIN IdlAccounts[variant] |->
        [pubkey |-> roles[IdlAccounts[variant][i]],
         is_writable |-> IdlAccounts[variant][i] \in Writable]]

--------------------------------------------------------------------------------
(* build_swap_accounts.                                                    *)

unwrap_or(option, default) == IF option = None THEN default ELSE option

(* What the arms of the match put where; an arm takes the roles its        *)
(* instruction lists.  An absent optional account is passed as the program *)
(* itself.                                                                 *)
Roles(p) ==
    [token_program |->
         IF ~p.use_shared_accounts /\ p.swap_mode = "ExactIn"
         THEN p.destination_token_program ELSE SplToken,
     program_authority |-> p.program_authority,
     user_transfer_authority |-> p.user,
     user_source_token_account |-> p.user_source_token_account,
     source_token_account |-> p.user_source_token_account,
     program_source_token_account |-> p.source_token_account,
     user_destination_token_account |-> p.user_destination_token_account,
     program_destination_token_account |-> p.destination_token_account,
     destination_token_account |->
         unwrap_or(p.optional_destination_token_account, p.user_destination_token_account),
     source_mint |-> p.input_mint,
     destination_mint |-> p.output_mint,
     platform_fee_account |-> unwrap_or(p.platform_fee_account, Jupiter),
     token_2022_program |-> unwrap_or(p.token2022_program, Jupiter),
     token_ledger |-> p.token_ledger,
     event_authority |-> EventAuthority,
     program |-> Jupiter]

(* Mutant: exact-out without shared accounts passes for an exact-in route. *)
AccountsVariant_NoExactOut(p) ==
    CASE p.use_shared_accounts /\ p.swap_mode = "ExactIn" /\ p.token_ledger # None
             -> "SharedAccountsRouteWithTokenLedger"
      [] p.use_shared_accounts /\ p.swap_mode = "ExactIn" /\ p.token_ledger = None
             -> "SharedAccountsRoute"
      [] p.use_shared_accounts /\ p.swap_mode = "ExactOut" /\ p.token_ledger = None
             -> "SharedAccountsExactOutRoute"
      [] ~p.use_shared_accounts /\ p.token_ledger # None
             -> "RouteWithTokenLedger"
      [] ~p.use_shared_accounts /\ p.token_ledger = None
             -> "Route"
      [] OTHER -> "Refused"

(* The arms of the match; the last one is the error. *)
AccountsVariant(p) ==
    CASE p.use_shared_accounts /\ p.swap_mode = "ExactIn" /\ p.token_ledger # None
             -> "SharedAccountsRouteWithTokenLedger"
      [] p.use_shared_accounts /\ p.swap_mode = "ExactIn" /\ p.token_ledger = None
             -> "SharedAccountsRoute"
      [] p.use_shared_accounts /\ p.swap_mode = "ExactOut" /\ p.token_ledger = None
             -> "SharedAccountsExactOutRoute"
      [] ~p.use_shared_accounts /\ p.swap_mode = "ExactIn" /\ p.token_ledger # None
             -> "RouteWithTokenLedger"
      [] ~p.use_shared_accounts /\ p.swap_mode = "ExactIn" /\ p.token_ledger = None
             -> "Route"
      [] ~p.use_shared_accounts /\ p.swap_mode = "ExactOut" /\ p.token_ledger = None
             -> "ExactOutRoute"
      [] OTHER -> "Refused"

build_swap_accounts(p) ==
    LET variant == AccountsVariant(p) IN
        IF variant = "Refused" THEN [ok |-> FALSE, metas |-> <<>>]
        ELSE [ok |-> TRUE, metas |-> to_account_metas(variant, Roles(p))]

--------------------------------------------------------------------------------
(* build_swap_instruction_data.  It never fails, and an exact-out request  *)
(* ignores use_token_ledger.                                               *)

(* Mutant: use_token_ledger is looked at with shared accounts only. *)
DataVariant_NoLedger(d) ==
    IF d.swap_mode = "ExactIn"
    THEN IF d.use_shared_accounts
         THEN IF d.use_token_ledger THEN "SharedAccountsRouteWithTokenLedger"
                                    ELSE "SharedAccountsRoute"
         ELSE "Route"
    ELSE IF d.use_shared_accounts THEN "SharedAccountsExactOutRoute"
                                  ELSE "ExactOutRoute"

DataVariant(d) ==
    IF d.swap_mode = "ExactIn"
    THEN CASE d.use_shared_accounts /\ d.use_token_ledger -> "SharedAccountsRouteWithTokenLedger"
           [] d.use_shared_accounts /\ ~d.use_token_ledger -> "SharedAccountsRoute"
           [] ~d.use_shared_accounts /\ d.use_token_ledger -> "RouteWithTokenLedger"
           [] ~d.use_shared_accounts /\ ~d.use_token_ledger -> "Route"
    ELSE IF d.use_shared_accounts THEN "SharedAccountsExactOutRoute"
                                  ELSE "ExactOutRoute"

(* Mutant: every instruction with an amount calls it in_amount. *)
AmountField_InOnly(variant) ==
    IF variant \in {"RouteWithTokenLedger", "SharedAccountsRouteWithTokenLedger"}
    THEN {} ELSE {"in_amount"}

(* The instructions with a token ledger have no field for the amount. *)
AmountField(variant) ==
    CASE variant \in {"Route", "SharedAccountsRoute"} -> {"in_amount"}
      [] variant \in {"ExactOutRoute", "SharedAccountsExactOutRoute"} -> {"out_amount"}
      [] OTHER -> {}

build_swap_instruction_data(d) ==
    [variant |-> DataVariant(d),
     id |-> IF d.use_shared_accounts THEN {d.program_authority_id} ELSE {},
     amount |-> [field \in AmountField(DataVariant(d)) |-> d.amount],
     quoted_amount |-> d.quoted_amount]

--------------------------------------------------------------------------------
(* What the program makes of an instruction.                               *)

Lists(variant, role) ==
    \E i \in DOMAIN IdlAccounts[variant] : IdlAccounts[variant][i] = role

Position(variant, role) ==
    CHOOSE i \in DOMAIN IdlAccounts[variant] : IdlAccounts[variant][i] = role

ReadAt(ix, i) == IF i \in DOMAIN ix.accounts THEN ix.accounts[i].pubkey ELSE None

Reads(ix, role) == ReadAt(ix, Position(ix.data.variant, role))

(* The one account the IDL pins to an address. *)
Accepted(ix) == Reads(ix, "event_authority") = EventAuthority

================================================================================
