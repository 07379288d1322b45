------------------------------- MODULE SwapBuilder -------------------------------
(***************************************************************************)
(* A caller builds swap instructions of the Jupiter program in two halves  *)
(* that know nothing of each other, surrounds one of them with others, and *)
(* flattens them to a transaction.                                         *)
(***************************************************************************)
EXTENDS SwapInstruction, Functions

CONSTANTS
    AccountsRequests,   \* parameters of build_swap_accounts
    DataRequests,       \* parameters of build_swap_instruction_data
    AmmMetas,           \* the pool's accounts, appended by the caller
    Authority,          \* find_jupiter_program_authority, as a function
    AuthorityRanges,    \* ranges an authority id is drawn from
    Others,             \* instructions besides the swap
    Records,            \* Records[i]: the token ledger that i writes a balance to
    Surroundings        \* what a caller puts around the swap

AUTHORITY_COUNT == 16

AuthorityIds == 0 .. AUTHORITY_COUNT - 1

ASSUME BuilderAssumption ==
    /\ AccountsRequests \subseteq BuildSwapAccountsParams
    /\ DataRequests \subseteq BuildSwapInstructionDataParams
    /\ AmmMetas \in Seq([pubkey : Keys, is_writable : BOOLEAN])
    /\ Authority \in [AuthorityIds -> Keys]
    /\ AuthorityRanges \subseteq AuthorityIds \X (1 .. AUTHORITY_COUNT)
    /\ \A range \in AuthorityRanges : range[1] < range[2]
    /\ None \notin Others
    /\ Records \in [Others -> Keys \cup {None}]
    /\ \A s \in Surroundings :
          /\ s.compute_budget_instructions \in Seq(Others)
          /\ s.setup_instructions \in Seq(Others)
          /\ {s.token_ledger_instruction, s.cleanup_instruction} \subseteq Others \cup {None}

VARIABLES
    drawn,      \* the authority id the caller has drawn
    asked,      \* ghost: the last parameters of build_swap_accounts
    accounts,   \* its result
    wanted,     \* ghost: the last parameters of build_swap_instruction_data
    data,       \* its result
    swap_ix,    \* the instruction, when complete
    swap_instructions,  \* the SwapInstructions it is part of
    transaction \* the instructions it is sent with

vars == <<drawn, asked, accounts, wanted, data, swap_ix, swap_instructions, transaction>>

NotBuilt == [built |-> FALSE]

(* find_jupiter_program_authority_id: any id of the half-open range. *)
Draws == UNION {range[1] .. range[2] - 1 : range \in AuthorityRanges}

Init ==
    /\ drawn \in Draws
    /\ asked = NotBuilt
    /\ accounts = NotBuilt
    /\ wanted = NotBuilt
    /\ data = NotBuilt
    /\ swap_ix = NotBuilt
    /\ swap_instructions = NotBuilt
    /\ transaction = <<>>

(* Nothing ties the authority named here to the id that was drawn. *)
BuildAccounts ==
    /\ accounts = NotBuilt
    /\ \E p \in AccountsRequests :
          /\ asked' = p
          /\ accounts' = build_swap_accounts(p)
    /\ UNCHANGED <<drawn, wanted, data, swap_ix, swap_instructions, transaction>>

BuildData ==
    /\ data = NotBuilt
    /\ \E d \in DataRequests :
          /\ d.program_authority_id = drawn
          /\ wanted' = d
          /\ data' = build_swap_instruction_data(d)
    /\ UNCHANGED <<drawn, asked, accounts, swap_ix, swap_instructions, transaction>>

Assemble ==
    /\ accounts # NotBuilt
    /\ accounts.ok
    /\ data # NotBuilt
    /\ swap_ix = NotBuilt
    /\ swap_ix' = [accounts |-> accounts.metas \o AmmMetas, data |-> data]
    /\ UNCHANGED <<drawn, asked, accounts, wanted, data, swap_instructions, transaction>>

(* The caller fills a SwapInstructions. *)
Surround ==
    /\ swap_ix # NotBuilt
    /\ swap_instructions = NotBuilt
    /\ \E s \in Surroundings :
          swap_instructions' =
              [compute_budget_instructions |-> s.compute_budget_instructions,
               setup_instructions |-> s.setup_instructions,
               token_ledger_instruction |-> s.token_ledger_instruction,
               swap_instruction |-> swap_ix,
               cleanup_instruction |-> s.cleanup_instruction]
    /\ UNCHANGED <<drawn, asked, accounts, wanted, data, swap_ix, transaction>>

(* An Option as an iterator. *)
into_iter(option) == IF option = None THEN <<>> ELSE <<option>>

(* Mutant: the ledger instruction is kept. *)
from_WithLedger(s) ==
    s.compute_budget_instructions \o s.setup_instructions
        \o into_iter(s.token_ledger_instruction)
        \o <<s.swap_instruction>> \o into_iter(s.cleanup_instruction)

(* From<SwapInstructions>: the token-ledger instruction is dropped. *)
from(s) ==
    s.compute_budget_instructions \o s.setup_instructions
        \o <<s.swap_instruction>> \o into_iter(s.cleanup_instruction)

Flatten ==
    /\ swap_instructions # NotBuilt
    /\ transaction = <<>>
    /\ transaction' = from(swap_instructions)
    /\ UNCHANGED <<drawn, asked, accounts, wanted, data, swap_ix, swap_instructions>>

(* The next swap starts afresh; so does a caller whose request is refused. *)
StartOver ==
    /\ accounts # NotBuilt
    /\ transaction # <<>> \/ ~accounts.ok
    /\ drawn' \in Draws
    /\ asked' = NotBuilt
    /\ accounts' = NotBuilt
    /\ wanted' = NotBuilt
    /\ data' = NotBuilt
    /\ swap_ix' = NotBuilt
    /\ swap_instructions' = NotBuilt
    /\ transaction' = <<>>

Next == BuildAccounts \/ BuildData \/ Assemble \/ Surround \/ Flatten \/ StartOver

Spec == Init /\ [][Next]_vars

--------------------------------------------------------------------------------
(* Properties.                                                             *)

Complete == swap_ix # NotBuilt

(* The caller asks both functions for the same kind of swap. *)
SameKind ==
    /\ asked.use_shared_accounts = wanted.use_shared_accounts
    /\ asked.swap_mode = wanted.swap_mode
    /\ (asked.token_ledger # None) = wanted.use_token_ledger

(* Asked for the same kind of swap, the two functions build halves of one  *)
(* instruction: by position the program finds the user as the authority,   *)
(* the user's account as the source, the account the caller wants the      *)
(* proceeds in as destination, the ledger that replaces the amount, and    *)
(* the program authority of its id if that is the one the caller named.    *)
ProgramReadsTheRequest ==
    Complete /\ SameKind =>
        /\ Accepted(swap_ix)
        /\ Reads(swap_ix, "user_transfer_authority") = asked.user
        /\ Reads(swap_ix, IF asked.use_shared_accounts THEN "source_token_account"
                                                       ELSE "user_source_token_account")
               = asked.user_source_token_account
        /\ Reads(swap_ix, "destination_token_account") =
               unwrap_or(asked.optional_destination_token_account,
                         asked.user_destination_token_account)
        /\ Lists(swap_ix.data.variant, "token_ledger") =>
               Reads(swap_ix, "token_ledger") = asked.token_ledger
        /\ asked.program_authority = Authority[drawn] =>
               \A id \in swap_ix.data.id :
                   Reads(swap_ix, "program_authority") = Authority[id]

(* Halves of two different instructions are never taken for one: the event *)
(* authority of one list is not where the other has it.  The exception is  *)
(* shared accounts without a ledger, where exact-in and exact-out have the *)
(* same list and nothing tells an amount paid from an amount received.     *)
MixedHalvesAreRefused ==
    Complete /\ Accepted(swap_ix) /\ ~SameKind =>
        \/ /\ asked.use_shared_accounts
           /\ wanted.use_shared_accounts
           /\ asked.swap_mode # wanted.swap_mode
        \/ /\ asked.swap_mode = "ExactOut"
           /\ wanted.swap_mode = "ExactOut"
           /\ wanted.use_token_ledger

(* A swap the program accepts says how much to swap, once: in its data, or *)
(* in a ledger account the caller named.                                   *)
AmountOrLedger ==
    Complete /\ Accepted(swap_ix) =>
        LET variant == swap_ix.data.variant IN
            /\ DOMAIN swap_ix.data.amount = {} <=> Lists(variant, "token_ledger")
            /\ \A field \in DOMAIN swap_ix.data.amount :
                  /\ swap_ix.data.amount[field] = wanted.amount
                  /\ field = "in_amount" <=> wanted.swap_mode = "ExactIn"
            /\ Lists(variant, "token_ledger") =>
                  asked.token_ledger # None /\ Reads(swap_ix, "token_ledger") = asked.token_ledger

(* The comment of From<SwapInstructions> (build_swap_transaction.rs:35)    *)
(* leaves token_ledger_instruction to the "instructions mode".  Whatever a *)
(* caller puts around the swap: in the transaction all that prepares it    *)
(* comes ahead of it and the cleanup after it, but a swap that takes its   *)
(* amount from a ledger finds it there only if the caller lists the        *)
(* instruction that records it with the preparations, never by the field   *)
(* that is made for it.                                                    *)
LedgerNeedsInstructionsMode ==
    transaction # <<>> =>
        \E k \in DOMAIN transaction :
            LET s == swap_instructions
                ahead == {transaction[i] : i \in 1 .. k - 1}
                after == {transaction[i] : i \in k + 1 .. Len(transaction)}
                preparations == Range(s.compute_budget_instructions) \cup
                                Range(s.setup_instructions)
                amount_known == \/ DOMAIN swap_ix.data.amount # {}
                                \/ \E i \in ahead : Records[i] = Reads(swap_ix, "token_ledger")
            IN  /\ transaction[k] = swap_ix
                /\ ahead = preparations
                /\ after = {s.cleanup_instruction} \ {None}
                /\ Accepted(swap_ix) =>
                      (amount_known <=>
                          (wanted.use_token_ledger /\ wanted.swap_mode = "ExactIn" =>
                              \E i \in preparations : Records[i] = asked.token_ledger))

(* The error of build_swap_accounts (build_swap_transaction.rs:189) says   *)
(* "SwapMode::ExactOut is only supported with shared accounts and without  *)
(* token ledger".                                                          *)
ExactOutNeedsSharedAccounts ==
    accounts # NotBuilt /\ accounts.ok /\ asked.swap_mode = "ExactOut" =>
        asked.use_shared_accounts /\ asked.token_ledger = None

(* The comment above AUTHORITY_COUNT (jupiter/src/lib.rs:10) says "we only *)
(* support up to 8 authorities between [0, 1, 2, 3, 4, 5, 6, 7]".          *)
EightAuthorities == Complete => swap_ix.data.id \subseteq 0 .. 7

================================================================================
