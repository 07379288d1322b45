------------------------------- MODULE SwapHarness -------------------------------
(***************************************************************************)
(* The quoting tests.  `test_quoting_with_amm` takes an instance through   *)
(* every pair of its mints; for each, `load_program_test` sets up a bank   *)
(* from the snapshot and funds a user and an authority, and                *)
(* `assert_quote_matches_simulated_swap` halves an amount until it is      *)
(* quoted, executes the swap and compares what was paid with the quote.    *)
(*                                                                         *)
(* The programs the bank executes are not in this repository.  The pool    *)
(* program has a curve of its own, ProgramSwap: whether that agrees with   *)
(* the adapter's CurveSwap is what the tests are for.                      *)
(***************************************************************************)
EXTENDS SplTokenSwap, SwapInstruction, FiniteSetsExt

CONSTANTS
    User, Authority,            \* the wallets of setup_user, setup_authority
    Token2022,                  \* spl_token_2022::ID
    Ata,                        \* Ata[wallet][mint]: associated token account
    InAmount,                   \* TOKEN_MINT_TO_IN_AMOUNT
    Attempts,                   \* how often a quote is tried, 10 in the code
    PoolKeys,                   \* the swap's accounts that do not move tokens
    Snapshots,                  \* what test directories may hold
    Programs,                   \* pool programs a test may run against
    ProgramSwap(_, _, _, _, _), \* their curves
    Requests                    \* parameters of test_quoting_for_amm_key

PoolMints == {PoolState.token_a_mint, PoolState.token_b_mint}

Wallets == {User, Authority}

PoolVaults == {PoolState.token_a, PoolState.token_b}

TokenAccounts ==
    PoolVaults \cup {Ata[w][m] : w \in Wallets, m \in PoolMints}

(* The text of the one error quote can return. *)
QuoteFailed == "quote failed"

ASSUME HarnessAssumption ==
    /\ Addresses \cup Mints \cup Wallets \cup {Token2022} \subseteq Keys
    /\ PoolState.token_a_mint # PoolState.token_b_mint
    /\ Ata \in [Wallets -> [PoolMints -> Keys \ PoolVaults]]
    /\ \A w, u \in Wallets, m, n \in PoolMints : Ata[w][m] = Ata[u][n] => w = u /\ m = n
    /\ User # Authority
    /\ InAmount \in [DOMAIN InAmount -> U64]
    /\ Attempts \in Nat \ {0}
    /\ PoolKeys \in [{"token_swap_program", "swap", "authority", "pool_mint", "pool_fee"} -> Keys]
    /\ \A s \in Snapshots : s.accounts \in AccountMap
    /\ Requests \subseteq [swap_mode : SwapModes, use_shared_accounts : BOOLEAN,
                           tolerance : Nat, expected_error : {None, QuoteFailed, "other"}]

(* What the token program enforces of any curve: a swap takes at most what *)
(* it is offered and pays at most what the vault holds.                    *)
ASSUME ProgramAssumption ==
    \A p \in Programs, x, source, destination \in U64, direction \in Directions :
        LET r == ProgramSwap(p, x, source, destination, direction) IN
            /\ r \in CurveResults
            /\ r.some => /\ r.source_amount_swapped <= x
                         /\ r.destination_amount_swapped <= destination

VARIABLES
    at,                 \* where the test is, "idle" when none runs
    request,            \* its parameters
    snapshot,           \* its directory: the vaults, and the rest of the accounts
    program,            \* the pool program it loads
    amm,                \* the instance under test
    pairs,              \* pairs of mints still to be tested
    one_test_passed,
    bank,               \* balances of the token accounts
    amount,
    quote_count,
    quote_result,
    quote_err,          \* an attempt has failed
    executed,           \* process_transaction_result and the two balance differences
    verdict,
    tried               \* ghost: the pairs that passed, with their amounts

vars == <<at, request, snapshot, program, amm, pairs, one_test_passed, bank, amount,
          quote_count, quote_result, quote_err, executed, verdict, tried>>

NotExecuted == [ok |-> FALSE, source_diff |-> 0, destination_diff |-> 0]

EmptyBank == [a \in TokenAccounts |-> 0]

source_mint == Head(pairs)[1]
destination_mint == Head(pairs)[2]

--------------------------------------------------------------------------------
(* The swap instruction of a pair.                                         *)

TOKEN2022_MINTS == {}   \* the table is empty

(* Mutant: shared accounts are used for the source alone. *)
OwnAccount_Destination(mint) == ~request.use_shared_accounts \/ mint # source_mint

(* The user's own account takes part in the swap itself. *)
OwnAccount(mint) == ~request.use_shared_accounts \/ mint \in TOKEN2022_MINTS

source_token_account ==
    IF OwnAccount(source_mint) THEN Ata[User][source_mint] ELSE Ata[Authority][source_mint]

destination_token_account ==
    IF OwnAccount(destination_mint) THEN Ata[User][destination_mint]
                                    ELSE Ata[Authority][destination_mint]

token_authority == IF OwnAccount(source_mint) THEN User ELSE Authority

accounts_params ==
    [use_shared_accounts |-> request.use_shared_accounts,
     swap_mode |-> request.swap_mode,
     user |-> User,
     program_authority |-> Authority,
     user_source_token_account |-> Ata[User][source_mint],
     source_token_account |-> source_token_account,
     user_destination_token_account |-> Ata[User][destination_mint],
     destination_token_account |-> destination_token_account,
     destination_token_program |-> SplToken,
     input_mint |-> source_mint,
     output_mint |-> destination_mint,
     token_ledger |-> None,
     platform_fee_account |-> None,
     optional_destination_token_account |-> None,
     token2022_program |-> Token2022]

(* The account list of a token swap and what of it is writable. *)
TokenSwap ==
    <<"token_swap_program", "token_program", "swap", "authority",
      "user_transfer_authority", "source", "swap_source", "swap_destination",
      "destination", "pool_mint", "pool_fee">>

TokenSwapReadonly == {"token_swap_program", "token_program", "swap", "authority",
                      "user_transfer_authority"}

TokenSwapRoles ==
    LET vaults == get_swap_and_account_metas(amm, source_mint) IN
        [token_swap_program |-> PoolKeys["token_swap_program"],
         token_program |-> SplToken,
         swap |-> PoolKeys["swap"],
         authority |-> PoolKeys["authority"],
         user_transfer_authority |-> token_authority,
         source |-> source_token_account,
         swap_source |-> vaults.swap_source,
         swap_destination |-> vaults.swap_destination,
         destination |-> destination_token_account,
         pool_mint |-> PoolKeys["pool_mint"],
         pool_fee |-> PoolKeys["pool_fee"]]

swap_metas ==
    [i \in DOMAIN TokenSwap |->
        [pubkey |-> TokenSwapRoles[TokenSwap[i]],
         is_writable |-> TokenSwap[i] \notin TokenSwapReadonly]]

data_params ==
    [use_shared_accounts |-> request.use_shared_accounts,
     use_token_ledger |-> FALSE,
     swap_mode |-> request.swap_mode,
     program_authority_id |-> 0,
     amount |-> amount,
     quoted_amount |-> IF request.swap_mode = "ExactIn" THEN 0 ELSE MaxU64]

swap_ix ==
    [accounts |-> build_swap_accounts(accounts_params).metas \o swap_metas,
     data |-> build_swap_instruction_data(data_params)]

--------------------------------------------------------------------------------
(* The bank: the Jupiter program, the pool program and the token program,  *)
(* as far as a swap the user has signed depends on the accounts it names.  *)

OwnedBy(wallet, account) == \E m \in PoolMints : account = Ata[wallet][m]

MintOf(account) ==
    IF account = PoolState.token_a THEN PoolState.token_a_mint
    ELSE IF account = PoolState.token_b THEN PoolState.token_b_mint
    ELSE CHOOSE m \in PoolMints : \E w \in Wallets : account = Ata[w][m]

IsWritable(ix, account) ==
    \E i \in DOMAIN ix.accounts :
        ix.accounts[i].pubkey = account /\ ix.accounts[i].is_writable

Transfer(balances, from, to, x) == [balances EXCEPT ![from] = @ - x, ![to] = @ + x]

(* The accounts of the pool's part follow those of the IDL. *)
PoolRole(ix, role) ==
    ReadAt(ix, Len(IdlAccounts[ix.data.variant])
               + CHOOSE i \in DOMAIN TokenSwap : TokenSwap[i] = role)

(* With shared accounts the program moves the user's tokens to its own     *)
(* account, signs for the pool's part with the authority of the id, and    *)
(* passes the proceeds on.                                                 *)
IsShared(ix) == ix.data.variant = "SharedAccountsRoute"

Offered(ix) == ix.data.amount["in_amount"]

Payer(ix) ==
    Reads(ix, IF IsShared(ix) THEN "source_token_account" ELSE "user_source_token_account")

PoolSwap(ix) ==
    LET vault_in == PoolRole(ix, "swap_source")
        vault_out == PoolRole(ix, "swap_destination")
    IN  ProgramSwap(program, Offered(ix), bank[vault_in], bank[vault_out],
                    IF vault_in = PoolState.token_a THEN "AtoB" ELSE "BtoA")

(* The accounts without tokens of the pool that its program reads, and the *)
(* mints that the instruction lists for the Jupiter program.               *)
ReadByPool == {"swap", "pool_mint", "pool_fee"}

ReadByJupiter(variant) ==
    {role \in {"source_mint", "destination_mint"} : Lists(variant, role)}

Required(ix) ==
    {PoolRole(ix, role) : role \in ReadByPool}
        \cup {Reads(ix, role) : role \in ReadByJupiter(ix.data.variant)}

Allowed(ix) ==
    LET source == PoolRole(ix, "source")
        destination == PoolRole(ix, "destination")
        vault_in == PoolRole(ix, "swap_source")
        vault_out == PoolRole(ix, "swap_destination")
        signer == PoolRole(ix, "user_transfer_authority")
    IN  /\ Required(ix) \subseteq snapshot.rest
        /\ Accepted(ix)
        /\ Reads(ix, "user_transfer_authority") = User
        /\ IsShared(ix) => /\ Reads(ix, "program_authority") = Authority
                           /\ OwnedBy(Authority, Reads(ix, "program_destination_token_account"))
        /\ signer \in {User} \cup (IF IsShared(ix) THEN {Authority} ELSE {})
        /\ OwnedBy(User, Payer(ix))
        /\ OwnedBy(signer, source)
        /\ MintOf(source) = MintOf(vault_in)
        /\ MintOf(destination) = MintOf(vault_out)
        /\ \A a \in {source, vault_in, vault_out, destination} : IsWritable(ix, a)
        /\ Offered(ix) <= bank[Payer(ix)]
        /\ PoolSwap(ix).some
        /\ bank[vault_in] + PoolSwap(ix).source_amount_swapped <= MaxU64

Settled(ix) ==
    LET r == PoolSwap(ix)
        paid == IF IsShared(ix)
                THEN Transfer(bank, Payer(ix), Reads(ix, "program_source_token_account"),
                              Offered(ix))
                ELSE bank
        swapped == Transfer(Transfer(paid, PoolRole(ix, "source"), PoolRole(ix, "swap_source"),
                                     r.source_amount_swapped),
                            PoolRole(ix, "swap_destination"), PoolRole(ix, "destination"),
                            r.destination_amount_swapped)
    IN  IF IsShared(ix)
        THEN Transfer(swapped, Reads(ix, "program_destination_token_account"),
                      Reads(ix, "destination_token_account"), r.destination_amount_swapped)
        ELSE swapped

--------------------------------------------------------------------------------
(* A test.                                                                 *)

(* The permutations of two positions; the adapter is not unidirectional. *)
get_token_mints_permutations(mints) ==
    <<<<mints[1], mints[2]>>, <<mints[2], mints[1]>>>>

Init ==
    /\ at = "idle"
    /\ request \in Requests
    /\ snapshot \in Snapshots
    /\ program \in Programs
    /\ amm = from_keyed_account
    /\ pairs = <<>>
    /\ one_test_passed = FALSE
    /\ bank = EmptyBank
    /\ amount = 0
    /\ quote_count = 0
    /\ quote_result = NoQuote
    /\ quote_err = FALSE
    /\ executed = NotExecuted
    /\ verdict = "none"
    /\ tried = {}

Begin ==
    /\ at = "idle"
    /\ at' = "next"
    /\ request' \in Requests
    /\ snapshot' \in Snapshots
    /\ program' \in Programs
    /\ amm' = from_keyed_account
    /\ pairs' = get_token_mints_permutations(from_keyed_account.reserve_mints)
    /\ one_test_passed' = FALSE
    /\ bank' = EmptyBank
    /\ amount' = 0
    /\ quote_count' = 0
    /\ quote_result' = NoQuote
    /\ quote_err' = FALSE
    /\ executed' = NotExecuted
    /\ verdict' = "none"
    /\ tried' = {}

(* An unwrap or an assertion fails. *)
Panic ==
    /\ at' = "idle"
    /\ verdict' = "failed"
    /\ UNCHANGED <<amm, pairs, one_test_passed, bank, amount, quote_count, quote_result,
                   quote_err, executed, tried>>

(* The vaults are those of the snapshot.  setup_token_accounts then sets   *)
(* the accounts of both wallets, whatever the snapshot had there: 110/10   *)
(* of the amount of the table, which is far from the bound of u64.         *)
Funded ==
    [a \in TokenAccounts |->
        IF a \in PoolVaults THEN snapshot.accounts[a].amount
        ELSE (InAmount[MintOf(a)] * 110) \div 10]

(* Mutant: the error of the last pair stays. *)
NoAttempt_SameError ==
    quote_count' = 0 /\ quote_result' = NoQuote /\ UNCHANGED quote_err

NoAttempt ==
    quote_count' = 0 /\ quote_result' = NoQuote /\ quote_err' = FALSE

(* load_program_test and the beginning of the assertion: three updates     *)
(* from one map, a fresh bank, and an amount from a table, which for       *)
(* ExactOut is empty.                                                      *)
LoadProgramTest ==
    /\ at = "next"
    /\ pairs # <<>>
    /\ IF /\ CanUpdate(amm, snapshot.accounts)
          /\ PoolMints \subseteq DOMAIN InAmount
          /\ request.swap_mode = "ExactIn"
       THEN /\ at' = "quote"
            /\ amm' = update(amm, snapshot.accounts)
            /\ bank' = Funded
            /\ amount' = InAmount[source_mint]
            /\ NoAttempt
            /\ UNCHANGED <<pairs, one_test_passed, executed, verdict, tried>>
       ELSE Panic
    /\ UNCHANGED <<request, snapshot, program>>

(* Mutant: the whole amount is tried first. *)
AttemptAmount_WholeFirst == IF quote_count = 0 THEN amount ELSE amount \div 2

(* The amount is halved before every attempt, the first one included. *)
AttemptAmount == amount \div 2

(* Mutant: failed attempts are not counted. *)
AttemptCount_Quotes(q) == IF q.ok THEN quote_count + 1 ELSE quote_count

AttemptCount(q) == quote_count + 1

(* One turn of the loop; the swap mode is passed to quote and ignored by   *)
(* it.  Only the last error is kept, a quote does not clear it.            *)
TryQuote ==
    LET q == quote(amm, source_mint, AttemptAmount) IN
        /\ at = "quote"
        /\ ~quote_result.ok
        /\ quote_count < Attempts
        /\ amount' = AttemptAmount
        /\ quote_result' = q
        /\ quote_err' = (quote_err \/ ~q.ok)
        /\ quote_count' = AttemptCount(q)
        /\ UNCHANGED <<at, request, snapshot, program, amm, pairs, one_test_passed, bank,
                       executed, verdict, tried>>

(* Mutant: before and after are exchanged. *)
source_token_account_diff_Exchanged(before, after) == after - before

(* The checked differences of the user's two balances. *)
source_token_account_diff(before, after) == before - after
destination_token_account_diff(before, after) == after - before

(* process_transaction between two looks at the user's accounts; without a *)
(* quote it is executed all the same.                                      *)
ProcessTransaction ==
    /\ at = "quote"
    /\ quote_result.ok \/ quote_count >= Attempts
    /\ \E ix \in {swap_ix} :
          LET ok == Allowed(ix)
              balances == IF ok THEN Settled(ix) ELSE bank
              to == Ata[User][destination_mint]
              from == Ata[User][source_mint]
          IN  /\ bank' = balances
              /\ executed' = [ok |-> ok,
                              source_diff |->
                                  source_token_account_diff(bank[from], balances[from]),
                              destination_diff |->
                                  destination_token_account_diff(bank[to], balances[to])]
    /\ at' = "judge"
    /\ UNCHANGED <<request, snapshot, program, amm, pairs, one_test_passed, amount,
                   quote_count, quote_result, quote_err, verdict, tried>>

abs(x) == IF x < 0 THEN -x ELSE x

(* Mutant: what was paid in is compared. *)
AsItShould_PaidIn ==
    /\ executed.source_diff >= 0
    /\ executed.destination_diff >= 0
    /\ IF request.expected_error # None
       THEN quote_err /\ request.expected_error = QuoteFailed /\ ~executed.ok
       ELSE /\ executed.ok
            /\ quote_result.ok
            /\ abs(quote_result.in_amount - executed.source_diff) <= request.tolerance

(* The unwraps and assertions after the transaction; those of an ExactOut  *)
(* test are never reached.                                                 *)
AsItShould ==
    /\ executed.source_diff >= 0
    /\ executed.destination_diff >= 0
    /\ IF request.expected_error # None
       THEN quote_err /\ request.expected_error = QuoteFailed /\ ~executed.ok
       ELSE /\ executed.ok
            /\ quote_result.ok
            /\ abs(quote_result.out_amount - executed.destination_diff) <= request.tolerance

Judge ==
    /\ at = "judge"
    /\ IF AsItShould
       THEN /\ at' = "next"
            /\ pairs' = Tail(pairs)
            /\ one_test_passed' = TRUE
            /\ tried' = tried \cup {[pair |-> Head(pairs), amount |-> amount]}
            /\ UNCHANGED <<amm, bank, amount, quote_count, quote_result, quote_err,
                           executed, verdict>>
       ELSE Panic
    /\ UNCHANGED <<request, snapshot, program>>

(* assert!(one_test_passed). *)
End ==
    /\ at = "next"
    /\ pairs = <<>>
    /\ at' = "idle"
    /\ verdict' = IF one_test_passed THEN "passed" ELSE "failed"
    /\ UNCHANGED <<request, snapshot, program, amm, pairs, one_test_passed, bank, amount,
                   quote_count, quote_result, quote_err, executed, tried>>

TestStep == LoadProgramTest \/ TryQuote \/ ProcessTransaction \/ Judge \/ End

Next == Begin \/ TestStep

Spec == Init /\ [][Next]_vars

(* A test that runs is scheduled; the bank answers every transaction. *)
FairSpec == Spec /\ WF_vars(TestStep)

--------------------------------------------------------------------------------
(* Properties.                                                             *)

(* Types of the variables.  No account is ever overdrawn, no vault exceeds *)
(* u64, and the user's two balances differ the way the harness presumes:   *)
(* neither checked_sub can panic.                                          *)
TypeOK ==
    /\ at \in {"idle", "next", "quote", "judge"}
    /\ request \in Requests
    /\ snapshot \in Snapshots
    /\ program \in Programs
    /\ amm \in SplTokenSwapAmm
    /\ pairs \in Seq(PoolMints \X PoolMints)
    /\ one_test_passed \in BOOLEAN
    /\ bank \in [TokenAccounts -> Nat]
    /\ \A vault \in PoolVaults : bank[vault] \in U64
    /\ amount \in U64
    /\ quote_count \in 0 .. Attempts
    /\ quote_result \in Quotes
    /\ quote_err \in BOOLEAN
    /\ executed \in [ok : BOOLEAN, source_diff : Nat, destination_diff : Nat]
    /\ verdict \in {"none", "passed", "failed"}
    /\ tried \subseteq [pair : PoolMints \X PoolMints, amount : U64]

Pairs == {<<PoolState.token_a_mint, PoolState.token_b_mint>>,
          <<PoolState.token_b_mint, PoolState.token_a_mint>>}

(* The vaults of a pair, as the snapshot has them. *)
Vaults(pair) ==
    IF pair[1] = PoolState.token_a_mint THEN <<PoolState.token_a, PoolState.token_b>>
                                        ELSE <<PoolState.token_b, PoolState.token_a>>

Balance(pair, k) == snapshot.accounts[Vaults(pair)[k]].amount

DirectionOf(pair) == IF pair[1] = PoolState.token_a_mint THEN "AtoB" ELSE "BtoA"

(* What the adapter and the pool program make of an amount of a pair. *)
AdapterResult(pair, x) ==
    CurveSwap(x, Balance(pair, 1), Balance(pair, 2), DirectionOf(pair))

ProgramResult(pair, x) ==
    ProgramSwap(program, x, Balance(pair, 1), Balance(pair, 2), DirectionOf(pair))

Executable(pair, x) ==
    LET r == ProgramResult(pair, x) IN
        r.some /\ Balance(pair, 1) + r.source_amount_swapped <= MaxU64

(* The amounts a pair may be tried with, and the one it is tried with: the *)
(* largest the adapter quotes, or the last.                                *)
Halving(x) ==
    LET half[k \in 0 .. Attempts] == IF k = 0 THEN x ELSE half[k - 1] \div 2 IN half

Halves(pair) == {Halving(InAmount[pair[1]])[k] : k \in 1 .. Attempts}

Quotable(pair) == {x \in Halves(pair) : AdapterResult(pair, x).some}

TriedAmount(pair) ==
    IF Quotable(pair) # {} THEN Max(Quotable(pair)) ELSE Min(Halves(pair))

(* The snapshot has all that a swap needs. *)
Usable == CanUpdate(amm, snapshot.accounts) /\ PoolMints \subseteq DOMAIN InAmount

(* Adapter and program agree on an amount of a pair. *)
CurvesAgree(pair, x) ==
    /\ AdapterResult(pair, x).some
    /\ Executable(pair, x)
    /\ abs(AdapterResult(pair, x).destination_amount_swapped
           - ProgramResult(pair, x).destination_amount_swapped) <= request.tolerance

(* The snapshot has the pool's accounts, and the mints of a pair as far as *)
(* its instruction names them.                                             *)
NeededFor(pair) ==
    {PoolKeys[role] : role \in ReadByPool} \cup {pair[2]}
        \cup (IF request.use_shared_accounts THEN {pair[1]} ELSE {})

Served(pair) == NeededFor(pair) \subseteq snapshot.rest

AgreeOn(pair, x) == Served(pair) /\ CurvesAgree(pair, x)

(* README.md:14, the tests "verify that the simulation yields the same     *)
(* swap outcome as the Amm implementation": a test that expects no error   *)
(* and passes has compared the two for every ordered pair of mints, on the *)
(* vaults of the snapshot and on one amount each.  No ExactOut test passes.*)
PassMeansAgreement ==
    verdict = "passed" /\ request.expected_error = None =>
        /\ request.swap_mode = "ExactIn"
        /\ {t.pair : t \in tried} = Pairs
        /\ \A t \in tried : AgreeOn(t.pair, t.amount)

(* The amount a pair passes with is the largest of the halves that could   *)
(* be quoted, never one that was refused before or could be larger.        *)
LargestQuotable ==
    \A t \in tried : t.amount = TriedAmount(t.pair)

(* The other way round: a test that fails has a reason in the pool or its  *)
(* snapshot.  The accounts, funds and authorities that the harness makes   *)
(* up, with shared accounts or without, never stand in the way of a swap.  *)
FailMeansDisagreement ==
    verdict = "failed" /\ request.expected_error = None /\ request.swap_mode = "ExactIn" =>
        ~Usable \/ \E pair \in Pairs : ~AgreeOn(pair, TriedAmount(pair))

(* A test that expects an error passes only if, for every pair, the adapter*)
(* refuses half of the table's amount with that error and the program      *)
(* refuses what the adapter settles for.                                   *)
ExpectedErrorIsReal ==
    verdict = "passed" /\ request.expected_error # None =>
        /\ request.expected_error = QuoteFailed
        /\ \A pair \in Pairs :
              /\ ~AdapterResult(pair, InAmount[pair[1]] \div 2).some
              /\ ~(Served(pair) /\ Executable(pair, TriedAmount(pair)))

(* Every test comes to an end, whatever the adapter cannot quote. *)
TestEnds == at # "idle" ~> at = "idle"

================================================================================
