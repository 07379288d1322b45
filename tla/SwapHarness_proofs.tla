---------------------------- MODULE SwapHarness_proofs ----------------------------
(***************************************************************************)
(* A quoting test that passes has compared the adapter with the program on *)
(* every pair of mints, for every curve, every program and every snapshot. *)
(***************************************************************************)
EXTENDS SwapHarness, SwapInstruction_proofs

AB == <<PoolState.token_a_mint, PoolState.token_b_mint>>
BA == <<PoolState.token_b_mint, PoolState.token_a_mint>>

TriedPairs == {t.pair : t \in tried}

(* The instance under test is of the pool. *)
AmmOfPool ==
    /\ amm.state = PoolState
    /\ amm.reserve_mints = AB

(* What a pair is, what is left and what was tried make up all pairs. *)
Progress ==
    \/ pairs = <<AB, BA>> /\ TriedPairs = {}
    \/ pairs = <<BA>> /\ TriedPairs = {AB}
    \/ pairs = <<>> /\ TriedPairs = {AB, BA}

(* A bank is set up only for an ExactIn test on a snapshot that updates.   *)
BankIsSetUp ==
    /\ pairs # <<>>
    /\ request.swap_mode = "ExactIn"
    /\ CanUpdate(from_keyed_account, snapshot.accounts)
    /\ PoolMints \subseteq DOMAIN InAmount
    /\ amm.reserves = <<snapshot.accounts[PoolState.token_a].amount,
                        snapshot.accounts[PoolState.token_b].amount>>
    /\ amount \in U64
    /\ quote_result.ok => quote_result = quote(amm, source_mint, amount)

(* What the program answered is what it makes of the pair. *)
AnswerIsOfPair ==
    executed.ok =>
        /\ Served(Head(pairs))
        /\ Executable(Head(pairs), amount)
        /\ executed.destination_diff =
               ProgramResult(Head(pairs), amount).destination_amount_swapped

TriedAgree ==
    \A t \in tried :
        /\ t.pair \in Pairs
        /\ request.swap_mode = "ExactIn"
        /\ request.expected_error = None => AgreeOn(t.pair, t.amount)

HInv ==
    /\ request \in Requests
    /\ snapshot \in Snapshots
    /\ program \in Programs
    /\ AmmOfPool
    /\ at \in {"idle", "next", "quote", "judge"}
    /\ at # "idle" => Progress /\ verdict = "none"
    /\ at \in {"quote", "judge"} => BankIsSetUp
    /\ at = "quote" => bank = Funded
    /\ at = "judge" => AnswerIsOfPair
    /\ TriedAgree
    /\ verdict = "passed" => TriedPairs = Pairs

(* The pairs are the two orders of the pool's mints. *)
LEMMA PairsOfPool == Pairs = {AB, BA} /\ AB # BA
  /\ get_token_mints_permutations(AB) = <<AB, BA>>
BY HarnessAssumption DEF Pairs, AB, BA, get_token_mints_permutations

LEMMA TestBegins == Init => HInv
<1> SUFFICES ASSUME Init
             PROVE  HInv
  OBVIOUS
<1>1. AmmOfPool
  BY DEF Init, AmmOfPool, from_keyed_account, AB
<1>2. tried = {} /\ at = "idle" /\ verdict = "none"
  BY DEF Init
<1> QED BY <1>1, <1>2 DEF Init, HInv, TriedAgree

LEMMA BeginKeeps == HInv /\ Begin => HInv'
<1> SUFFICES ASSUME HInv, Begin
             PROVE  HInv'
  OBVIOUS
<1>1. AmmOfPool'
  BY DEF Begin, AmmOfPool, from_keyed_account, AB
<1>2. tried' = {} /\ at' = "next" /\ verdict' = "none"
  BY DEF Begin
<1>3. pairs' = <<AB, BA>>
  BY PairsOfPool DEF Begin, from_keyed_account, AB
<1>4. TriedPairs' = {}
  BY <1>2 DEF TriedPairs
<1>5. Progress'
  BY <1>3, <1>4 DEF Progress
<1>6. request' \in Requests /\ snapshot' \in Snapshots /\ program' \in Programs
  BY DEF Begin
<1>7. TriedAgree'
  BY <1>2 DEF TriedAgree
<1> QED BY <1>1, <1>2, <1>5, <1>6, <1>7 DEF HInv

(* A test that is under way has a pair to test. *)
LEMMA HeadIsPair ==
    ASSUME HInv, at # "idle", pairs # <<>>
    PROVE  /\ Head(pairs) \in {AB, BA}
           /\ Head(pairs) \in Pairs
           /\ source_mint = Head(pairs)[1]
           /\ destination_mint = Head(pairs)[2]
<1>1. Progress
  BY DEF HInv
<1>2. Head(pairs) \in {AB, BA}
  <2>1. CASE pairs = <<AB, BA>>
    BY <2>1
  <2>2. CASE pairs = <<BA>>
    BY <2>2
  <2> QED BY <1>1, <2>1, <2>2 DEF Progress
<1> QED BY <1>2, PairsOfPool DEF source_mint, destination_mint

(* A quote is the adapter's result on the vaults of the snapshot. *)
LEMMA QuoteIsAdapterResult ==
    ASSUME HInv, at \in {"quote", "judge"}, quote_result.ok
    PROVE  /\ AdapterResult(Head(pairs), amount).some
           /\ quote_result.out_amount =
                  AdapterResult(Head(pairs), amount).destination_amount_swapped
<1>1. BankIsSetUp /\ AmmOfPool
  BY DEF HInv
<1>2. Head(pairs) \in {AB, BA} /\ source_mint = Head(pairs)[1]
  BY <1>1, HeadIsPair DEF BankIsSetUp
<1>3. /\ quote_result = quote(amm, source_mint, amount)
      /\ amm.reserves[1] = snapshot.accounts[PoolState.token_a].amount
      /\ amm.reserves[2] = snapshot.accounts[PoolState.token_b].amount
      /\ amm.reserve_mints[1] = PoolState.token_a_mint
  BY <1>1 DEF BankIsSetUp, AmmOfPool, AB
<1>4. CASE Head(pairs) = AB
  <2>1. source_mint = PoolState.token_a_mint
    BY <1>2, <1>4 DEF AB
  <2>2. AdapterResult(Head(pairs), amount) =
            CurveSwap(amount, amm.reserves[1], amm.reserves[2], "AtoB")
    BY <1>3, <1>4 DEF AdapterResult, Balance, Vaults, DirectionOf, AB
  <2>3. quote_result = IntoQuote(get_swap_curve_result(amount, amm.reserves[1],
                                                       amm.reserves[2], "AtoB"))
    BY <1>3, <2>1 DEF quote
  <2> QED BY <2>2, <2>3 DEF IntoQuote, get_swap_curve_result, NoQuote
<1>5. CASE Head(pairs) = BA
  <2>1. source_mint # PoolState.token_a_mint
    BY <1>2, <1>5, HarnessAssumption DEF BA
  <2>2. AdapterResult(Head(pairs), amount) =
            CurveSwap(amount, amm.reserves[2], amm.reserves[1], "BtoA")
    BY <1>3, <1>5, HarnessAssumption DEF AdapterResult, Balance, Vaults, DirectionOf, BA
  <2>3. quote_result = IntoQuote(get_swap_curve_result(amount, amm.reserves[2],
                                                       amm.reserves[1], "BtoA"))
    BY <1>3, <2>1 DEF quote
  <2> QED BY <2>2, <2>3 DEF IntoQuote, get_swap_curve_result, NoQuote
<1> QED BY <1>2, <1>4, <1>5

(* A panic ends the test and changes nothing the pairs depend on. *)
LEMMA PanicKeeps ==
    HInv /\ Panic /\ UNCHANGED <<request, snapshot, program>> => HInv'
<1> SUFFICES ASSUME HInv, Panic, UNCHANGED <<request, snapshot, program>>
             PROVE  HInv'
  OBVIOUS
<1>1. /\ at' = "idle" /\ verdict' = "failed"
      /\ UNCHANGED <<amm, tried, request, snapshot, program>>
  BY DEF Panic
<1>2. AmmOfPool'
  BY <1>1 DEF HInv, AmmOfPool
<1>3. TriedAgree'
  BY <1>1 DEF HInv, TriedAgree, AgreeOn, Served, NeededFor, CurvesAgree, AdapterResult,
             ProgramResult, Executable, Balance
<1> QED BY <1>1, <1>2, <1>3 DEF HInv

LEMMA LoadKeeps == HInv /\ LoadProgramTest => HInv'
<1> SUFFICES ASSUME HInv, LoadProgramTest
             PROVE  HInv'
  OBVIOUS
<1>1. UNCHANGED <<request, snapshot, program>>
  BY DEF LoadProgramTest
<1>2. CASE Panic
  BY <1>1, <1>2, PanicKeeps
<1>3. CASE ~Panic
  <2>1. /\ at = "next" /\ pairs # <<>>
        /\ CanUpdate(amm, snapshot.accounts)
        /\ PoolMints \subseteq DOMAIN InAmount
        /\ request.swap_mode = "ExactIn"
        /\ at' = "quote"
        /\ amm' = update(amm, snapshot.accounts)
        /\ bank' = Funded
        /\ amount' = InAmount[source_mint]
        /\ quote_result' = NoQuote
        /\ UNCHANGED <<pairs, verdict, tried>>
    BY <1>3 DEF LoadProgramTest, NoAttempt
  <2>2. AmmOfPool
    BY DEF HInv
  <2>3. amm' = [amm EXCEPT !.reserves = <<snapshot.accounts[PoolState.token_a].amount,
                                          snapshot.accounts[PoolState.token_b].amount>>]
    BY <2>1, <2>2 DEF update, AmmOfPool
  <2>4. AmmOfPool'
    BY <2>2, <2>3 DEF AmmOfPool
  <2>5. amm'.reserves = <<snapshot.accounts[PoolState.token_a].amount,
                          snapshot.accounts[PoolState.token_b].amount>>
    BY <2>3
  <2>6. CanUpdate(from_keyed_account, snapshot.accounts)
    BY <2>1, <2>2 DEF CanUpdate, AmmOfPool, from_keyed_account
  <2>7. source_mint \in PoolMints
    BY <2>1, HeadIsPair DEF AB, BA, PoolMints
  <2>8. amount' \in U64
    BY <2>1, <2>7, HarnessAssumption
  <2>9. BankIsSetUp'
    BY <1>1, <2>1, <2>5, <2>6, <2>8 DEF BankIsSetUp, NoQuote
  <2>10. (bank = Funded)'
    BY <1>1, <2>1 DEF Funded
  <2>11. (Progress /\ verdict = "none")'
    BY <2>1 DEF HInv, Progress, TriedPairs
  <2>12. TriedAgree'
    BY <1>1, <2>1 DEF HInv, TriedAgree, AgreeOn, Served, NeededFor, CurvesAgree, AdapterResult,
             ProgramResult, Executable, Balance
  <2> QED BY <1>1, <2>1, <2>4, <2>9, <2>10, <2>11, <2>12 DEF HInv
<1> QED BY <1>2, <1>3

LEMMA TryKeeps == HInv /\ TryQuote => HInv'
<1> SUFFICES ASSUME HInv, TryQuote
             PROVE  HInv'
  OBVIOUS
<1>1. /\ at = "quote"
      /\ amount' = amount \div 2
      /\ quote_result' = quote(amm, source_mint, amount \div 2)
      /\ UNCHANGED <<at, request, snapshot, program, amm, pairs, bank, verdict, tried>>
  BY DEF TryQuote, AttemptAmount
<1>2. amount' \in U64
  <2>1. amount \in 0 .. MaxU64 /\ MaxU64 \in Nat
    BY <1>1, PoolAssumption DEF HInv, BankIsSetUp, U64
  <2>2. amount \div 2 \in 0 .. MaxU64
    BY <2>1
  <2> QED BY <1>1, <2>2 DEF U64
<1>3. quote_result' = quote(amm, source_mint, amount)'
  BY <1>1 DEF source_mint
<1>4. BankIsSetUp'
  BY <1>1, <1>2, <1>3 DEF HInv, BankIsSetUp
<1>5. (bank = Funded)'
  BY <1>1 DEF HInv, Funded
<1>6. AmmOfPool' /\ Progress'
  BY <1>1 DEF HInv, AmmOfPool, Progress, TriedPairs
<1>7. TriedAgree'
  BY <1>1 DEF HInv, TriedAgree, AgreeOn, Served, NeededFor, CurvesAgree, AdapterResult,
             ProgramResult, Executable, Balance
<1> QED BY <1>1, <1>4, <1>5, <1>6, <1>7 DEF HInv

LEMMA JudgeKeeps == HInv /\ Judge => HInv'
<1> SUFFICES ASSUME HInv, Judge
             PROVE  HInv'
  OBVIOUS
<1>1. UNCHANGED <<request, snapshot, program>>
  BY DEF Judge
<1>2. CASE Panic
  BY <1>1, <1>2, PanicKeeps
<1>3. CASE ~Panic
  <2> DEFINE new == [pair |-> Head(pairs), amount |-> amount]
  <2>1. /\ at = "judge"
        /\ AsItShould
        /\ at' = "next"
        /\ pairs' = Tail(pairs)
        /\ tried' = tried \cup {new}
        /\ UNCHANGED <<amm, verdict>>
    BY <1>3 DEF Judge
  <2>2. /\ BankIsSetUp /\ AnswerIsOfPair /\ Progress /\ TriedAgree
        /\ verdict = "none"
    BY <2>1 DEF HInv
  <2>3. Head(pairs) \in Pairs
    BY <2>1, <2>2, HeadIsPair DEF BankIsSetUp
  <2>4. request.expected_error = None => AgreeOn(Head(pairs), amount)
    <3> SUFFICES ASSUME request.expected_error = None
                 PROVE  AgreeOn(Head(pairs), amount)
      OBVIOUS
    <3>1. /\ executed.ok
          /\ quote_result.ok
          /\ abs(quote_result.out_amount - executed.destination_diff) <= request.tolerance
      BY <2>1 DEF AsItShould
    <3> QED BY <2>1, <2>2, <3>1, QuoteIsAdapterResult DEF AgreeOn, CurvesAgree, AnswerIsOfPair
  <2>5. request.swap_mode = "ExactIn"
    BY <2>2 DEF BankIsSetUp
  <2>6. \A t \in tried' :
            /\ t.pair \in Pairs
            /\ request.expected_error = None => AgreeOn(t.pair, t.amount)
    BY <2>1, <2>2, <2>3, <2>4 DEF TriedAgree
  <2>7. TriedAgree'
    BY <1>1, <2>5, <2>6
       DEF TriedAgree, AgreeOn, Served, NeededFor, CurvesAgree, AdapterResult,
           ProgramResult, Executable, Balance
  <2>8. TriedPairs' = TriedPairs \cup {Head(pairs)}
    <3>1. new.pair = Head(pairs)
      OBVIOUS
    <3> HIDE DEF new
    <3>2. TriedPairs' = {t.pair : t \in tried \cup {new}}
      BY <2>1 DEF TriedPairs
    <3> QED BY <3>1, <3>2 DEF TriedPairs
  <2>9. Progress'
    <3>1. pairs # <<>>
      BY <2>2 DEF BankIsSetUp
    <3>2. CASE pairs = <<AB, BA>> /\ TriedPairs = {}
      <4>1. pairs' = <<BA>> /\ Head(pairs) = AB
        BY <2>1, <3>2
      <4> QED BY <2>8, <3>2, <4>1 DEF Progress
    <3>3. CASE pairs = <<BA>> /\ TriedPairs = {AB}
      <4>1. pairs' = <<>> /\ Head(pairs) = BA
        BY <2>1, <3>3
      <4> QED BY <2>8, <3>3, <4>1 DEF Progress
    <3> QED BY <2>2, <3>1, <3>2, <3>3 DEF Progress
  <2>10. AmmOfPool'
    BY <2>1 DEF HInv, AmmOfPool
  <2> QED BY <1>1, <2>1, <2>2, <2>7, <2>9, <2>10 DEF HInv
<1> QED BY <1>2, <1>3

LEMMA EndKeeps == HInv /\ End => HInv'
<1> SUFFICES ASSUME HInv, End
             PROVE  HInv'
  OBVIOUS
<1>1. /\ at = "next" /\ pairs = <<>> /\ at' = "idle"
      /\ verdict' \in {"passed", "failed"}
      /\ UNCHANGED <<request, snapshot, program, amm, pairs, tried>>
  BY DEF End
<1>2. TriedPairs = Pairs
  BY <1>1, PairsOfPool DEF HInv, Progress
<1>3. TriedPairs' = Pairs'
  BY <1>1, <1>2 DEF TriedPairs, Pairs
<1>4. TriedAgree'
  BY <1>1 DEF HInv, TriedAgree, AgreeOn, Served, NeededFor, CurvesAgree, AdapterResult,
             ProgramResult, Executable, Balance
<1>5. AmmOfPool'
  BY <1>1 DEF HInv, AmmOfPool
<1> QED BY <1>1, <1>3, <1>4, <1>5 DEF HInv

--------------------------------------------------------------------------------
(* What the program reads from the instruction a test sends.               *)

LEMMA ParamsOfTest ==
    ASSUME HInv, at = "quote"
    PROVE  /\ accounts_params \in BuildSwapAccountsParams
           /\ TokenSwapRoles.source \in Keys
           /\ TokenSwapRoles.destination \in Keys
           /\ TokenSwapRoles.user_transfer_authority \in Keys
           /\ source_mint \in PoolMints /\ destination_mint \in PoolMints
<1>1. request \in Requests /\ BankIsSetUp
  BY DEF HInv
<1>2. request.use_shared_accounts \in BOOLEAN /\ request.swap_mode = "ExactIn"
  BY <1>1, HarnessAssumption DEF BankIsSetUp
<1>3. source_mint \in PoolMints /\ destination_mint \in PoolMints
  BY <1>1, HeadIsPair DEF BankIsSetUp, AB, BA, PoolMints
<1>4. source_mint \in Keys /\ destination_mint \in Keys
  BY <1>3, HarnessAssumption, PoolAssumption DEF PoolMints, SwapV1
<1>5. /\ User \in Keys /\ Authority \in Keys /\ Token2022 \in Keys
      /\ \A w \in Wallets, m \in PoolMints : Ata[w][m] \in Keys
  BY HarnessAssumption DEF Wallets
<1>6. /\ Ata[User][source_mint] \in Keys /\ Ata[User][destination_mint] \in Keys
      /\ Ata[Authority][source_mint] \in Keys /\ Ata[Authority][destination_mint] \in Keys
  BY <1>3, <1>5 DEF Wallets
<1>7. /\ source_token_account \in Keys /\ destination_token_account \in Keys
      /\ token_authority \in Keys
  BY <1>5, <1>6 DEF source_token_account, destination_token_account, token_authority
<1>8. accounts_params \in BuildSwapAccountsParams
  BY <1>2, <1>4, <1>5, <1>6, <1>7 DEF accounts_params, BuildSwapAccountsParams, SwapModes
<1>9. /\ TokenSwapRoles.source = source_token_account
      /\ TokenSwapRoles.destination = destination_token_account
      /\ TokenSwapRoles.user_transfer_authority = token_authority
  BY DEF TokenSwapRoles
<1> QED BY <1>3, <1>7, <1>8, <1>9

SentVariant == IF request.use_shared_accounts THEN "SharedAccountsRoute" ELSE "Route"

(* The pool's accounts, each where TokenSwap lists it. *)
LEMMA PoolMetas ==
    ASSUME HInv, at = "quote"
    PROVE  /\ swap_metas \in Seq(AccountMeta(AccountKeys))
           /\ Len(swap_metas) = 11
           /\ \A i \in 1 .. 11 :
                 /\ swap_metas[i].pubkey = TokenSwapRoles[TokenSwap[i]]
                 /\ swap_metas[i].is_writable = (TokenSwap[i] \notin TokenSwapReadonly)
<1>1. DOMAIN TokenSwap = 1 .. 11
  BY DEF TokenSwap
<1>2. swap_metas = [i \in 1 .. 11 |->
                       [pubkey |-> TokenSwapRoles[TokenSwap[i]],
                        is_writable |-> TokenSwap[i] \notin TokenSwapReadonly]]
  BY <1>1 DEF swap_metas
<1>3. /\ TokenSwapRoles.swap_source \in Keys
      /\ TokenSwapRoles.swap_destination \in Keys
  <2>1. amm.state \in SwapV1
    BY PoolAssumption DEF HInv, AmmOfPool
  <2>2. amm.state.token_a \in Keys /\ amm.state.token_b \in Keys
    BY <2>1, HarnessAssumption DEF SwapV1
  <2> QED BY <2>2 DEF TokenSwapRoles, get_swap_and_account_metas
<1>4. /\ TokenSwapRoles.token_swap_program \in Keys
      /\ TokenSwapRoles.swap \in Keys
      /\ TokenSwapRoles.authority \in Keys
      /\ TokenSwapRoles.pool_mint \in Keys
      /\ TokenSwapRoles.pool_fee \in Keys
  BY HarnessAssumption DEF TokenSwapRoles
<1>5. TokenSwapRoles.token_program = SplToken
  BY DEF TokenSwapRoles
<1>6. \A i \in 1 .. 11 : TokenSwapRoles[TokenSwap[i]] \in AccountKeys
  BY <1>3, <1>4, <1>5, ParamsOfTest DEF TokenSwap, AccountKeys
<1>7. swap_metas \in [1 .. 11 -> AccountMeta(AccountKeys)]
  BY <1>2, <1>6 DEF AccountMeta
<1>8. \A i \in 1 .. 11 :
          /\ swap_metas[i].pubkey = TokenSwapRoles[TokenSwap[i]]
          /\ swap_metas[i].is_writable = (TokenSwap[i] \notin TokenSwapReadonly)
  BY <1>2
<1>9. swap_metas \in Seq(AccountMeta(AccountKeys)) /\ Len(swap_metas) = 11
  <2> DEFINE Meta == AccountMeta(AccountKeys)
  <2>1. swap_metas \in [1 .. 11 -> Meta]
    BY <1>7
  <2> HIDE DEF Meta
  <2>2. swap_metas \in Seq(Meta) /\ Len(swap_metas) = 11
    BY <2>1, FunctionIsSeq
  <2> QED BY <2>2 DEF Meta
<1> QED BY <1>8, <1>9

LEMMA SentInstruction ==
    ASSUME HInv, at = "quote"
    PROVE  /\ swap_ix.data.variant = SentVariant
           /\ IsShared(swap_ix) <=> request.use_shared_accounts
           /\ request.use_shared_accounts \in BOOLEAN
           /\ Offered(swap_ix) = amount
           /\ SentVariant \in VariantNames
           /\ IsJoined(swap_ix.accounts, SentVariant, Roles(accounts_params), swap_metas)
<1>1. request.swap_mode = "ExactIn" /\ request.use_shared_accounts \in BOOLEAN
  BY HarnessAssumption DEF HInv, BankIsSetUp
<1>2. DataVariant(data_params) = SentVariant
  BY <1>1 DEF DataVariant, data_params, SentVariant
<1>3. AccountsVariant(accounts_params) = SentVariant
  BY <1>1 DEF AccountsVariant, accounts_params, SentVariant
<1>4. SentVariant \in VariantNames /\ SentVariant # "Refused"
  BY DEF SentVariant, VariantNames
<1>5. swap_ix.accounts = to_account_metas(SentVariant, Roles(accounts_params)) \o swap_metas
  BY <1>3, <1>4 DEF swap_ix, build_swap_accounts
<1>6. IsJoined(swap_ix.accounts, SentVariant, Roles(accounts_params), swap_metas)
  <2>1. Roles(accounts_params) \in [Names -> AccountKeys]
    BY ParamsOfTest, RolesOfRequest
  <2>2. swap_metas \in Seq(AccountMeta(AccountKeys))
    BY PoolMetas
  <2> QED BY <1>4, <1>5, <2>1, <2>2, MetasJoined
<1>7. /\ swap_ix.data.variant = SentVariant
      /\ swap_ix.data.amount = [field \in {"in_amount"} |-> amount]
  BY <1>2 DEF swap_ix, build_swap_instruction_data, data_params, AmountField, SentVariant
<1>8. Offered(swap_ix) = amount
  BY <1>7 DEF Offered
<1>9. IsShared(swap_ix) <=> request.use_shared_accounts
  BY <1>7 DEF IsShared, SentVariant
<1> QED BY <1>1, <1>4, <1>6, <1>7, <1>8, <1>9

(* The mints an instruction lists: the one paid out, and with shared       *)
(* accounts the one paid in as well.                                       *)
LEMMA MintsListed ==
    /\ ReadByJupiter("Route") = {"destination_mint"}
    /\ ReadByJupiter("SharedAccountsRoute") = {"source_mint", "destination_mint"}
<1>1. "Route" \in VariantNames /\ "SharedAccountsRoute" \in VariantNames
  BY DEF VariantNames
<1>2. Lists("Route", "destination_mint")
  <2>1. 6 \in 1 .. Size("Route") /\ IdlAccounts["Route"][6] = "destination_mint"
    BY DEF IdlAccounts, Size
  <2> QED BY <1>1, <2>1, ListsIndex
<1>3. ~Lists("Route", "source_mint")
  BY <1>1, ListsOfNames DEF Lists, IdlAccounts, Size
<1>4. Lists("SharedAccountsRoute", "source_mint")
  <2>1. /\ 8 \in 1 .. Size("SharedAccountsRoute")
        /\ IdlAccounts["SharedAccountsRoute"][8] = "source_mint"
    BY DEF IdlAccounts, Size
  <2> QED BY <1>1, <2>1, ListsIndex
<1>5. Lists("SharedAccountsRoute", "destination_mint")
  <2>1. /\ 9 \in 1 .. Size("SharedAccountsRoute")
        /\ IdlAccounts["SharedAccountsRoute"][9] = "destination_mint"
    BY DEF IdlAccounts, Size
  <2> QED BY <1>1, <2>1, ListsIndex
<1> QED BY <1>2, <1>3, <1>4, <1>5 DEF ReadByJupiter

(* The program's part of the accounts. *)
LEMMA ProgramsPart ==
    ASSUME HInv, at = "quote"
    PROVE  /\ Payer(swap_ix) = Ata[User][source_mint]
           /\ Accepted(swap_ix)
           /\ Reads(swap_ix, "user_transfer_authority") = User
           /\ {Reads(swap_ix, role) : role \in ReadByJupiter(SentVariant)} =
                  {destination_mint}
                      \cup (IF request.use_shared_accounts THEN {source_mint} ELSE {})
           /\ request.use_shared_accounts =>
                 /\ Reads(swap_ix, "program_authority") = Authority
                 /\ Reads(swap_ix, "program_source_token_account") = source_token_account
                 /\ Reads(swap_ix, "program_destination_token_account") =
                        destination_token_account
                 /\ Reads(swap_ix, "destination_token_account") = Ata[User][destination_mint]
<1>1. ReadsAsPut(swap_ix, SentVariant, Roles(accounts_params))
  BY SentInstruction, ListedIsRead
<1>2. \A role \in ListedRoles(SentVariant) :
          Reads(swap_ix, role) = Roles(accounts_params)[role]
  BY <1>1, SentInstruction, KindLists DEF ReadsAsPut
<1>3. /\ Roles(accounts_params)["event_authority"] = EventAuthority
      /\ Roles(accounts_params)["user_transfer_authority"] = User
      /\ Roles(accounts_params)["program_authority"] = Authority
      /\ Roles(accounts_params)["source_token_account"] = Ata[User][source_mint]
      /\ Roles(accounts_params)["user_source_token_account"] = Ata[User][source_mint]
      /\ Roles(accounts_params)["program_source_token_account"] = source_token_account
      /\ Roles(accounts_params)["program_destination_token_account"] =
             destination_token_account
      /\ Roles(accounts_params)["destination_token_account"] = Ata[User][destination_mint]
      /\ Roles(accounts_params)["source_mint"] = source_mint
      /\ Roles(accounts_params)["destination_mint"] = destination_mint
  BY DEF Roles, accounts_params, unwrap_or
<1>4. \A role \in ReadByJupiter(SentVariant) :
          Reads(swap_ix, role) = Roles(accounts_params)[role]
  BY <1>1 DEF ReadByJupiter, ReadsAsPut
<1>5. {Reads(swap_ix, role) : role \in ReadByJupiter(SentVariant)} =
          {Roles(accounts_params)[role] : role \in ReadByJupiter(SentVariant)}
  BY <1>4
<1>6. ReadByJupiter(SentVariant) =
          {"destination_mint"}
              \cup (IF request.use_shared_accounts THEN {"source_mint"} ELSE {})
  BY MintsListed DEF SentVariant
<1>7. {Reads(swap_ix, role) : role \in ReadByJupiter(SentVariant)} =
          {destination_mint}
              \cup (IF request.use_shared_accounts THEN {source_mint} ELSE {})
  BY <1>3, <1>5, <1>6
<1>8. CASE request.use_shared_accounts
  <2>1. IsShared(swap_ix) /\ Shared(SentVariant)
    BY <1>8, SentInstruction DEF SentVariant, Shared
  <2> QED BY <1>2, <1>3, <1>7, <2>1 DEF Payer, ListedRoles, Accepted
<1>9. CASE ~request.use_shared_accounts
  <2>1. ~IsShared(swap_ix) /\ ~Shared(SentVariant)
    BY <1>9, SentInstruction DEF SentVariant, Shared
  <2> QED BY <1>2, <1>3, <1>9, <1>7, <2>1 DEF Payer, ListedRoles, Accepted
<1> QED BY <1>8, <1>9

(* The pool's part. *)
LEMMA PoolsPart ==
    ASSUME HInv, at = "quote"
    PROVE  /\ PoolRole(swap_ix, "source") = source_token_account
           /\ PoolRole(swap_ix, "destination") = destination_token_account
           /\ PoolRole(swap_ix, "swap_source") = TokenSwapRoles.swap_source
           /\ PoolRole(swap_ix, "swap_destination") = TokenSwapRoles.swap_destination
           /\ PoolRole(swap_ix, "user_transfer_authority") = token_authority
           /\ \A role \in ReadByPool : PoolRole(swap_ix, role) = PoolKeys[role]
<1> DEFINE place(role) == CHOOSE i \in DOMAIN TokenSwap : TokenSwap[i] = role
<1>1. \A role : (\E i \in 1 .. 11 : TokenSwap[i] = role) =>
          place(role) \in 1 .. 11 /\ TokenSwap[place(role)] = role
  <2>1. DOMAIN TokenSwap = 1 .. 11
    BY DEF TokenSwap
  <2> QED BY <2>1
<1> HIDE DEF place
<1>2. \A role : (\E i \in 1 .. 11 : TokenSwap[i] = role) =>
          PoolRole(swap_ix, role) = TokenSwapRoles[role]
  <2> SUFFICES ASSUME NEW role, \E i \in 1 .. 11 : TokenSwap[i] = role
               PROVE  PoolRole(swap_ix, role) = TokenSwapRoles[role]
    OBVIOUS
  <2>1. place(role) \in 1 .. 11 /\ TokenSwap[place(role)] = role
    BY <1>1
  <2>2. /\ Len(IdlAccounts[swap_ix.data.variant]) = Size(SentVariant)
        /\ Size(SentVariant) \in Nat
    <3>1. swap_ix.data.variant = SentVariant /\ SentVariant \in VariantNames
      BY SentInstruction
    <3>2. \A v \in VariantNames : Len(IdlAccounts[v]) = Size(v)
      BY ListsOfNames
    <3>3. \A v \in VariantNames : Size(v) \in Nat
      BY DEF Size, VariantNames
    <3> QED BY <3>1, <3>2, <3>3
  <2>3. /\ DOMAIN swap_ix.accounts = 1 .. Size(SentVariant) + 11
        /\ \A i \in 1 .. 11 : swap_ix.accounts[Size(SentVariant) + i] = swap_metas[i]
    BY SentInstruction, PoolMetas DEF IsJoined
  <2>4. Size(SentVariant) + place(role) \in DOMAIN swap_ix.accounts
    <3>1. \A n \in Nat, k \in 1 .. 11 : n + k \in 1 .. n + 11
      OBVIOUS
    <3> QED BY <2>1, <2>2, <2>3, <3>1
  <2>5. swap_ix.accounts[Size(SentVariant) + place(role)].pubkey = TokenSwapRoles[role]
    BY <2>1, <2>3, PoolMetas
  <2>6. PoolRole(swap_ix, role) =
            ReadAt(swap_ix, Len(IdlAccounts[swap_ix.data.variant]) + place(role))
    BY DEF PoolRole, place
  <2> QED BY <2>2, <2>4, <2>5, <2>6 DEF ReadAt
<1>3. /\ TokenSwap[5] = "user_transfer_authority"
      /\ TokenSwap[6] = "source" /\ TokenSwap[7] = "swap_source"
      /\ TokenSwap[8] = "swap_destination" /\ TokenSwap[9] = "destination"
      /\ TokenSwap[3] = "swap" /\ TokenSwap[10] = "pool_mint" /\ TokenSwap[11] = "pool_fee"
  BY DEF TokenSwap
<1>4. /\ TokenSwapRoles["source"] = source_token_account
      /\ TokenSwapRoles["destination"] = destination_token_account
      /\ TokenSwapRoles["user_transfer_authority"] = token_authority
      /\ \A role \in ReadByPool : TokenSwapRoles[role] = PoolKeys[role]
  BY DEF TokenSwapRoles, ReadByPool
<1>5. \A role \in ReadByPool : PoolRole(swap_ix, role) = PoolKeys[role]
  BY <1>2, <1>3, <1>4 DEF ReadByPool
<1> QED BY <1>2, <1>3, <1>4, <1>5

(* What a transaction needs is what its pair needs. *)
LEMMA RequiredIsNeeded ==
    ASSUME HInv, at = "quote"
    PROVE  Required(swap_ix) = NeededFor(Head(pairs))
<1>1. swap_ix.data.variant = SentVariant
  BY SentInstruction
<1>2. {PoolRole(swap_ix, role) : role \in ReadByPool} = {PoolKeys[role] : role \in ReadByPool}
  BY PoolsPart
<1>3. source_mint = Head(pairs)[1] /\ destination_mint = Head(pairs)[2]
  BY DEF source_mint, destination_mint
<1>4. {Reads(swap_ix, role) : role \in ReadByJupiter(SentVariant)} =
          {destination_mint}
              \cup (IF request.use_shared_accounts THEN {source_mint} ELSE {})
  BY ProgramsPart
<1> QED BY <1>1, <1>2, <1>3, <1>4 DEF Required, NeededFor

--------------------------------------------------------------------------------
(* What the bank answers.                                                  *)

IsTransfer(D, f, g, from, to, x) ==
    /\ g \in [D -> Int]
    /\ g[from] = f[from] - x
    /\ g[to] = f[to] + x
    /\ \A z \in D : z # from /\ z # to => g[z] = f[z]

LEMMA TransferMoves ==
    ASSUME NEW D, NEW f \in [D -> Int], NEW from \in D, NEW to \in D,
           NEW x \in Int, from # to
    PROVE  IsTransfer(D, f, Transfer(f, from, to, x), from, to, x)
BY DEF Transfer, IsTransfer

(* The token accounts of the wallets and the vaults are all different. *)
LEMMA AccountsDiffer ==
    /\ \A w \in Wallets, m \in PoolMints :
          /\ Ata[w][m] \in TokenAccounts
          /\ Ata[w][m] # PoolState.token_a
          /\ Ata[w][m] # PoolState.token_b
    /\ \A w, u \in Wallets, m, n \in PoolMints : Ata[w][m] = Ata[u][n] => w = u /\ m = n
    /\ {PoolState.token_a, PoolState.token_b} \subseteq TokenAccounts
    /\ PoolState.token_a # PoolState.token_b
<1>1. \A w \in Wallets, m \in PoolMints :
          Ata[w][m] \in Keys \ {PoolState.token_a, PoolState.token_b}
  BY HarnessAssumption DEF PoolVaults
<1>2. \A w, u \in Wallets, m, n \in PoolMints : Ata[w][m] = Ata[u][n] => w = u /\ m = n
  BY HarnessAssumption
<1>3. \A w \in Wallets, m \in PoolMints : Ata[w][m] \in TokenAccounts
  BY DEF TokenAccounts
<1> QED BY <1>1, <1>2, <1>3, PoolAssumption DEF TokenAccounts, PoolVaults

(* Every account is of one mint, and whose it is is plain. *)
LEMMA MintsOfAccounts ==
    /\ \A w \in Wallets, m \in PoolMints : MintOf(Ata[w][m]) = m
    /\ MintOf(PoolState.token_a) = PoolState.token_a_mint
    /\ MintOf(PoolState.token_b) = PoolState.token_b_mint
    /\ \A a \in TokenAccounts : MintOf(a) \in PoolMints
<1>1. \A w \in Wallets, m \in PoolMints : MintOf(Ata[w][m]) = m
  <2> SUFFICES ASSUME NEW w \in Wallets, NEW m \in PoolMints
               PROVE  MintOf(Ata[w][m]) = m
    OBVIOUS
  <2> DEFINE a == Ata[w][m]
             mint == CHOOSE n \in PoolMints : \E u \in Wallets : a = Ata[u][n]
  <2>1. MintOf(a) = mint
    BY AccountsDiffer DEF MintOf
  <2>2. mint \in PoolMints /\ \E u \in Wallets : a = Ata[u][mint]
    OBVIOUS
  <2> QED BY <2>1, <2>2, AccountsDiffer
<1>2. /\ MintOf(PoolState.token_a) = PoolState.token_a_mint
      /\ MintOf(PoolState.token_b) = PoolState.token_b_mint
  BY PoolAssumption DEF MintOf
<1>3. \A a \in TokenAccounts :
          a \in PoolVaults \/ \E w \in Wallets, m \in PoolMints : a = Ata[w][m]
  BY DEF TokenAccounts
<1> QED BY <1>1, <1>2, <1>3 DEF PoolVaults, PoolMints

(* A funded bank: the vaults hold what the snapshot has, the wallets eleven *)
(* times the amount of the table.                                           *)
LEMMA FundedBank ==
    ASSUME snapshot \in Snapshots, PoolMints \subseteq DOMAIN InAmount,
           CanUpdate(from_keyed_account, snapshot.accounts)
    PROVE  /\ Funded \in [TokenAccounts -> Nat]
           /\ \A w \in Wallets, m \in PoolMints :
                 Funded[Ata[w][m]] = (InAmount[m] * 110) \div 10
           /\ \A m \in PoolMints : InAmount[m] \in U64
           /\ \A vault \in PoolVaults :
                 /\ Funded[vault] = snapshot.accounts[vault].amount
                 /\ Funded[vault] \in U64
<1>1. snapshot.accounts \in AccountMap
  BY HarnessAssumption
<1>2. PICK S \in SUBSET Addresses : snapshot.accounts \in [S -> VaultAccount]
  BY <1>1 DEF AccountMap
<1>3. \A a \in DOMAIN snapshot.accounts : snapshot.accounts[a].amount \in U64
  BY <1>2 DEF VaultAccount
<1>4. \A vault \in PoolVaults : vault \in DOMAIN snapshot.accounts
  BY DEF CanUpdate, IsTokenAccount, from_keyed_account, PoolVaults
<1>5. /\ \A w \in Wallets, m \in PoolMints : MintOf(Ata[w][m]) = m
      /\ \A a \in TokenAccounts : MintOf(a) \in PoolMints
  BY MintsOfAccounts
<1>6. \A m \in PoolMints : InAmount[m] \in U64
  BY HarnessAssumption
<1>7. \A n \in U64 : n \in Nat /\ (n * 110) \div 10 \in Nat
  <2>1. U64 \subseteq Nat
    BY PoolAssumption DEF U64
  <2>2. \A n \in Nat : (n * 110) \div 10 \in Nat
    OBVIOUS
  <2> QED BY <2>1, <2>2
<1>8. \A a \in TokenAccounts :
          (IF a \in PoolVaults THEN snapshot.accounts[a].amount
           ELSE (InAmount[MintOf(a)] * 110) \div 10) \in Nat
  BY <1>3, <1>4, <1>5, <1>6, <1>7
<1>9. Funded \in [TokenAccounts -> Nat]
  BY <1>8 DEF Funded
<1>10. \A w \in Wallets, m \in PoolMints :
           Funded[Ata[w][m]] = (InAmount[m] * 110) \div 10
  BY <1>5, AccountsDiffer DEF Funded, PoolVaults
<1>11. \A vault \in PoolVaults : Funded[vault] = snapshot.accounts[vault].amount
  BY AccountsDiffer DEF Funded, PoolVaults
<1> QED BY <1>3, <1>4, <1>6, <1>9, <1>10, <1>11

LEMMA BankOfTest ==
    ASSUME HInv, at = "quote"
    PROVE  /\ bank \in [TokenAccounts -> Nat]
           /\ \A w \in Wallets, m \in PoolMints :
                 bank[Ata[w][m]] = (InAmount[m] * 110) \div 10
           /\ \A m \in PoolMints : InAmount[m] \in U64
           /\ bank[PoolState.token_a] = snapshot.accounts[PoolState.token_a].amount
           /\ bank[PoolState.token_b] = snapshot.accounts[PoolState.token_b].amount
           /\ bank[PoolState.token_a] \in U64
           /\ bank[PoolState.token_b] \in U64
<1>1. /\ bank = Funded /\ BankIsSetUp /\ snapshot \in Snapshots
  BY DEF HInv
<1> QED BY <1>1, FundedBank DEF BankIsSetUp, PoolVaults

(* The pool's part of a transaction is a swap of the pair, between the     *)
(* vaults of the pool.                                                     *)
LEMMA PoolSwapsPair ==
    ASSUME HInv, at = "quote"
    PROVE  /\ PoolSwap(swap_ix) = ProgramResult(Head(pairs), amount)
           /\ PoolSwap(swap_ix) \in CurveResults
           /\ PoolSwap(swap_ix).some =>
                 /\ PoolSwap(swap_ix).source_amount_swapped <= amount
                 /\ PoolSwap(swap_ix).destination_amount_swapped
                        <= bank[TokenSwapRoles.swap_destination]
           /\ bank[TokenSwapRoles.swap_source] = Balance(Head(pairs), 1)
           /\ \/ /\ TokenSwapRoles.swap_source = PoolState.token_a
                 /\ TokenSwapRoles.swap_destination = PoolState.token_b
              \/ /\ TokenSwapRoles.swap_source = PoolState.token_b
                 /\ TokenSwapRoles.swap_destination = PoolState.token_a
<1> DEFINE pair == Head(pairs)
           vault_in == TokenSwapRoles.swap_source
           vault_out == TokenSwapRoles.swap_destination
<1>1. /\ BankIsSetUp /\ AmmOfPool /\ program \in Programs
      /\ pair \in {AB, BA} /\ source_mint = pair[1]
  BY HeadIsPair DEF HInv, BankIsSetUp
<1>2. PoolSwap(swap_ix) =
          ProgramSwap(program, amount, bank[vault_in], bank[vault_out],
                      IF vault_in = PoolState.token_a THEN "AtoB" ELSE "BtoA")
  BY PoolsPart, SentInstruction DEF PoolSwap
<1>3. /\ vault_in = get_swap_and_account_metas(amm, source_mint).swap_source
      /\ vault_out = get_swap_and_account_metas(amm, source_mint).swap_destination
  BY DEF TokenSwapRoles
<1> HIDE DEF vault_in, vault_out
<1>4. CASE pair = AB
  <2>1. vault_in = PoolState.token_a /\ vault_out = PoolState.token_b
    BY <1>1, <1>3, <1>4 DEF get_swap_and_account_metas, AmmOfPool, AB
  <2>2. Balance(pair, 1) = bank[vault_in] /\ Balance(pair, 2) = bank[vault_out]
    BY <1>4, <2>1, BankOfTest DEF Balance, Vaults, AB
  <2>3. DirectionOf(pair) = "AtoB"
    BY <1>4 DEF DirectionOf, AB
  <2>4. PoolSwap(swap_ix) = ProgramResult(pair, amount)
    BY <1>2, <2>1, <2>2, <2>3 DEF ProgramResult
  <2>5. bank[vault_in] \in U64 /\ bank[vault_out] \in U64
    BY <2>1, BankOfTest
  <2>6. /\ PoolSwap(swap_ix) \in CurveResults
        /\ PoolSwap(swap_ix).some =>
              /\ PoolSwap(swap_ix).source_amount_swapped <= amount
              /\ PoolSwap(swap_ix).destination_amount_swapped <= bank[vault_out]
    BY <1>1, <1>2, <2>1, <2>5, ProgramAssumption DEF BankIsSetUp, Directions
  <2> QED BY <2>1, <2>2, <2>4, <2>6 DEF vault_in, vault_out
<1>5. CASE pair = BA
  <2>1. vault_in = PoolState.token_b /\ vault_out = PoolState.token_a
    BY <1>1, <1>3, <1>5, HarnessAssumption DEF get_swap_and_account_metas, AmmOfPool, BA
  <2>2. Balance(pair, 1) = bank[vault_in] /\ Balance(pair, 2) = bank[vault_out]
    BY <1>5, <2>1, BankOfTest, HarnessAssumption DEF Balance, Vaults, BA
  <2>3. DirectionOf(pair) = "BtoA" /\ vault_in # PoolState.token_a
    BY <1>5, <2>1, HarnessAssumption, PoolAssumption DEF DirectionOf, BA
  <2>4. PoolSwap(swap_ix) = ProgramResult(pair, amount)
    BY <1>2, <2>2, <2>3 DEF ProgramResult
  <2>5. bank[vault_in] \in U64 /\ bank[vault_out] \in U64
    BY <2>1, BankOfTest
  <2>6. /\ PoolSwap(swap_ix) \in CurveResults
        /\ PoolSwap(swap_ix).some =>
              /\ PoolSwap(swap_ix).source_amount_swapped <= amount
              /\ PoolSwap(swap_ix).destination_amount_swapped <= bank[vault_out]
    BY <1>1, <1>2, <2>3, <2>5, ProgramAssumption DEF BankIsSetUp, Directions
  <2> QED BY <2>1, <2>2, <2>4, <2>6 DEF vault_in, vault_out
<1> QED BY <1>1, <1>4, <1>5

(* What a transaction makes of the balances: the vaults take what the pool *)
(* takes and pay what it pays, the user receives that, and with shared     *)
(* accounts the program keeps what the user offered and the pool did not   *)
(* take.                                                                   *)
LEMMA SettledBank ==
    ASSUME HInv, at = "quote"
    PROVE  LET r == PoolSwap(swap_ix)
               x == r.source_amount_swapped
               y == r.destination_amount_swapped
               in == TokenSwapRoles.swap_source
               out == TokenSwapRoles.swap_destination
               us == Ata[User][source_mint]
               ud == Ata[User][destination_mint]
               ps == Ata[Authority][source_mint]
               pd == Ata[Authority][destination_mint]
               spent == IF request.use_shared_accounts THEN amount ELSE x
           IN  /\ Settled(swap_ix) \in [TokenAccounts -> Int]
               /\ TokenAccounts = {us, ud, ps, pd, in, out}
               /\ Settled(swap_ix)[us] = bank[us] - spent
               /\ Settled(swap_ix)[ud] = bank[ud] + y
               /\ Settled(swap_ix)[ps] = bank[ps] + (spent - x)
               /\ Settled(swap_ix)[pd] = bank[pd]
               /\ Settled(swap_ix)[in] = bank[in] + x
               /\ Settled(swap_ix)[out] = bank[out] - y
<1> DEFINE r == PoolSwap(swap_ix)
           x == r.source_amount_swapped
           y == r.destination_amount_swapped
           in == TokenSwapRoles.swap_source
           out == TokenSwapRoles.swap_destination
           us == Ata[User][source_mint]
           ud == Ata[User][destination_mint]
           ps == Ata[Authority][source_mint]
           pd == Ata[Authority][destination_mint]
           spent == IF request.use_shared_accounts THEN amount ELSE x
           Moved(g) == /\ g \in [TokenAccounts -> Int]
                       /\ g[us] = bank[us] - spent
                       /\ g[ud] = bank[ud] + y
                       /\ g[ps] = bank[ps] + (spent - x)
                       /\ g[pd] = bank[pd]
                       /\ g[in] = bank[in] + x
                       /\ g[out] = bank[out] - y
<1>1. x \in Int /\ y \in Int /\ amount \in Int
  BY PoolSwapsPair, PoolAssumption DEF CurveResults, HInv, BankIsSetUp, U64
<1>2. /\ source_mint \in PoolMints /\ destination_mint \in PoolMints
      /\ source_mint # destination_mint
  BY ParamsOfTest, HeadIsPair, HarnessAssumption DEF HInv, BankIsSetUp, AB, BA
<1>3. User \in Wallets /\ Authority \in Wallets /\ User # Authority
  BY HarnessAssumption DEF Wallets
<1>4. /\ us # ud /\ us # ps /\ us # pd /\ ud # ps /\ ud # pd /\ ps # pd
      /\ in \notin {us, ud, ps, pd} /\ out \notin {us, ud, ps, pd} /\ in # out
  BY <1>2, <1>3, AccountsDiffer, PoolSwapsPair
<1>5. TokenAccounts = {us, ud, ps, pd, in, out}
  <2>1. PoolMints = {source_mint, destination_mint}
    BY <1>2 DEF PoolMints
  <2>2. PoolVaults = {in, out}
    BY PoolSwapsPair DEF PoolVaults
  <2>3. {Ata[w][m] : w \in Wallets, m \in PoolMints} = {us, ud, ps, pd}
    BY <2>1 DEF Wallets
  <2> QED BY <2>2, <2>3 DEF TokenAccounts
<1>6. /\ {us, ud, ps, pd, in, out} \subseteq TokenAccounts
      /\ bank \in [TokenAccounts -> Int]
  BY <1>5, BankOfTest
<1>7. /\ PoolRole(swap_ix, "source") = source_token_account
      /\ PoolRole(swap_ix, "destination") = destination_token_account
      /\ PoolRole(swap_ix, "swap_source") = in
      /\ PoolRole(swap_ix, "swap_destination") = out
      /\ Offered(swap_ix) = amount
      /\ Payer(swap_ix) = us
      /\ IsShared(swap_ix) <=> request.use_shared_accounts
  BY PoolsPart, ProgramsPart, SentInstruction
<1> HIDE DEF r, x, y, in, out, us, ud, ps, pd
<1>8. CASE request.use_shared_accounts
  <2> DEFINE paid == Transfer(bank, us, ps, amount)
             sold == Transfer(paid, ps, in, x)
             swapped == Transfer(sold, out, pd, y)
             settled == Transfer(swapped, pd, ud, y)
  <2>1. /\ source_token_account = ps /\ destination_token_account = pd
        /\ Reads(swap_ix, "program_source_token_account") = ps
        /\ Reads(swap_ix, "program_destination_token_account") = pd
        /\ Reads(swap_ix, "destination_token_account") = ud
    BY <1>8, ProgramsPart
       DEF source_token_account, destination_token_account, OwnAccount, TOKEN2022_MINTS,
           ps, pd, ud
  <2>2. Settled(swap_ix) = settled
    BY <1>7, <1>8, <2>1 DEF Settled, r, x, y
  <2>3. IsTransfer(TokenAccounts, bank, paid, us, ps, amount)
    BY <1>1, <1>4, <1>6, TransferMoves
  <2> HIDE DEF paid
  <2>4. IsTransfer(TokenAccounts, paid, sold, ps, in, x)
    <3>1. paid \in [TokenAccounts -> Int]
      BY <2>3 DEF IsTransfer
    <3> QED BY <1>1, <1>4, <1>6, <3>1, TransferMoves
  <2> HIDE DEF sold
  <2>5. IsTransfer(TokenAccounts, sold, swapped, out, pd, y)
    <3>1. sold \in [TokenAccounts -> Int]
      BY <2>4 DEF IsTransfer
    <3> QED BY <1>1, <1>4, <1>6, <3>1, TransferMoves
  <2> HIDE DEF swapped
  <2>6. IsTransfer(TokenAccounts, swapped, settled, pd, ud, y)
    <3>1. swapped \in [TokenAccounts -> Int]
      BY <2>5 DEF IsTransfer
    <3> QED BY <1>1, <1>4, <1>6, <3>1, TransferMoves
  <2> HIDE DEF settled
  <2>7. /\ settled[us] = bank[us] - amount
        /\ settled[ud] = bank[ud] + y
        /\ settled[in] = bank[in] + x
        /\ settled[out] = bank[out] - y
    BY <1>4, <1>6, <2>3, <2>4, <2>5, <2>6 DEF IsTransfer
  <2>8. bank[ps] \in Int /\ bank[pd] \in Int
    BY <1>6
  <2>9. /\ settled[ps] = bank[ps] + (amount - x)
        /\ settled[pd] = bank[pd]
    <3>1. paid[ps] = bank[ps] + amount /\ paid[pd] = bank[pd]
      BY <1>4, <1>6, <2>3 DEF IsTransfer
    <3>2. sold[ps] = paid[ps] - x /\ sold[pd] = paid[pd]
      BY <1>4, <1>6, <2>4 DEF IsTransfer
    <3>3. swapped[ps] = sold[ps] /\ swapped[pd] = sold[pd] + y
      BY <1>4, <1>6, <2>5 DEF IsTransfer
    <3>4. settled[ps] = swapped[ps] /\ settled[pd] = swapped[pd] - y
      BY <1>4, <1>6, <2>6 DEF IsTransfer
    <3> QED BY <1>1, <2>8, <3>1, <3>2, <3>3, <3>4
  <2>10. settled \in [TokenAccounts -> Int]
    BY <2>6 DEF IsTransfer
  <2>11. Moved(settled)
    BY <1>8, <2>7, <2>9, <2>10
  <2> QED BY <1>5, <2>2, <2>11 DEF r, x, y, in, out, us, ud, ps, pd
<1>9. CASE ~request.use_shared_accounts
  <2> DEFINE sold == Transfer(bank, us, in, x)
             swapped == Transfer(sold, out, ud, y)
  <2>1. source_token_account = us /\ destination_token_account = ud
    BY <1>9 DEF source_token_account, destination_token_account, OwnAccount, us, ud
  <2>2. Settled(swap_ix) = swapped
    BY <1>7, <1>9, <2>1 DEF Settled, r, x, y
  <2>3. IsTransfer(TokenAccounts, bank, sold, us, in, x)
    BY <1>1, <1>4, <1>6, TransferMoves
  <2> HIDE DEF sold
  <2>4. IsTransfer(TokenAccounts, sold, swapped, out, ud, y)
    <3>1. sold \in [TokenAccounts -> Int]
      BY <2>3 DEF IsTransfer
    <3> QED BY <1>1, <1>4, <1>6, <3>1, TransferMoves
  <2> HIDE DEF swapped
  <2>5. /\ swapped[us] = bank[us] - x
        /\ swapped[ud] = bank[ud] + y
        /\ swapped[in] = bank[in] + x
        /\ swapped[out] = bank[out] - y
        /\ swapped[ps] = bank[ps] /\ bank[ps] \in Int
        /\ swapped[pd] = bank[pd]
        /\ swapped \in [TokenAccounts -> Int]
    BY <1>4, <1>6, <2>3, <2>4 DEF IsTransfer
  <2>6. bank[ps] = bank[ps] + (x - x)
    BY <1>1, <2>5
  <2>7. Moved(swapped)
    BY <1>9, <2>5, <2>6
  <2> QED BY <1>5, <2>2, <2>7 DEF r, x, y, in, out, us, ud, ps, pd
<1> QED BY <1>8, <1>9

(* The user receives what the pool pays, with shared accounts or without. *)
LEMMA UserIsPaid ==
    ASSUME HInv, at = "quote"
    PROVE  Settled(swap_ix)[Ata[User][destination_mint]]
               - bank[Ata[User][destination_mint]]
               = PoolSwap(swap_ix).destination_amount_swapped
<1> DEFINE y == PoolSwap(swap_ix).destination_amount_swapped
           ud == Ata[User][destination_mint]
<1>1. Settled(swap_ix)[ud] = bank[ud] + y /\ ud \in TokenAccounts
  BY SettledBank
<1>2. y \in Int
  BY PoolSwapsPair DEF CurveResults
<1>3. bank[ud] \in Int
  BY <1>1, BankOfTest
<1> HIDE DEF y, ud
<1>4. Settled(swap_ix)[ud] - bank[ud] = y
  BY <1>1, <1>2, <1>3
<1> QED BY <1>4 DEF y, ud

LEMMA ProcessKeeps == HInv /\ ProcessTransaction => HInv'
<1> SUFFICES ASSUME HInv, ProcessTransaction
             PROVE  HInv'
  OBVIOUS
<1> DEFINE ok == Allowed(swap_ix)
           balances == IF ok THEN Settled(swap_ix) ELSE bank
           to == Ata[User][destination_mint]
           from == Ata[User][source_mint]
<1>1. /\ at = "quote" /\ at' = "judge"
      /\ executed' = [ok |-> ok,
                      source_diff |-> bank[from] - balances[from],
                      destination_diff |-> balances[to] - bank[to]]
      /\ UNCHANGED <<request, snapshot, program, amm, pairs, amount, quote_result,
                     verdict, tried>>
  BY DEF ProcessTransaction, source_token_account_diff, destination_token_account_diff
<1>2. ok => /\ Served(Head(pairs))
            /\ Executable(Head(pairs), amount)
            /\ balances[to] - bank[to] =
                   ProgramResult(Head(pairs), amount).destination_amount_swapped
  <2> SUFFICES ASSUME ok
               PROVE  /\ Served(Head(pairs))
                      /\ Executable(Head(pairs), amount)
                      /\ balances[to] - bank[to] =
                             ProgramResult(Head(pairs), amount).destination_amount_swapped
    OBVIOUS
  <2>1. /\ Required(swap_ix) \subseteq snapshot.rest
        /\ PoolSwap(swap_ix).some
        /\ bank[PoolRole(swap_ix, "swap_source")]
               + PoolSwap(swap_ix).source_amount_swapped <= MaxU64
    BY DEF Allowed
  <2>2. PoolRole(swap_ix, "swap_source") = TokenSwapRoles.swap_source
    BY <1>1, PoolsPart
  <2>3. Executable(Head(pairs), amount)
    BY <1>1, <2>1, <2>2, PoolSwapsPair DEF Executable
  <2>4. balances[to] - bank[to] = PoolSwap(swap_ix).destination_amount_swapped
    BY <1>1, UserIsPaid
  <2>5. Served(Head(pairs))
    BY <1>1, <2>1, RequiredIsNeeded DEF Served
  <2> QED BY <1>1, <2>1, <2>3, <2>4, <2>5, PoolSwapsPair
<1> HIDE DEF ok, balances
<1>3. AnswerIsOfPair'
  <2>1. /\ executed'.ok = ok
        /\ executed'.destination_diff = balances[to] - bank[to]
    BY <1>1
  <2>2. /\ Executable(Head(pairs), amount)' <=> Executable(Head(pairs), amount)
        /\ ProgramResult(Head(pairs), amount)' = ProgramResult(Head(pairs), amount)
        /\ Served(Head(pairs))' <=> Served(Head(pairs))
    BY <1>1 DEF Executable, ProgramResult, Balance, Served, NeededFor
  <2> QED BY <1>1, <1>2, <2>1, <2>2 DEF AnswerIsOfPair
<1>4. BankIsSetUp'
  BY <1>1 DEF HInv, BankIsSetUp, source_mint
<1>5. AmmOfPool' /\ Progress'
  BY <1>1 DEF HInv, AmmOfPool, Progress, TriedPairs
<1>6. TriedAgree'
  BY <1>1 DEF HInv, TriedAgree, AgreeOn, Served, NeededFor, CurvesAgree, AdapterResult,
             ProgramResult, Executable, Balance
<1> QED BY <1>1, <1>3, <1>4, <1>5, <1>6 DEF HInv

LEMMA HarnessInvariance == Spec => []HInv
<1>1. HInv /\ [Next]_vars => HInv'
  <2> SUFFICES ASSUME HInv, [Next]_vars
               PROVE  HInv'
    OBVIOUS
  <2>1. CASE UNCHANGED vars
    BY <2>1 DEF vars, HInv, AmmOfPool, Progress, TriedPairs, BankIsSetUp, AnswerIsOfPair,
                TriedAgree, AgreeOn, Served, NeededFor, CurvesAgree, AdapterResult,
                ProgramResult, Executable, Balance, Funded, source_mint
  <2> QED BY <2>1, BeginKeeps, LoadKeeps, TryKeeps, ProcessKeeps, JudgeKeeps, EndKeeps
          DEF Next, TestStep
<1> QED BY <1>1, TestBegins, PTL DEF Spec

(* A test that expects no error and passes has seen adapter and program    *)
(* agree on every pair, whatever their curves and whatever the snapshot.   *)
THEOREM PassedTestsAgree == Spec => []PassMeansAgreement
<1>1. HInv => PassMeansAgreement
  <2> SUFFICES ASSUME HInv, verdict = "passed", request.expected_error = None
               PROVE  PassMeansAgreement
    BY DEF PassMeansAgreement
  <2>1. TriedPairs = Pairs /\ TriedAgree
    BY DEF HInv
  <2>2. \A t \in tried : request.swap_mode = "ExactIn" /\ AgreeOn(t.pair, t.amount)
    BY <2>1 DEF TriedAgree
  <2>3. tried # {}
    BY <2>1, PairsOfPool DEF TriedPairs
  <2> QED BY <2>1, <2>2, <2>3 DEF PassMeansAgreement, TriedPairs
<1> QED BY <1>1, HarnessInvariance, PTL

================================================================================
