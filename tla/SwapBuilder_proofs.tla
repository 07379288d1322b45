---------------------------- MODULE SwapBuilder_proofs ----------------------------
(***************************************************************************)
(* What the program makes of an instruction built in halves, for every     *)
(* request, every list of pool accounts and every choice of authorities.   *)
(***************************************************************************)
EXTENDS SwapBuilder, SwapInstruction_proofs

(* Every half is what its builder makes of the request the ghosts recall,  *)
(* the instruction is the halves put together, and the transaction what    *)
(* the caller surrounded it with.                                          *)
HalvesAreBuilt ==
    /\ accounts # NotBuilt => /\ asked \in AccountsRequests
                              /\ accounts = build_swap_accounts(asked)
    /\ data # NotBuilt => /\ wanted \in DataRequests
                          /\ wanted.program_authority_id = drawn
                          /\ data = build_swap_instruction_data(wanted)

WholeIsTheHalves ==
    /\ swap_ix # NotBuilt =>
          /\ accounts # NotBuilt
          /\ accounts.ok
          /\ data # NotBuilt
          /\ swap_ix = [accounts |-> accounts.metas \o AmmMetas, data |-> data]

(* A SwapInstructions that a caller may fill. *)
Fillings ==
    [compute_budget_instructions : Seq(Others), setup_instructions : Seq(Others),
     token_ledger_instruction : Others \cup {None}, swap_instruction : {swap_ix},
     cleanup_instruction : Others \cup {None}]

TransactionIsTheFilling ==
    /\ swap_instructions # NotBuilt =>
          /\ swap_ix # NotBuilt
          /\ swap_instructions \in Fillings
    /\ transaction # <<>> =>
          /\ swap_instructions # NotBuilt
          /\ transaction = from(swap_instructions)

BInv == HalvesAreBuilt /\ WholeIsTheHalves /\ TransactionIsTheFilling

LEMMA BuilderInvariance == Spec => []BInv
<1> USE DEF BInv
<1>1. Init => BInv
  BY DEF Init, HalvesAreBuilt, WholeIsTheHalves, TransactionIsTheFilling
<1>2. BInv /\ [Next]_vars => BInv'
  <2> SUFFICES ASSUME BInv, [Next]_vars
               PROVE  BInv'
    OBVIOUS
  <2>1. CASE BuildAccounts
    BY <2>1 DEF BuildAccounts, HalvesAreBuilt, WholeIsTheHalves, TransactionIsTheFilling,
                Fillings
  <2>2. CASE BuildData
    BY <2>2 DEF BuildData, HalvesAreBuilt, WholeIsTheHalves, TransactionIsTheFilling, Fillings
  <2>3. CASE Assemble
    BY <2>3 DEF Assemble, HalvesAreBuilt, WholeIsTheHalves, TransactionIsTheFilling
  <2>4. CASE Surround
    <3>1. swap_instructions' \in Fillings
      BY <2>4, BuilderAssumption DEF Surround, Fillings
    <3>2. Fillings' = Fillings
      BY <2>4 DEF Surround, Fillings
    <3> QED BY <2>4, <3>1, <3>2 DEF Surround, HalvesAreBuilt, WholeIsTheHalves,
                                    TransactionIsTheFilling
  <2>5. CASE Flatten
    <3>1. Fillings' = Fillings
      BY <2>5 DEF Flatten, Fillings
    <3> QED BY <2>5, <3>1 DEF Flatten, HalvesAreBuilt, WholeIsTheHalves,
                              TransactionIsTheFilling
  <2>6. CASE StartOver
    BY <2>6 DEF StartOver, HalvesAreBuilt, WholeIsTheHalves, TransactionIsTheFilling
  <2>7. CASE UNCHANGED vars
    BY <2>7 DEF vars, HalvesAreBuilt, WholeIsTheHalves, TransactionIsTheFilling, Fillings
  <2> QED BY <2>1, <2>2, <2>3, <2>4, <2>5, <2>6, <2>7 DEF Next
<1> QED BY <1>1, <1>2, PTL DEF Spec

(* The pool's accounts are keys, none of them the event authority. *)
LEMMA PoolAccounts ==
    /\ AmmMetas \in Seq(AccountMeta(AccountKeys))
    /\ \A j \in 1 .. Len(AmmMetas) : AmmMetas[j].pubkey # EventAuthority
<1>1. AmmMetas \in Seq(AccountMeta(Keys))
  BY BuilderAssumption DEF AccountMeta
<1>2. AccountMeta(Keys) \subseteq AccountMeta(AccountKeys)
  BY DEF AccountMeta, AccountKeys
<1>3. AmmMetas \in Seq(AccountMeta(AccountKeys))
  BY <1>1, <1>2, SeqMonotonic
<1>4. \A j \in 1 .. Len(AmmMetas) : AmmMetas[j] \in AccountMeta(Keys)
  BY <1>1, ElementOfSeq
<1>5. \A m \in AccountMeta(Keys) : m.pubkey \in Keys
  BY DEF AccountMeta
<1> QED BY <1>3, <1>4, <1>5, InstructionAssumption

(* What a complete instruction is made of. *)
LEMMA CompleteInstruction ==
    ASSUME BInv, Complete
    PROVE  /\ asked \in BuildSwapAccountsParams
           /\ wanted \in BuildSwapInstructionDataParams
           /\ AccountsVariant(asked) # "Refused"
           /\ AccountsVariant(asked) =
                  KindOf(asked.use_shared_accounts, asked.swap_mode, asked.token_ledger # None)
           /\ DataVariant(wanted) =
                  KindOf(wanted.use_shared_accounts, wanted.swap_mode, wanted.use_token_ledger)
           /\ swap_ix.accounts =
                  to_account_metas(AccountsVariant(asked), Roles(asked)) \o AmmMetas
           /\ swap_ix.data = build_swap_instruction_data(wanted)
           /\ swap_ix.data.variant = DataVariant(wanted)
           /\ wanted.program_authority_id = drawn
<1>1. /\ asked \in BuildSwapAccountsParams
      /\ wanted \in BuildSwapInstructionDataParams
      /\ accounts = build_swap_accounts(asked)
      /\ accounts.ok
      /\ data = build_swap_instruction_data(wanted)
      /\ wanted.program_authority_id = drawn
      /\ swap_ix = [accounts |-> accounts.metas \o AmmMetas, data |-> data]
  BY BuilderAssumption DEF BInv, HalvesAreBuilt, WholeIsTheHalves, Complete
<1>2. /\ asked.use_shared_accounts \in BOOLEAN /\ asked.swap_mode \in SwapModes
      /\ wanted.use_shared_accounts \in BOOLEAN /\ wanted.swap_mode \in SwapModes
      /\ wanted.use_token_ledger \in BOOLEAN
  BY <1>1 DEF BuildSwapAccountsParams, BuildSwapInstructionDataParams
<1>3. AccountsVariant(asked) # "Refused"
  BY <1>1 DEF build_swap_accounts
<1>4. accounts.metas = to_account_metas(AccountsVariant(asked), Roles(asked))
  BY <1>1, <1>3 DEF build_swap_accounts
<1>5. AccountsVariant(asked) =
          KindOf(asked.use_shared_accounts, asked.swap_mode, asked.token_ledger # None)
  BY <1>2, <1>3, AccountsVariantIsKind
<1>6. DataVariant(wanted) =
          KindOf(wanted.use_shared_accounts, wanted.swap_mode, wanted.use_token_ledger)
  BY <1>2, DataVariantIsKind
<1>7. swap_ix.data.variant = DataVariant(wanted)
  BY <1>1 DEF build_swap_instruction_data
<1> QED BY <1>1, <1>3, <1>4, <1>5, <1>6, <1>7

(* Accepted halves are for instructions whose lists are equally long. *)
LEMMA AcceptedKinds ==
    ASSUME BInv, Complete, Accepted(swap_ix)
    PROVE  Size(KindOf(asked.use_shared_accounts, asked.swap_mode, asked.token_ledger # None))
               = Size(KindOf(wanted.use_shared_accounts, wanted.swap_mode,
                             wanted.use_token_ledger))
<1> DEFINE v == AccountsVariant(asked)
           w == DataVariant(wanted)
<1>1. v \in VariantNames /\ w \in VariantNames
  BY CompleteInstruction, KindIsVariant
<1>2. /\ Roles(asked) \in [Names -> AccountKeys]
      /\ \A n \in Names : Roles(asked)[n] = EventAuthority => n = "event_authority"
  BY CompleteInstruction, RolesOfRequest
<1>3. /\ swap_ix.accounts = to_account_metas(v, Roles(asked)) \o AmmMetas
      /\ swap_ix.data.variant = w
  BY CompleteInstruction
<1> HIDE DEF v, w
<1>4. Size(v) = Size(w)
  BY <1>1, <1>2, <1>3, PoolAccounts, AcceptedIsSameSize
<1> QED BY <1>4, CompleteInstruction DEF v, w

(* The program does not take halves of different instructions for one,     *)
(* whatever is asked for and whatever accounts the pool appends.           *)
THEOREM MixedHalvesRefused == Spec => []MixedHalvesAreRefused
<1>1. BInv => MixedHalvesAreRefused
  <2> SUFFICES ASSUME BInv, Complete, Accepted(swap_ix), ~SameKind
               PROVE  \/ /\ asked.use_shared_accounts
                         /\ wanted.use_shared_accounts
                         /\ asked.swap_mode # wanted.swap_mode
                      \/ /\ asked.swap_mode = "ExactOut"
                         /\ wanted.swap_mode = "ExactOut"
                         /\ wanted.use_token_ledger
    BY DEF MixedHalvesAreRefused
  <2> DEFINE s == asked.use_shared_accounts
             m == asked.swap_mode
             l == asked.token_ledger # None
             S == wanted.use_shared_accounts
             M == wanted.swap_mode
             L == wanted.use_token_ledger
  <2>1. /\ s \in BOOLEAN /\ m \in SwapModes /\ l \in BOOLEAN
        /\ S \in BOOLEAN /\ M \in SwapModes /\ L \in BOOLEAN
    BY CompleteInstruction DEF BuildSwapAccountsParams, BuildSwapInstructionDataParams
  <2>2. Size(KindOf(s, m, l)) = Size(KindOf(S, M, L))
    BY AcceptedKinds
  <2>3. ~(s = S /\ m = M /\ l = L)
    BY DEF SameKind
  <2>4. m = "ExactOut" => ~l
    <3>1. AccountsVariant(asked) # "Refused"
      BY CompleteInstruction
    <3> QED BY <2>1, <3>1, AccountsVariantIsKind
  <2> HIDE DEF s, m, l, S, M, L
  <2>5. \/ s /\ S /\ m # M
        \/ m = "ExactOut" /\ M = "ExactOut" /\ L
    <3>1. CASE m = "ExactOut" /\ M = "ExactOut"
      BY <2>1, <2>2, <2>3, <2>4, <3>1 DEF KindOf, Size
    <3>2. CASE m = "ExactOut" /\ M = "ExactIn"
      BY <2>1, <2>2, <2>3, <2>4, <3>2 DEF KindOf, Size
    <3>3. CASE m = "ExactIn" /\ M = "ExactOut"
      BY <2>1, <2>2, <2>3, <2>4, <3>3 DEF KindOf, Size
    <3>4. CASE m = "ExactIn" /\ M = "ExactIn"
      BY <2>1, <2>2, <2>3, <2>4, <3>4 DEF KindOf, Size
    <3> QED BY <2>1, <3>1, <3>2, <3>3, <3>4 DEF SwapModes
  <2> QED BY <2>5 DEF s, m, S, M, L
<1> QED BY <1>1, BuilderInvariance, PTL

(* Asked for the same kind of swap, the halves are one instruction and     *)
(* the program reads from it what was requested.                           *)
THEOREM RequestIsRead == Spec => []ProgramReadsTheRequest
<1>1. BInv => ProgramReadsTheRequest
  <2> SUFFICES ASSUME BInv, Complete, SameKind
               PROVE  ProgramReadsTheRequest
    BY DEF ProgramReadsTheRequest
  <2> DEFINE v == AccountsVariant(asked)
             shared == asked.use_shared_accounts
  <2>1. /\ asked \in BuildSwapAccountsParams
        /\ wanted \in BuildSwapInstructionDataParams
        /\ shared \in BOOLEAN
        /\ asked.swap_mode \in SwapModes
        /\ wanted.use_token_ledger \in BOOLEAN
        /\ wanted.program_authority_id = drawn
        /\ swap_ix.data = build_swap_instruction_data(wanted)
    BY CompleteInstruction DEF BuildSwapAccountsParams, BuildSwapInstructionDataParams
  <2>2. /\ v \in VariantNames
        /\ v = KindOf(shared, asked.swap_mode, asked.token_ledger # None)
        /\ swap_ix.data.variant = v
    BY CompleteInstruction, KindIsVariant DEF SameKind
  <2>3. swap_ix.accounts = to_account_metas(v, Roles(asked)) \o AmmMetas
    BY CompleteInstruction
  <2>4. Roles(asked) \in [Names -> AccountKeys]
    BY <2>1, RolesOfRequest
  <2>5. shared <=> Shared(v)
    BY <2>1, <2>2 DEF KindOf, Shared
  <2> HIDE DEF v
  <2>6. \A role : Lists(v, role) => Reads(swap_ix, role) = Roles(asked)[role]
    <3>1. AmmMetas \in Seq(AccountMeta(AccountKeys))
      BY PoolAccounts
    <3>2. IsJoined(swap_ix.accounts, v, Roles(asked), AmmMetas)
      BY <2>2, <2>3, <2>4, <3>1, MetasJoined
    <3>3. ReadsAsPut(swap_ix, v, Roles(asked))
      BY <2>2, <3>2, ListedIsRead
    <3> QED BY <3>3 DEF ReadsAsPut
  <2>7. \A role \in ListedRoles(v) : Reads(swap_ix, role) = Roles(asked)[role]
    BY <2>2, <2>6, KindLists
  <2>8. Accepted(swap_ix)
    BY <2>7 DEF Accepted, ListedRoles, Roles
  <2>9. Reads(swap_ix, "user_transfer_authority") = asked.user
    BY <2>7 DEF ListedRoles, Roles
  <2>10. Reads(swap_ix, IF shared THEN "source_token_account"
                                  ELSE "user_source_token_account")
             = asked.user_source_token_account
    BY <2>5, <2>7 DEF ListedRoles, Roles
  <2>11. Reads(swap_ix, "destination_token_account") =
             unwrap_or(asked.optional_destination_token_account,
                       asked.user_destination_token_account)
    BY <2>7 DEF ListedRoles, Roles
  <2>12. Lists(v, "token_ledger") => Reads(swap_ix, "token_ledger") = asked.token_ledger
    BY <2>6 DEF Roles
  <2>13. asked.program_authority = Authority[drawn] =>
             \A id \in swap_ix.data.id : Reads(swap_ix, "program_authority") = Authority[id]
    <3> SUFFICES ASSUME asked.program_authority = Authority[drawn],
                        NEW id \in swap_ix.data.id
                 PROVE  Reads(swap_ix, "program_authority") = Authority[id]
      OBVIOUS
    <3>1. wanted.use_shared_accounts /\ id = drawn
      BY <2>1 DEF build_swap_instruction_data
    <3>2. Shared(v)
      BY <2>5, <3>1 DEF SameKind
    <3> QED BY <2>7, <3>1, <3>2 DEF ListedRoles, Roles
  <2> QED BY <2>2, <2>8, <2>9, <2>10, <2>11, <2>12, <2>13 DEF ProgramReadsTheRequest
<1> QED BY <1>1, BuilderInvariance, PTL

(* An accepted swap has its amount once, from the data or from a ledger.   *)
LEMMA AmountIsGiven == BInv => AmountOrLedger
<1> SUFFICES ASSUME BInv, Complete, Accepted(swap_ix)
             PROVE  AmountOrLedger
  BY DEF AmountOrLedger
<1> DEFINE v == AccountsVariant(asked)
           w == DataVariant(wanted)
<1>1. /\ asked \in BuildSwapAccountsParams
      /\ asked.use_shared_accounts \in BOOLEAN
      /\ asked.swap_mode \in SwapModes
      /\ wanted.use_shared_accounts \in BOOLEAN
      /\ wanted.swap_mode \in SwapModes
      /\ wanted.use_token_ledger \in BOOLEAN
      /\ swap_ix.data = build_swap_instruction_data(wanted)
      /\ swap_ix.data.variant = w
  BY CompleteInstruction DEF BuildSwapAccountsParams, BuildSwapInstructionDataParams
<1>2. /\ v \in VariantNames
      /\ w \in VariantNames
      /\ v = KindOf(asked.use_shared_accounts, asked.swap_mode, asked.token_ledger # None)
      /\ w = KindOf(wanted.use_shared_accounts, wanted.swap_mode, wanted.use_token_ledger)
  BY CompleteInstruction, KindIsVariant
<1>3. Size(v) = Size(w)
  BY <1>2, AcceptedKinds
<1>4. swap_ix.accounts = to_account_metas(v, Roles(asked)) \o AmmMetas
  BY CompleteInstruction
<1>5. Roles(asked) \in [Names -> AccountKeys]
  BY <1>1, RolesOfRequest
<1>6. AmmMetas \in Seq(AccountMeta(AccountKeys))
  BY PoolAccounts
<1>7. DOMAIN swap_ix.data.amount = AmountField(w)
  BY <1>1 DEF build_swap_instruction_data
<1>8. \A field \in AmountField(w) : swap_ix.data.amount[field] = wanted.amount
  BY <1>1 DEF build_swap_instruction_data
<1> HIDE DEF v, w
<1>9. Lists(w, "token_ledger") <=> wanted.swap_mode = "ExactIn" /\ wanted.use_token_ledger
  <2>1. wanted.swap_mode = "ExactIn" /\ wanted.use_token_ledger
            <=> w \in {"RouteWithTokenLedger", "SharedAccountsRouteWithTokenLedger"}
    BY <1>1, <1>2 DEF KindOf, SwapModes
  <2>2. "token_ledger" \in ListedRoles(w)
            <=> w \in {"RouteWithTokenLedger", "SharedAccountsRouteWithTokenLedger"}
    BY DEF ListedRoles
  <2> QED BY <1>2, <2>1, <2>2, KindLists
<1>10. AmountField(w) = {} <=> Lists(w, "token_ledger")
  BY <1>1, <1>2, <1>9 DEF AmountField, KindOf, SwapModes
<1>11. \A field \in AmountField(w) : field = "in_amount" <=> wanted.swap_mode = "ExactIn"
  BY <1>1, <1>2 DEF AmountField, KindOf, SwapModes
<1>12. Lists(w, "token_ledger") =>
           asked.token_ledger # None /\ Reads(swap_ix, "token_ledger") = asked.token_ledger
  <2> SUFFICES ASSUME Lists(w, "token_ledger")
               PROVE  /\ asked.token_ledger # None
                      /\ Reads(swap_ix, "token_ledger") = asked.token_ledger
    OBVIOUS
  <2>1. w \in {"RouteWithTokenLedger", "SharedAccountsRouteWithTokenLedger"}
    BY <1>1, <1>2, <1>9 DEF KindOf
  <2>2. v = w /\ asked.token_ledger # None
    BY <1>1, <1>2, <1>3, <2>1 DEF KindOf, Size
  <2>3. Reads(swap_ix, "token_ledger") = Roles(asked)["token_ledger"]
    <3>1. swap_ix.data.variant = v /\ Lists(v, "token_ledger")
      BY <1>1, <2>2
    <3>2. IsJoined(swap_ix.accounts, v, Roles(asked), AmmMetas)
      BY <1>2, <1>4, <1>5, <1>6, MetasJoined
    <3>3. ReadsAsPut(swap_ix, v, Roles(asked))
      BY <1>2, <3>1, <3>2, ListedIsRead
    <3> QED BY <3>1, <3>3 DEF ReadsAsPut
  <2> QED BY <2>2, <2>3 DEF Roles
<1> QED BY <1>1, <1>7, <1>8, <1>10, <1>11, <1>12 DEF AmountOrLedger

(* So is that of every swap the program accepts, whatever was asked for. *)
THEOREM AmountIsGivenOnce == Spec => []AmountOrLedger
BY AmountIsGiven, BuilderInvariance, PTL

(* The instructions around the swap, whatever the caller lists: the        *)
(* preparations are ahead of it, the cleanup after it, the ledger's is     *)
(* nowhere.                                                                *)
LEMMA FlatSwap ==
    ASSUME NEW S, NEW x, NEW before \in Seq(S), NEW behind \in Seq(S)
    PROVE  LET t == before \o <<x>> \o behind
               k == Len(before) + 1
           IN  /\ k \in DOMAIN t
               /\ t[k] = x
               /\ {t[i] : i \in 1 .. k - 1} = Range(before)
               /\ {t[i] : i \in k + 1 .. Len(t)} = Range(behind)
<1> DEFINE t == before \o <<x>> \o behind
           T == S \cup {x}
           n == Len(before)
           m == Len(behind)
<1>1. before \in Seq(T) /\ behind \in Seq(T) /\ <<x>> \in Seq(T)
  BY SeqMonotonic
<1>2. n \in Nat /\ m \in Nat
  OBVIOUS
<1>3. /\ Len(t) = n + 1 + m
      /\ DOMAIN t = 1 .. n + 1 + m
      /\ \A i \in 1 .. n : t[i] = before[i]
      /\ t[n + 1] = x
      /\ \A i \in n + 2 .. n + 1 + m : t[i] = behind[i - n - 1]
  BY <1>1, <1>2
<1> HIDE DEF t, n, m
<1>4. {t[i] : i \in 1 .. n} = Range(before)
  BY <1>2, <1>3 DEF Range, n
<1>5. {t[i] : i \in n + 2 .. Len(t)} = Range(behind)
  <2>1. \A j \in 1 .. m : j + n + 1 \in n + 2 .. n + 1 + m /\ t[j + n + 1] = behind[j]
    BY <1>2, <1>3
  <2>2. \A i \in n + 2 .. n + 1 + m : i - n - 1 \in 1 .. m
    BY <1>2
  <2>3. DOMAIN behind = 1 .. m
    BY DEF m
  <2> QED BY <1>3, <2>1, <2>2, <2>3 DEF Range
<1>6. n + 1 \in DOMAIN t /\ n + 1 - 1 = n /\ n + 1 + 1 = n + 2
  BY <1>2, <1>3
<1> QED BY <1>3, <1>4, <1>5, <1>6 DEF t, n

(* Whatever is put around it, a flattened swap has all its preparations    *)
(* ahead and its cleanup after it, and knows its amount unless it takes it *)
(* from a ledger that none of the preparations records.                    *)
THEOREM FlatLedgerIsLost == Spec => []LedgerNeedsInstructionsMode
<1>1. BInv => LedgerNeedsInstructionsMode
  <2> DEFINE s == swap_instructions
             before == s.compute_budget_instructions \o s.setup_instructions
             behind == into_iter(s.cleanup_instruction)
             preparations == Range(s.compute_budget_instructions) \cup
                             Range(s.setup_instructions)
             k == Len(before) + 1
             ahead == {transaction[i] : i \in 1 .. k - 1}
             after == {transaction[i] : i \in k + 1 .. Len(transaction)}
             amount_known == \/ DOMAIN swap_ix.data.amount # {}
                             \/ \E i \in ahead : Records[i] = Reads(swap_ix, "token_ledger")
             given == wanted.use_token_ledger /\ wanted.swap_mode = "ExactIn" =>
                          \E i \in preparations : Records[i] = asked.token_ledger
  <2> SUFFICES ASSUME BInv, transaction # <<>>
               PROVE  /\ k \in DOMAIN transaction
                      /\ transaction[k] = swap_ix
                      /\ ahead = preparations
                      /\ after = {s.cleanup_instruction} \ {None}
                      /\ Accepted(swap_ix) => (amount_known <=> given)
    BY DEF LedgerNeedsInstructionsMode
  <2>1. /\ Complete
        /\ s.compute_budget_instructions \in Seq(Others)
        /\ s.setup_instructions \in Seq(Others)
        /\ s.swap_instruction = swap_ix
        /\ s.cleanup_instruction \in Others \cup {None}
        /\ transaction = before \o <<swap_ix>> \o behind
    BY DEF BInv, TransactionIsTheFilling, Fillings, Complete, from
  <2>2. before \in Seq(Others) /\ behind \in Seq(Others)
    BY <2>1 DEF into_iter
  <2>3. /\ k \in DOMAIN transaction
        /\ transaction[k] = swap_ix
        /\ ahead = Range(before)
        /\ after = Range(behind)
    <3> HIDE DEF before, behind
    <3>1. LET t == before \o <<swap_ix>> \o behind
              n == Len(before) + 1
          IN  /\ n \in DOMAIN t
              /\ t[n] = swap_ix
              /\ {t[i] : i \in 1 .. n - 1} = Range(before)
              /\ {t[i] : i \in n + 1 .. Len(t)} = Range(behind)
      BY <2>2, FlatSwap
    <3> QED BY <2>1, <3>1
  <2>4. Range(before) = preparations
    BY <2>1, RangeConcatenation
  <2>5. Range(behind) = {s.cleanup_instruction} \ {None}
    BY DEF into_iter, Range
  <2>6. Accepted(swap_ix) => (amount_known <=> given)
    <3> SUFFICES ASSUME Accepted(swap_ix)
                 PROVE  amount_known <=> given
      OBVIOUS
    <3> DEFINE variant == swap_ix.data.variant
    <3>1. /\ DOMAIN swap_ix.data.amount = {} <=> Lists(variant, "token_ledger")
          /\ Lists(variant, "token_ledger") =>
                Reads(swap_ix, "token_ledger") = asked.token_ledger
      BY <2>1, AmountIsGiven DEF AmountOrLedger
    <3>2. DOMAIN swap_ix.data.amount = {}
              <=> wanted.use_token_ledger /\ wanted.swap_mode = "ExactIn"
      <4>1. /\ wanted.use_shared_accounts \in BOOLEAN
            /\ wanted.swap_mode \in SwapModes
            /\ wanted.use_token_ledger \in BOOLEAN
            /\ swap_ix.data = build_swap_instruction_data(wanted)
            /\ DataVariant(wanted) = KindOf(wanted.use_shared_accounts, wanted.swap_mode,
                                            wanted.use_token_ledger)
        BY <2>1, CompleteInstruction DEF BuildSwapInstructionDataParams
      <4>2. DOMAIN swap_ix.data.amount = AmountField(DataVariant(wanted))
        BY <4>1 DEF build_swap_instruction_data
      <4>3. AmountField(DataVariant(wanted)) = {}
                <=> wanted.use_token_ledger /\ wanted.swap_mode = "ExactIn"
        BY <4>1 DEF AmountField, KindOf, SwapModes
      <4> QED BY <4>2, <4>3
    <3>3. ahead = preparations
      BY <2>3, <2>4
    <3> HIDE DEF ahead, preparations
    <3> QED BY <3>1, <3>2, <3>3
  <2> QED BY <2>3, <2>4, <2>5, <2>6
<1> QED BY <1>1, BuilderInvariance, PTL

================================================================================
