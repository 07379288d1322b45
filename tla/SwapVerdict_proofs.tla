---------------------------- MODULE SwapVerdict_proofs ----------------------------
(***************************************************************************)
(* What the verdicts of the quoting tests mean: which amount a pair was    *)
(* tried with, why a test failed, and what an expected error was.  A test  *)
(* that passes is the subject of SwapHarness_proofs.                       *)
(***************************************************************************)
EXTENDS SwapHarness_proofs, WellFoundedInduction

--------------------------------------------------------------------------------
(* Halving.  A function that is defined recursively is what its equation   *)
(* says once some function satisfies the equation; that one does, and what *)
(* its values are, follows from the least number for which it would not.   *)

IsHalving(h, x, n) ==
    h = [k \in 0 .. n |-> IF k = 0 THEN x ELSE h[k - 1] \div 2]

HalfOf(pair, k) == Halving(InAmount[pair[1]])[k]

LEMMA Least ==
    ASSUME NEW T, T \subseteq Nat, T # {}
    PROVE  \E n \in T : \A m \in T : n <= m
<1>1. \E n \in T : \A m \in T : <<m, n>> \notin OpToRel(<, Nat)
  BY NatLessThanWellFounded, WFMin
<1>2. \A m, n \in Nat : <<m, n>> \notin OpToRel(<, Nat) => n <= m
  BY DEF OpToRel
<1> QED BY <1>1, <1>2

LEMMA HalvingExists ==
    ASSUME NEW x, NEW n \in Nat
    PROVE  \E h : IsHalving(h, x, n)
<1> DEFINE T == {m \in Nat : ~\E h : IsHalving(h, x, m)}
<1> SUFFICES ASSUME T # {}
             PROVE  FALSE
  OBVIOUS
<1>1. PICK m \in T : \A l \in T : m <= l
  BY Least
<1>2. m # 0
  <2>1. IsHalving([k \in 0 .. 0 |-> x], x, 0)
    BY DEF IsHalving
  <2> QED BY <2>1
<1>3. m - 1 \in Nat /\ m - 1 \notin T
  BY <1>1, <1>2
<1>4. PICK h : IsHalving(h, x, m - 1)
  BY <1>3
<1> DEFINE g == [k \in 0 .. m |-> IF k = m THEN h[m - 1] \div 2 ELSE h[k]]
<1>5. \A k \in 0 .. m - 1 : h[k] = IF k = 0 THEN x ELSE h[k - 1] \div 2
  BY <1>4 DEF IsHalving
<1>6. \A k \in 0 .. m : g[k] = IF k = 0 THEN x ELSE g[k - 1] \div 2
  <2> SUFFICES ASSUME NEW k \in 0 .. m
               PROVE  g[k] = IF k = 0 THEN x ELSE g[k - 1] \div 2
    OBVIOUS
  <2>1. CASE k = m
    BY <1>2, <2>1
  <2>2. CASE k # m
    BY <1>2, <1>5, <2>2
  <2> QED BY <2>1, <2>2
<1>7. DOMAIN g = 0 .. m /\ g = [k \in 0 .. m |-> g[k]]
  OBVIOUS
<1> HIDE DEF g
<1>8. IsHalving(g, x, m)
  BY <1>6, <1>7 DEF IsHalving
<1> QED BY <1>8

LEMMA HalvingIs ==
    ASSUME NEW x
    PROVE  IsHalving(Halving(x), x, Attempts)
<1>1. PICK h : IsHalving(h, x, Attempts)
  BY HalvingExists, HarnessAssumption
<1> QED BY <1>1 DEF IsHalving, Halving

(* The halves are natural numbers, each at most those before it. *)
LEMMA HalvesFall ==
    ASSUME NEW h, NEW x \in Nat, NEW n \in Nat, IsHalving(h, x, n)
    PROVE  /\ h[0] = x
           /\ \A k \in 1 .. n : h[k] = h[k - 1] \div 2
           /\ \A k \in 0 .. n : h[k] \in Nat
           /\ \A k \in 0 .. n : \A j \in 0 .. k : h[k] <= h[j]
<1>1. \A k \in 0 .. n : h[k] = IF k = 0 THEN x ELSE h[k - 1] \div 2
  BY DEF IsHalving
<1> DEFINE T == {k \in 0 .. n : ~(h[k] \in Nat /\ \A j \in 0 .. k : h[k] <= h[j])}
<1>2. T = {}
  <2> SUFFICES ASSUME T # {}
               PROVE  FALSE
    OBVIOUS
  <2>1. T \subseteq Nat
    OBVIOUS
  <2>2. PICK m \in T : \A l \in T : m <= l
    BY <2>1, Least
  <2>3. CASE m = 0
    <3>1. h[0] = x
      BY <1>1
    <3> QED BY <2>2, <2>3, <3>1
  <2>4. CASE m # 0
    <3>1. m - 1 \in 0 .. n /\ m - 1 \notin T
      BY <2>2, <2>4
    <3>2. h[m - 1] \in Nat /\ \A j \in 0 .. m - 1 : h[m - 1] <= h[j]
      BY <3>1
    <3>3. h[m] = h[m - 1] \div 2
      BY <1>1, <2>4
    <3>4. h[m] \in Nat /\ h[m] <= h[m - 1]
      <4>1. \A z \in Nat : z \div 2 \in Nat /\ z \div 2 <= z
        OBVIOUS
      <4> QED BY <3>2, <3>3, <4>1
    <3>5. \A j \in 0 .. m : j = m \/ j \in 0 .. m - 1
      BY <2>2
    <3>6. \A j \in 0 .. m - 1 : h[j] \in Nat
      <4>1. \A j \in 0 .. m - 1 : j \in 0 .. n /\ j \notin T
        BY <2>2
      <4> QED BY <4>1
    <3>7. \A j \in 0 .. m : h[m] <= h[j]
      BY <3>2, <3>4, <3>5, <3>6
    <3> QED BY <3>4, <3>7
  <2> QED BY <2>3, <2>4
<1> QED BY <1>1, <1>2

(* The amounts of a pair. *)
LEMMA HalvesOfPair ==
    ASSUME NEW pair, InAmount[pair[1]] \in U64
    PROVE  /\ HalfOf(pair, 0) = InAmount[pair[1]]
           /\ \A k \in 1 .. Attempts : HalfOf(pair, k) = HalfOf(pair, k - 1) \div 2
           /\ \A k \in 0 .. Attempts : HalfOf(pair, k) \in U64
           /\ \A k \in 0 .. Attempts : \A j \in 0 .. k : HalfOf(pair, k) <= HalfOf(pair, j)
           /\ Halves(pair) = {HalfOf(pair, k) : k \in 1 .. Attempts}
<1> DEFINE x == InAmount[pair[1]]
<1>1. x \in Nat /\ Attempts \in Nat /\ MaxU64 \in Nat /\ x <= MaxU64
  BY HarnessAssumption, PoolAssumption DEF U64
<1>2. IsHalving(Halving(x), x, Attempts)
  BY HalvingIs
<1>3. /\ \A k \in 0 .. Attempts : HalfOf(pair, k) \in Nat
      /\ \A k \in 0 .. Attempts : \A j \in 0 .. k : HalfOf(pair, k) <= HalfOf(pair, j)
      /\ HalfOf(pair, 0) = x
      /\ \A k \in 1 .. Attempts : HalfOf(pair, k) = HalfOf(pair, k - 1) \div 2
  BY <1>1, <1>2, HalvesFall DEF HalfOf
<1>4. \A k \in 0 .. Attempts : HalfOf(pair, k) \in U64
  <2> SUFFICES ASSUME NEW k \in 0 .. Attempts
               PROVE  HalfOf(pair, k) \in U64
    OBVIOUS
  <2>1. HalfOf(pair, k) <= HalfOf(pair, 0)
    BY <1>1, <1>3
  <2> QED BY <1>1, <1>3, <2>1 DEF U64
<1> QED BY <1>3, <1>4 DEF Halves, HalfOf

--------------------------------------------------------------------------------
(* What is quoted.                                                         *)

(* The adapter quotes just what its curve gives a result for: no amount    *)
(* within u64 is lost in the conversions.                                  *)
LEMMA QuotedIsQuotable ==
    ASSUME HInv, at = "quote", NEW x \in U64
    PROVE  /\ quote(amm, source_mint, x) \in Quotes
           /\ quote(amm, source_mint, x).ok <=> AdapterResult(Head(pairs), x).some
<1> DEFINE pair == Head(pairs)
           r1 == snapshot.accounts[PoolState.token_a].amount
           r2 == snapshot.accounts[PoolState.token_b].amount
<1>1. BankIsSetUp /\ AmmOfPool
  BY DEF HInv
<1>2. pair \in {AB, BA} /\ source_mint = pair[1]
  BY <1>1, HeadIsPair DEF BankIsSetUp
<1>3. /\ amm.reserves[1] = r1 /\ amm.reserves[2] = r2
      /\ amm.reserve_mints[1] = PoolState.token_a_mint
  BY <1>1 DEF BankIsSetUp, AmmOfPool, AB
<1>4. r1 \in U64 /\ r2 \in U64
  BY BankOfTest
<1> HIDE DEF r1, r2
<1>5. \A source, destination \in U64, direction \in Directions :
          LET q == IntoQuote(get_swap_curve_result(x, source, destination, direction)) IN
              /\ q \in Quotes
              /\ q.ok <=> CurveSwap(x, source, destination, direction).some
  <2> SUFFICES ASSUME NEW source \in U64, NEW destination \in U64,
                      NEW direction \in Directions
               PROVE  LET q == IntoQuote(get_swap_curve_result(x, source, destination, direction))
                      IN  /\ q \in Quotes
                          /\ q.ok <=> CurveSwap(x, source, destination, direction).some
    OBVIOUS
  <2> DEFINE r == CurveSwap(x, source, destination, direction)
  <2>1. /\ r \in CurveResults
        /\ r.some => /\ r.source_amount_swapped <= x
                     /\ r.trade_fee + r.owner_fee <= x
                     /\ r.destination_amount_swapped <= destination
    BY CurveAssumption
  <2>2. /\ x \in Nat /\ x <= MaxU64 /\ destination \in Nat /\ destination <= MaxU64
        /\ MaxU64 \in Nat
    BY PoolAssumption DEF U64
  <2> HIDE DEF r
  <2>3. CASE r.some
    <3>1. /\ r.source_amount_swapped \in U64
          /\ r.destination_amount_swapped \in U64
          /\ r.trade_fee + r.owner_fee \in U64
      BY <2>1, <2>2, <2>3 DEF CurveResults, U64
    <3>2. /\ r.source_amount_swapped <= MaxU64
          /\ r.destination_amount_swapped <= MaxU64
          /\ r.trade_fee + r.owner_fee <= MaxU64
      BY <3>1, <2>2 DEF U64
    <3>3. IntoQuote(get_swap_curve_result(x, source, destination, direction)) =
              [ok |-> TRUE, in_amount |-> r.source_amount_swapped,
               out_amount |-> r.destination_amount_swapped,
               fee_amount |-> r.trade_fee + r.owner_fee]
      BY <2>3, <3>2 DEF IntoQuote, get_swap_curve_result, r
    <3> QED BY <2>3, <3>1, <3>3 DEF Quotes, r
  <2>4. CASE ~r.some
    <3>1. IntoQuote(get_swap_curve_result(x, source, destination, direction)) = NoQuote
      BY <2>4 DEF IntoQuote, get_swap_curve_result, r
    <3>2. 0 \in U64
      BY <2>2 DEF U64
    <3> QED BY <2>4, <3>1, <3>2 DEF Quotes, NoQuote, r
  <2> QED BY <2>3, <2>4
<1>6. CASE pair = AB
  <2>1. source_mint = PoolState.token_a_mint
    BY <1>2, <1>6 DEF AB
  <2>2. AdapterResult(pair, x) = CurveSwap(x, r1, r2, "AtoB")
    BY <1>6 DEF AdapterResult, Balance, Vaults, DirectionOf, AB, r1, r2
  <2>3. quote(amm, source_mint, x) = IntoQuote(get_swap_curve_result(x, r1, r2, "AtoB"))
    BY <1>3, <2>1 DEF quote
  <2> QED BY <1>4, <1>5, <2>2, <2>3 DEF Directions
<1>7. CASE pair = BA
  <2>1. source_mint # PoolState.token_a_mint
    BY <1>2, <1>7, HarnessAssumption DEF BA
  <2>2. AdapterResult(pair, x) = CurveSwap(x, r2, r1, "BtoA")
    BY <1>7, HarnessAssumption DEF AdapterResult, Balance, Vaults, DirectionOf, BA, r1, r2
  <2>3. quote(amm, source_mint, x) = IntoQuote(get_swap_curve_result(x, r2, r1, "BtoA"))
    BY <1>3, <2>1 DEF quote
  <2> QED BY <1>4, <1>5, <2>2, <2>3 DEF Directions
<1> QED BY <1>2, <1>6, <1>7

--------------------------------------------------------------------------------
(* What the bank allows.                                                   *)

(* What the program demands of the accounts alone. *)
AccountsInOrder(ix) ==
    LET source == PoolRole(ix, "source")
        destination == PoolRole(ix, "destination")
        vault_in == PoolRole(ix, "swap_source")
        vault_out == PoolRole(ix, "swap_destination")
        signer == PoolRole(ix, "user_transfer_authority")
    IN  /\ Accepted(ix)
        /\ Reads(ix, "user_transfer_authority") = User
        /\ IsShared(ix) => /\ Reads(ix, "program_authority") = Authority
                           /\ OwnedBy(Authority, Reads(ix, "program_destination_token_account"))
        /\ signer \in {User} \cup (IF IsShared(ix) THEN {Authority} ELSE {})
        /\ OwnedBy(User, Payer(ix))
        /\ OwnedBy(signer, source)
        /\ MintOf(source) = MintOf(vault_in)
        /\ MintOf(destination) = MintOf(vault_out)
        /\ \A a \in {source, vault_in, vault_out, destination} : IsWritable(ix, a)

(* The vaults of a pair are of its mints. *)
LEMMA VaultsOfPair ==
    ASSUME HInv, at = "quote"
    PROVE  /\ MintOf(TokenSwapRoles.swap_source) = source_mint
           /\ MintOf(TokenSwapRoles.swap_destination) = destination_mint
<1>1. /\ AmmOfPool /\ Head(pairs) \in {AB, BA}
      /\ source_mint = Head(pairs)[1] /\ destination_mint = Head(pairs)[2]
  BY HeadIsPair DEF HInv, BankIsSetUp
<1>2. /\ TokenSwapRoles.swap_source = get_swap_and_account_metas(amm, source_mint).swap_source
      /\ TokenSwapRoles.swap_destination =
             get_swap_and_account_metas(amm, source_mint).swap_destination
  BY DEF TokenSwapRoles
<1>3. CASE Head(pairs) = AB
  BY <1>1, <1>2, <1>3, MintsOfAccounts DEF get_swap_and_account_metas, AmmOfPool, AB
<1>4. CASE Head(pairs) = BA
  BY <1>1, <1>2, <1>4, MintsOfAccounts, HarnessAssumption
     DEF get_swap_and_account_metas, AmmOfPool, BA
<1> QED BY <1>1, <1>3, <1>4

(* The four token accounts of the pool's part are passed as writable. *)
LEMMA PoolWrites ==
    ASSUME HInv, at = "quote",
           NEW role \in {"source", "swap_source", "swap_destination", "destination"}
    PROVE  IsWritable(swap_ix, TokenSwapRoles[role])
<1>1. PICK i \in 1 .. 11 : TokenSwap[i] = role
  BY DEF TokenSwap
<1>2. role \notin TokenSwapReadonly
  BY DEF TokenSwapReadonly
<1>3. /\ swap_metas[i].pubkey = TokenSwapRoles[role]
      /\ swap_metas[i].is_writable
  BY <1>1, <1>2, PoolMetas
<1>4. /\ DOMAIN swap_ix.accounts = 1 .. Size(SentVariant) + 11
      /\ swap_ix.accounts[Size(SentVariant) + i] = swap_metas[i]
  BY SentInstruction, PoolMetas DEF IsJoined
<1>5. Size(SentVariant) + i \in DOMAIN swap_ix.accounts
  <2>1. Size(SentVariant) \in Nat
    BY SentInstruction DEF Size, VariantNames
  <2> HIDE DEF Size
  <2>2. \A n \in Nat, k \in 1 .. 11 : n + k \in 1 .. n + 11
    OBVIOUS
  <2> QED BY <1>4, <2>1, <2>2
<1> HIDE DEF swap_ix
<1> QED BY <1>3, <1>4, <1>5 DEF IsWritable

(* The accounts the harness makes up are never what the program objects to. *)
LEMMA AccountsAreInOrder ==
    ASSUME HInv, at = "quote"
    PROVE  AccountsInOrder(swap_ix)
<1> DEFINE us == Ata[User][source_mint]
           ud == Ata[User][destination_mint]
           ps == Ata[Authority][source_mint]
           pd == Ata[Authority][destination_mint]
<1>1. /\ source_mint \in PoolMints /\ destination_mint \in PoolMints
      /\ User \in Wallets /\ Authority \in Wallets
      /\ request.use_shared_accounts \in BOOLEAN
  BY ParamsOfTest, SentInstruction DEF Wallets
<1>2. /\ OwnedBy(User, us) /\ OwnedBy(User, ud)
      /\ OwnedBy(Authority, ps) /\ OwnedBy(Authority, pd)
  BY <1>1 DEF OwnedBy
<1>3. /\ MintOf(us) = source_mint /\ MintOf(ps) = source_mint
      /\ MintOf(ud) = destination_mint /\ MintOf(pd) = destination_mint
  BY <1>1, MintsOfAccounts
<1>4. /\ PoolRole(swap_ix, "source") = source_token_account
      /\ PoolRole(swap_ix, "destination") = destination_token_account
      /\ PoolRole(swap_ix, "swap_source") = TokenSwapRoles.swap_source
      /\ PoolRole(swap_ix, "swap_destination") = TokenSwapRoles.swap_destination
      /\ PoolRole(swap_ix, "user_transfer_authority") = token_authority
  BY PoolsPart
<1>5. /\ TokenSwapRoles.source = source_token_account
      /\ TokenSwapRoles.destination = destination_token_account
  BY DEF TokenSwapRoles
<1>6. \A a \in {source_token_account, TokenSwapRoles.swap_source,
                TokenSwapRoles.swap_destination, destination_token_account} :
          IsWritable(swap_ix, a)
  BY <1>5, PoolWrites
<1>7. /\ MintOf(source_token_account) = source_mint
      /\ MintOf(destination_token_account) = destination_mint
  BY <1>3 DEF source_token_account, destination_token_account
<1>8. CASE request.use_shared_accounts
  <2>1. /\ source_token_account = ps /\ destination_token_account = pd
        /\ token_authority = Authority
    BY <1>8 DEF source_token_account, destination_token_account, token_authority,
                OwnAccount, TOKEN2022_MINTS
  <2> HIDE DEF us, ud, ps, pd
  <2>2. /\ Accepted(swap_ix)
        /\ Reads(swap_ix, "user_transfer_authority") = User
        /\ Reads(swap_ix, "program_authority") = Authority
        /\ Reads(swap_ix, "program_destination_token_account") = pd
        /\ Payer(swap_ix) = us
        /\ IsShared(swap_ix)
    BY <1>8, <2>1, ProgramsPart, SentInstruction DEF us, pd
  <2> QED BY <1>2, <1>4, <1>6, <1>7, <2>1, <2>2, VaultsOfPair DEF AccountsInOrder
<1>9. CASE ~request.use_shared_accounts
  <2>1. /\ source_token_account = us /\ destination_token_account = ud
        /\ token_authority = User
    BY <1>9 DEF source_token_account, destination_token_account, token_authority, OwnAccount
  <2> HIDE DEF us, ud, ps, pd
  <2>2. /\ Accepted(swap_ix)
        /\ Reads(swap_ix, "user_transfer_authority") = User
        /\ Payer(swap_ix) = us
        /\ ~IsShared(swap_ix)
    BY <1>9, ProgramsPart, SentInstruction DEF us
  <2> QED BY <1>2, <1>4, <1>6, <1>7, <2>1, <2>2, VaultsOfPair DEF AccountsInOrder
<1> QED BY <1>1, <1>8, <1>9

(* A transaction goes through just when the rest of the accounts is there  *)
(* and the program's curve has a result the vault can take.                *)
LEMMA AllowedIs ==
    ASSUME HInv, at = "quote", amount <= InAmount[source_mint]
    PROVE  Allowed(swap_ix) <=> Served(Head(pairs)) /\ Executable(Head(pairs), amount)
<1>1. AccountsInOrder(swap_ix)
  BY AccountsAreInOrder
<1>2. Allowed(swap_ix) <=>
          /\ Required(swap_ix) \subseteq snapshot.rest
          /\ Offered(swap_ix) <= bank[Payer(swap_ix)]
          /\ PoolSwap(swap_ix).some
          /\ bank[PoolRole(swap_ix, "swap_source")]
                 + PoolSwap(swap_ix).source_amount_swapped <= MaxU64
  BY <1>1 DEF Allowed, AccountsInOrder
<1>3. Offered(swap_ix) <= bank[Payer(swap_ix)]
  <2>1. source_mint \in PoolMints /\ User \in Wallets
    BY ParamsOfTest DEF Wallets
  <2>2. bank[Ata[User][source_mint]] = (InAmount[source_mint] * 110) \div 10
    BY <2>1, BankOfTest
  <2>3. InAmount[source_mint] \in Nat /\ amount \in Nat
    BY <2>1, BankOfTest, PoolAssumption DEF HInv, BankIsSetUp, U64
  <2>4. \A n \in Nat : n <= (n * 110) \div 10
    OBVIOUS
  <2>5. Offered(swap_ix) = amount /\ Payer(swap_ix) = Ata[User][source_mint]
    BY SentInstruction, ProgramsPart
  <2>6. \A a, n, b \in Nat : a <= n /\ n <= b => a <= b
    OBVIOUS
  <2>7. bank[Ata[User][source_mint]] \in Nat
    BY <2>2, <2>3
  <2> QED BY <2>2, <2>3, <2>4, <2>5, <2>6, <2>7
<1>4. PoolRole(swap_ix, "swap_source") = TokenSwapRoles.swap_source
  BY PoolsPart
<1>5. Required(swap_ix) \subseteq snapshot.rest <=> Served(Head(pairs))
  BY RequiredIsNeeded DEF Served
<1> QED BY <1>2, <1>3, <1>4, <1>5, PoolSwapsPair DEF Executable

(* Such a transaction overdraws no account, and what the user has spent and *)
(* received are differences the harness can take.                           *)
LEMMA SettledIsCovered ==
    ASSUME HInv, at = "quote", Allowed(swap_ix)
    PROVE  /\ Settled(swap_ix) \in [TokenAccounts -> Nat]
           /\ \A vault \in PoolVaults : Settled(swap_ix)[vault] \in U64
           /\ bank[Ata[User][source_mint]] - Settled(swap_ix)[Ata[User][source_mint]] \in Nat
           /\ Settled(swap_ix)[Ata[User][destination_mint]]
                  - bank[Ata[User][destination_mint]] \in Nat
<1> DEFINE r == PoolSwap(swap_ix)
           x == r.source_amount_swapped
           y == r.destination_amount_swapped
           in == TokenSwapRoles.swap_source
           out == TokenSwapRoles.swap_destination
           us == Ata[User][source_mint]
           ud == Ata[User][destination_mint]
           ps == Ata[Authority][source_mint]
           pd == Ata[Authority][destination_mint]
           spent == IF request.use_shared_accounts THEN amount ELSE x
           settled == Settled(swap_ix)
<1>1. /\ x \in Nat /\ y \in Nat /\ amount \in Nat /\ MaxU64 \in Nat
      /\ PoolVaults = {in, out}
  BY PoolSwapsPair, PoolAssumption DEF CurveResults, HInv, BankIsSetUp, U64, PoolVaults
<1>2. /\ amount <= bank[us]
      /\ r.some
      /\ bank[in] + x <= MaxU64
  BY PoolsPart, ProgramsPart, SentInstruction DEF Allowed
<1>3. x <= amount /\ y <= bank[out]
  BY <1>2, PoolSwapsPair
<1>4. bank \in [TokenAccounts -> Nat] /\ bank[in] \in U64 /\ bank[out] \in U64
  BY BankOfTest, PoolSwapsPair
<1>5. /\ settled \in [TokenAccounts -> Int]
      /\ TokenAccounts = {us, ud, ps, pd, in, out}
      /\ settled[us] = bank[us] - spent
      /\ settled[ud] = bank[ud] + y
      /\ settled[ps] = bank[ps] + (spent - x)
      /\ settled[pd] = bank[pd]
      /\ settled[in] = bank[in] + x
      /\ settled[out] = bank[out] - y
  BY SettledBank
<1>6. spent \in Nat /\ x <= spent /\ spent <= amount
  BY <1>1, <1>3
<1> HIDE DEF r, x, y, in, out, us, ud, ps, pd, spent, settled
<1>7. /\ bank[us] \in Nat /\ bank[ud] \in Nat /\ bank[ps] \in Nat /\ bank[pd] \in Nat
      /\ bank[in] \in Nat /\ bank[out] \in Nat
  BY <1>4, <1>5
<1>8. settled[us] \in Nat /\ settled[ps] \in Nat /\ settled[pd] \in Nat /\ settled[ud] \in Nat
  BY <1>1, <1>2, <1>5, <1>6, <1>7
<1>9. settled[in] \in U64 /\ settled[out] \in U64
  BY <1>1, <1>2, <1>3, <1>4, <1>5, <1>7 DEF U64
<1>10. \A a \in TokenAccounts : settled[a] \in Nat
  <2>1. U64 \subseteq Nat
    BY <1>1 DEF U64
  <2> QED BY <1>5, <1>8, <1>9, <2>1
<1>11. bank[us] - settled[us] \in Nat /\ settled[ud] - bank[ud] \in Nat
  BY <1>1, <1>5, <1>6, <1>7
<1>12. settled \in [TokenAccounts -> Nat]
  BY <1>5, <1>10
<1>13. \A vault \in PoolVaults : settled[vault] \in U64
  BY <1>1, <1>9
<1> QED BY <1>11, <1>12, <1>13 DEF settled, us, ud

--------------------------------------------------------------------------------
(* The invariant.                                                          *)

(* All attempts but perhaps the last have failed, and quote_err says that  *)
(* one has.                                                                *)
Attempted ==
    /\ quote_count \in 0 .. Attempts
    /\ amount = HalfOf(Head(pairs), quote_count)
    /\ quote_result.ok => quote_count # 0
    /\ \A k \in 1 .. quote_count :
          AdapterResult(Head(pairs), HalfOf(Head(pairs), k)).some <=>
              k = quote_count /\ quote_result.ok
    /\ quote_err <=>
          \E k \in 1 .. quote_count :
              ~AdapterResult(Head(pairs), HalfOf(Head(pairs), k)).some

(* Nothing but the curve or a missing account makes a transaction fail. *)
Answered ==
    /\ quote_result.ok \/ quote_count = Attempts
    /\ executed.ok <=> Served(Head(pairs)) /\ Executable(Head(pairs), amount)
    /\ executed.source_diff >= 0
    /\ executed.destination_diff >= 0

TriedAsExpected ==
    request.expected_error # None =>
        \A t \in tried :
            /\ request.expected_error = QuoteFailed
            /\ ~AdapterResult(t.pair, HalfOf(t.pair, 1)).some
            /\ ~(Served(t.pair) /\ Executable(t.pair, t.amount))

VInv ==
    /\ at \in {"quote", "judge"} => Attempted
    /\ at = "judge" => Answered
    /\ tried # {} => one_test_passed
    /\ LargestQuotable
    /\ TriedAsExpected
    /\ FailMeansDisagreement

(* What a pair is quoted, paid and tried with depends on the test alone. *)
LEMMA PairStays ==
    ASSUME UNCHANGED <<request, snapshot, program>>
    PROVE  \A pair : /\ \A x : /\ AdapterResult(pair, x)' = AdapterResult(pair, x)
                               /\ ProgramResult(pair, x)' = ProgramResult(pair, x)
                               /\ Executable(pair, x)' <=> Executable(pair, x)
                               /\ AgreeOn(pair, x)' <=> AgreeOn(pair, x)
                     /\ Served(pair)' <=> Served(pair)
                     /\ TriedAmount(pair)' = TriedAmount(pair)
<1>1. \A pair, x : /\ AdapterResult(pair, x)' = AdapterResult(pair, x)
                   /\ ProgramResult(pair, x)' = ProgramResult(pair, x)
                   /\ Executable(pair, x)' <=> Executable(pair, x)
  BY DEF AdapterResult, ProgramResult, Executable, Balance
<1>2. \A pair : Served(pair)' <=> Served(pair)
  BY DEF Served, NeededFor
<1>3. \A pair, x : AgreeOn(pair, x)' <=> AgreeOn(pair, x)
  BY <1>1, <1>2 DEF AgreeOn, CurvesAgree
<1>4. \A pair : Quotable(pair)' = Quotable(pair)
  BY <1>1 DEF Quotable
<1>5. \A pair : TriedAmount(pair)' = TriedAmount(pair)
  BY <1>4 DEF TriedAmount
<1> QED BY <1>1, <1>3, <1>5, <1>2

(* A step within a test that adds no pair. *)
LEMMA TriedStays ==
    ASSUME VInv, UNCHANGED <<request, snapshot, program, tried>>
    PROVE  LargestQuotable' /\ TriedAsExpected'
BY PairStays DEF VInv, LargestQuotable, TriedAsExpected

LEMMA VerdictBegins == Init => VInv
BY DEF Init, VInv, LargestQuotable, TriedAsExpected, FailMeansDisagreement

LEMMA VerdictOfBegin == Begin => VInv'
BY DEF Begin, VInv, LargestQuotable, TriedAsExpected, FailMeansDisagreement

(* The amounts of the pair under test. *)
LEMMA HalvesOfTest ==
    ASSUME HInv, BankIsSetUp, at # "idle"
    PROVE  /\ InAmount[Head(pairs)[1]] \in U64
           /\ Head(pairs) \in Pairs
           /\ source_mint = Head(pairs)[1]
<1>1. /\ Head(pairs) \in {AB, BA} /\ Head(pairs) \in Pairs
      /\ source_mint = Head(pairs)[1]
  BY HeadIsPair DEF BankIsSetUp
<1>2. Head(pairs)[1] \in PoolMints
  BY <1>1 DEF AB, BA, PoolMints
<1> QED BY <1>1, <1>2, HarnessAssumption DEF BankIsSetUp

(* A snapshot that cannot be used fails the test, any other makes a bank.  *)
LEMMA VerdictOfLoad == HInv /\ VInv /\ LoadProgramTest /\ HInv' => VInv'
<1> SUFFICES ASSUME HInv, VInv, LoadProgramTest, HInv'
             PROVE  VInv'
  OBVIOUS
<1>1. UNCHANGED <<request, snapshot, program, tried, one_test_passed>>
  BY DEF LoadProgramTest, Panic
<1>2. LargestQuotable' /\ TriedAsExpected'
  BY <1>1, TriedStays
<1> DEFINE usable == /\ CanUpdate(amm, snapshot.accounts)
                     /\ PoolMints \subseteq DOMAIN InAmount
                     /\ request.swap_mode = "ExactIn"
<1>3. CASE usable
  <2>1. /\ at = "next" /\ pairs # <<>> /\ at' = "quote"
        /\ amount' = InAmount[source_mint]
        /\ quote_count' = 0 /\ quote_result' = NoQuote /\ quote_err' = FALSE
        /\ UNCHANGED <<pairs, verdict>>
    BY <1>3 DEF LoadProgramTest, NoAttempt
  <2>2. verdict = "none"
    BY <2>1 DEF HInv
  <2>3. InAmount[Head(pairs)[1]] \in U64 /\ source_mint = Head(pairs)[1]
    <3>1. Head(pairs) \in {AB, BA} /\ source_mint = Head(pairs)[1]
      BY <2>1, HeadIsPair
    <3>2. Head(pairs)[1] \in PoolMints
      BY <3>1 DEF AB, BA, PoolMints
    <3> QED BY <1>3, <3>1, <3>2, HarnessAssumption
  <2>4. amount' = HalfOf(Head(pairs), 0)
    BY <2>1, <2>3, HalvesOfPair
  <2>5. Attempted'
    BY <2>1, <2>4, HarnessAssumption DEF Attempted, NoQuote
  <2> QED BY <1>1, <1>2, <2>1, <2>2, <2>5 DEF VInv, FailMeansDisagreement
<1>4. CASE ~usable
  <2>1. at' = "idle" /\ UNCHANGED <<amm, tried, one_test_passed>>
    BY <1>4 DEF LoadProgramTest, Panic
  <2>2. FailMeansDisagreement'
    BY <1>1, <1>4, <2>1 DEF FailMeansDisagreement, Usable
  <2> QED BY <1>1, <1>2, <2>1, <2>2 DEF VInv
<1> QED BY <1>3, <1>4

(* An attempt halves the amount, and its quote decides. *)
LEMMA VerdictOfTry == HInv /\ VInv /\ TryQuote => VInv'
<1> SUFFICES ASSUME HInv, VInv, TryQuote
             PROVE  VInv'
  OBVIOUS
<1> DEFINE pair == Head(pairs)
           n == quote_count + 1
           some(k) == AdapterResult(pair, HalfOf(pair, k)).some
<1>1. /\ at = "quote" /\ ~quote_result.ok /\ quote_count < Attempts
      /\ amount' = amount \div 2
      /\ quote_result' = quote(amm, source_mint, amount \div 2)
      /\ quote_err' = (quote_err \/ ~quote_result'.ok)
      /\ quote_count' = n
      /\ UNCHANGED <<at, request, snapshot, program, pairs, tried, one_test_passed, verdict>>
  BY DEF TryQuote, AttemptAmount, AttemptCount
<1>2. Attempted /\ BankIsSetUp /\ verdict = "none"
  BY <1>1 DEF HInv, VInv
<1>3. /\ quote_count \in 0 .. Attempts /\ Attempts \in Nat
      /\ n \in 1 .. Attempts /\ n - 1 = quote_count
  <2>1. quote_count \in 0 .. Attempts /\ Attempts \in Nat
    BY <1>2, HarnessAssumption DEF Attempted
  <2> QED BY <1>1, <2>1
<1>4. InAmount[pair[1]] \in U64
  BY <1>1, <1>2, HalvesOfTest
<1>5. amount \div 2 = HalfOf(pair, n) /\ HalfOf(pair, n) \in U64
  BY <1>2, <1>3, <1>4, HalvesOfPair DEF Attempted
<1>6. quote_result'.ok <=> some(n)
  BY <1>1, <1>5, QuotedIsQuotable
<1>7. \A k \in 1 .. quote_count : ~some(k)
  BY <1>1, <1>2 DEF Attempted
<1>8. \A k \in 1 .. n : k = n \/ k \in 1 .. quote_count
  BY <1>3
<1>9. \A k \in 1 .. n : some(k) <=> k = n /\ quote_result'.ok
  BY <1>6, <1>7, <1>8
<1>10. quote_err' <=> \E k \in 1 .. n : ~some(k)
  <2>1. quote_err <=> \E k \in 1 .. quote_count : ~some(k)
    BY <1>2 DEF Attempted
  <2>2. \A k \in 1 .. quote_count : k \in 1 .. n
    BY <1>3
  <2>3. n \in 1 .. n
    BY <1>3
  <2> QED BY <1>1, <1>6, <1>8, <2>1, <2>2, <2>3
<1>11. \A k : some(k)' <=> some(k)
  BY <1>1, PairStays
<1> HIDE DEF n
<1>12. Attempted'
  <2>1. n # 0 /\ n \in 0 .. Attempts
    BY <1>3
  <2> QED BY <1>1, <1>5, <1>9, <1>10, <1>11, <2>1 DEF Attempted
<1>13. LargestQuotable' /\ TriedAsExpected'
  BY <1>1, TriedStays
<1> QED BY <1>1, <1>2, <1>12, <1>13 DEF VInv, FailMeansDisagreement

(* The bank answers as program and snapshot have it, and no difference is  *)
(* negative.                                                               *)
LEMMA VerdictOfProcess == HInv /\ VInv /\ ProcessTransaction => VInv'
<1> SUFFICES ASSUME HInv, VInv, ProcessTransaction
             PROVE  VInv'
  OBVIOUS
<1> DEFINE ok == Allowed(swap_ix)
           balances == IF ok THEN Settled(swap_ix) ELSE bank
           to == Ata[User][destination_mint]
           from == Ata[User][source_mint]
           pair == Head(pairs)
<1>1. /\ at = "quote" /\ at' = "judge"
      /\ quote_result.ok \/ quote_count >= Attempts
      /\ executed' = [ok |-> ok,
                      source_diff |-> bank[from] - balances[from],
                      destination_diff |-> balances[to] - bank[to]]
      /\ UNCHANGED <<request, snapshot, program, pairs, one_test_passed, amount,
                     quote_count, quote_result, quote_err, verdict, tried>>
  BY DEF ProcessTransaction, source_token_account_diff, destination_token_account_diff
<1>2. Attempted /\ BankIsSetUp /\ verdict = "none"
  BY <1>1 DEF HInv, VInv
<1>3. quote_result.ok \/ quote_count = Attempts
  <2>1. quote_count \in 0 .. Attempts /\ Attempts \in Nat
    BY <1>2, HarnessAssumption DEF Attempted
  <2> QED BY <1>1, <2>1
<1>4. amount <= InAmount[source_mint]
  <2>1. InAmount[pair[1]] \in U64 /\ source_mint = pair[1]
    BY <1>1, <1>2, HalvesOfTest
  <2>2. quote_count \in 0 .. Attempts /\ 0 \in 0 .. quote_count
    BY <1>2, HarnessAssumption DEF Attempted
  <2>3. HalfOf(pair, quote_count) <= HalfOf(pair, 0)
    BY <2>1, <2>2, HalvesOfPair
  <2> QED BY <1>2, <2>1, <2>3, HalvesOfPair DEF Attempted
<1>5. ok <=> Served(pair) /\ Executable(pair, amount)
  BY <1>1, <1>4, AllowedIs
<1>6. bank[from] - balances[from] >= 0 /\ balances[to] - bank[to] >= 0
  <2>1. CASE ok
    BY <1>1, <2>1, SettledIsCovered
  <2>2. CASE ~ok
    <3>1. bank[from] \in Nat /\ bank[to] \in Nat
      BY <1>1, BankOfTest, SettledBank
    <3> QED BY <2>2, <3>1
  <2> QED BY <2>1, <2>2
<1> HIDE DEF ok, balances, to, from
<1>7. /\ executed'.ok = ok
      /\ executed'.source_diff >= 0
      /\ executed'.destination_diff >= 0
  BY <1>1, <1>6
<1>8. /\ Executable(Head(pairs), amount)' <=> Executable(pair, amount)
      /\ Served(Head(pairs))' <=> Served(pair)
  BY <1>1, PairStays
<1>9. Answered'
  BY <1>1, <1>3, <1>5, <1>7, <1>8 DEF Answered
<1>10. \A k : AdapterResult(Head(pairs), HalfOf(Head(pairs), k))' =
                  AdapterResult(pair, HalfOf(pair, k))
  BY <1>1, PairStays
<1>11. Attempted'
  BY <1>1, <1>2, <1>10 DEF Attempted
<1>12. LargestQuotable' /\ TriedAsExpected'
  BY <1>1, TriedStays
<1> QED BY <1>1, <1>2, <1>9, <1>11, <1>12 DEF VInv, FailMeansDisagreement

(* The amount a pair is judged with: the first that was quoted is the      *)
(* largest, and if none was, the last is the smallest.                     *)
LEMMA JudgedAmount ==
    ASSUME HInv, VInv, at = "judge"
    PROVE  /\ amount = TriedAmount(Head(pairs))
           /\ AdapterResult(Head(pairs), amount).some <=> quote_result.ok
           /\ quote_err => ~AdapterResult(Head(pairs), HalfOf(Head(pairs), 1)).some
<1> DEFINE pair == Head(pairs)
           some(k) == AdapterResult(pair, HalfOf(pair, k)).some
           n == quote_count
<1>1. Attempted /\ Answered /\ BankIsSetUp
  BY DEF HInv, VInv
<1>2. Attempts \in Nat \ {0} /\ n \in 1 .. Attempts
  <2>1. n \in 0 .. Attempts /\ Attempts \in Nat \ {0}
    BY <1>1, HarnessAssumption DEF Attempted
  <2>2. n # 0
    BY <1>1, <2>1 DEF Attempted, Answered
  <2> QED BY <2>1, <2>2
<1>3. InAmount[pair[1]] \in U64
  BY <1>1, HalvesOfTest
<1>4. /\ amount = HalfOf(pair, n)
      /\ \A k \in 1 .. n : some(k) <=> k = n /\ quote_result.ok
  BY <1>1 DEF Attempted
<1>5. some(n) <=> quote_result.ok
  BY <1>2, <1>4
<1>6. \A k \in 1 .. Attempts : HalfOf(pair, k) \in Nat
  BY <1>2, <1>3, HalvesOfPair, PoolAssumption DEF U64
<1>7. Halves(pair) = {HalfOf(pair, k) : k \in 1 .. Attempts}
  BY <1>3, HalvesOfPair
<1>8. \A k, l \in 1 .. Attempts : k <= l => HalfOf(pair, l) <= HalfOf(pair, k)
  BY <1>2, <1>3, HalvesOfPair
<1>9. \A k \in 1 .. Attempts : some(k) => k >= n
  BY <1>2, <1>4
<1> HIDE DEF pair
<1>10. amount = TriedAmount(pair)
  <2>1. CASE quote_result.ok
    <3>1. amount \in Quotable(pair)
      BY <1>2, <1>4, <1>5, <1>7, <2>1 DEF Quotable
    <3>2. \A y \in Quotable(pair) : \E k \in 1 .. Attempts : y = HalfOf(pair, k) /\ some(k)
      BY <1>7 DEF Quotable
    <3>3. \A y \in Quotable(pair) : y \in Nat /\ amount >= y
      BY <1>2, <1>4, <1>6, <1>8, <1>9, <3>2
    <3>4. \E x \in Quotable(pair) : \A y \in Quotable(pair) : x >= y
      BY <3>1, <3>3
    <3>5. /\ Max(Quotable(pair)) \in Quotable(pair)
          /\ \A y \in Quotable(pair) : Max(Quotable(pair)) >= y
      BY <3>4 DEF Max
    <3>6. Max(Quotable(pair)) = amount
      BY <3>1, <3>3, <3>5
    <3> QED BY <3>1, <3>6 DEF TriedAmount
  <2>2. CASE ~quote_result.ok
    <3>1. n = Attempts
      BY <1>1, <2>2 DEF Answered
    <3>2. Quotable(pair) = {}
      BY <1>4, <1>7, <2>2, <3>1 DEF Quotable
    <3>3. amount \in Halves(pair)
      BY <1>2, <1>4, <1>7
    <3>4. \A y \in Halves(pair) : y \in Nat /\ amount <= y
      BY <1>2, <1>4, <1>6, <1>7, <1>8, <3>1
    <3>5. \E x \in Halves(pair) : \A y \in Halves(pair) : x <= y
      BY <3>3, <3>4
    <3>6. /\ Min(Halves(pair)) \in Halves(pair)
          /\ \A y \in Halves(pair) : Min(Halves(pair)) <= y
      BY <3>5 DEF Min
    <3>7. Min(Halves(pair)) = amount
      BY <3>3, <3>4, <3>6
    <3> QED BY <3>2, <3>7 DEF TriedAmount
  <2> QED BY <2>1, <2>2
<1>11. quote_err => ~some(1)
  <2> SUFFICES ASSUME quote_err
               PROVE  ~some(1)
    OBVIOUS
  <2>1. PICK k \in 1 .. n : ~some(k)
    BY <1>1 DEF Attempted, pair
  <2>2. CASE n = 1
    BY <1>2, <2>1, <2>2
  <2>3. CASE n # 1
    BY <1>2, <1>4, <2>3
  <2> QED BY <2>2, <2>3
<1> QED BY <1>4, <1>5, <1>10, <1>11 DEF pair

(* A comparison that finds no fault is one of the pair's amount; one that  *)
(* does has seen a disagreement.                                           *)
LEMMA VerdictOfJudge == HInv /\ VInv /\ Judge => VInv'
<1> SUFFICES ASSUME HInv, VInv, Judge
             PROVE  VInv'
  OBVIOUS
<1> DEFINE pair == Head(pairs)
<1>1. at = "judge" /\ UNCHANGED <<request, snapshot, program>>
  BY DEF Judge
<1>2. /\ Answered /\ AnswerIsOfPair /\ BankIsSetUp /\ verdict = "none"
      /\ LargestQuotable /\ TriedAsExpected
  BY <1>1 DEF HInv, VInv
<1>3. /\ amount = TriedAmount(pair)
      /\ AdapterResult(pair, amount).some <=> quote_result.ok
      /\ quote_err => ~AdapterResult(pair, HalfOf(pair, 1)).some
  BY <1>1, JudgedAmount
<1>4. CASE AsItShould
  <2> DEFINE new == [pair |-> pair, amount |-> amount]
  <2>1. /\ at' = "next" /\ one_test_passed' = TRUE
        /\ tried' = tried \cup {new}
        /\ UNCHANGED verdict
    BY <1>4 DEF Judge
  <2>2. new.pair = pair /\ new.amount = amount
    OBVIOUS
  <2>3. request.expected_error # None =>
            /\ request.expected_error = QuoteFailed
            /\ ~AdapterResult(pair, HalfOf(pair, 1)).some
            /\ ~(Served(pair) /\ Executable(pair, amount))
    BY <1>2, <1>3, <1>4 DEF AsItShould, Answered
  <2> HIDE DEF new, pair
  <2>4. \A t \in tried' : t.amount = TriedAmount(t.pair)
    BY <1>2, <1>3, <2>1, <2>2 DEF LargestQuotable
  <2>5. LargestQuotable'
    BY <1>1, <2>4, PairStays DEF LargestQuotable
  <2>6. request.expected_error # None =>
            \A t \in tried' :
                /\ request.expected_error = QuoteFailed
                /\ ~AdapterResult(t.pair, HalfOf(t.pair, 1)).some
                /\ ~(Served(t.pair) /\ Executable(t.pair, t.amount))
    BY <1>2, <2>1, <2>2, <2>3 DEF TriedAsExpected
  <2>7. TriedAsExpected'
    BY <1>1, <2>6, PairStays DEF TriedAsExpected
  <2> QED BY <1>2, <2>1, <2>5, <2>7 DEF VInv, FailMeansDisagreement
<1>5. CASE ~AsItShould
  <2>1. /\ at' = "idle"
        /\ UNCHANGED <<amm, tried, one_test_passed>>
    BY <1>5 DEF Judge, Panic
  <2>2. request.expected_error = None => ~AgreeOn(pair, TriedAmount(pair))
    <3> SUFFICES ASSUME request.expected_error = None, AgreeOn(pair, amount)
                 PROVE  FALSE
      BY <1>3
    <3>1. /\ Served(pair)
          /\ AdapterResult(pair, amount).some
          /\ Executable(pair, amount)
          /\ abs(AdapterResult(pair, amount).destination_amount_swapped
                 - ProgramResult(pair, amount).destination_amount_swapped)
                 <= request.tolerance
      BY DEF AgreeOn, CurvesAgree
    <3>2. quote_result.ok /\ executed.ok
      BY <1>2, <1>3, <3>1 DEF Answered
    <3>3. executed.destination_diff = ProgramResult(pair, amount).destination_amount_swapped
      BY <1>2, <3>2 DEF AnswerIsOfPair
    <3>4. quote_result.out_amount = AdapterResult(pair, amount).destination_amount_swapped
      BY <1>1, <3>2, QuoteIsAdapterResult
    <3>5. executed.source_diff >= 0 /\ executed.destination_diff >= 0
      BY <1>2 DEF Answered
    <3> QED BY <1>5, <3>1, <3>2, <3>3, <3>4, <3>5 DEF AsItShould
  <2>3. pair \in Pairs
    BY <1>1, <1>2, HalvesOfTest
  <2> HIDE DEF pair
  <2>4. request.expected_error = None =>
            \E p \in Pairs : ~AgreeOn(p, TriedAmount(p))'
    <3>1. \A p : AgreeOn(p, TriedAmount(p))' <=> AgreeOn(p, TriedAmount(p))
      BY <1>1, PairStays
    <3> QED BY <2>2, <2>3, <3>1
  <2>5. FailMeansDisagreement'
    BY <1>1, <2>4 DEF FailMeansDisagreement, Pairs
  <2>6. LargestQuotable' /\ TriedAsExpected'
    BY <1>1, <2>1, TriedStays
  <2> QED BY <1>2, <2>1, <2>5, <2>6 DEF VInv
<1> QED BY <1>4, <1>5

(* No test runs out of pairs without one that passed. *)
LEMMA VerdictOfEnd == HInv /\ VInv /\ End => VInv'
<1> SUFFICES ASSUME HInv, VInv, End
             PROVE  VInv'
  OBVIOUS
<1>1. /\ at = "next" /\ pairs = <<>> /\ at' = "idle"
      /\ verdict' = IF one_test_passed THEN "passed" ELSE "failed"
      /\ UNCHANGED <<request, snapshot, program, one_test_passed, tried>>
  BY DEF End
<1>2. TriedPairs = {AB, BA}
  BY <1>1 DEF HInv, Progress
<1>3. tried # {}
  BY <1>2 DEF TriedPairs
<1>4. verdict' = "passed"
  BY <1>1, <1>3 DEF VInv
<1>5. LargestQuotable' /\ TriedAsExpected'
  BY <1>1, TriedStays
<1> QED BY <1>1, <1>4, <1>5 DEF VInv, FailMeansDisagreement

LEMMA VerdictInvariance == Spec => []VInv
<1>1. HInv /\ VInv /\ [Next]_vars /\ HInv' => VInv'
  <2> SUFFICES ASSUME HInv, VInv, [Next]_vars, HInv'
               PROVE  VInv'
    OBVIOUS
  <2>1. CASE UNCHANGED vars
    <3>1. UNCHANGED <<at, request, snapshot, program, amm, pairs, one_test_passed, amount,
                      quote_count, quote_result, quote_err, executed, verdict, tried>>
      BY <2>1 DEF vars
    <3>2. \A k : AdapterResult(Head(pairs), HalfOf(Head(pairs), k))' =
                     AdapterResult(Head(pairs), HalfOf(Head(pairs), k))
      BY <3>1, PairStays
    <3>3. /\ Executable(Head(pairs), amount)' <=> Executable(Head(pairs), amount)
          /\ Served(Head(pairs))' <=> Served(Head(pairs))
      BY <3>1, PairStays
    <3>4. (at \in {"quote", "judge"} => Attempted)'
      BY <3>1, <3>2 DEF VInv, Attempted
    <3>5. (at = "judge" => Answered)'
      BY <3>1, <3>3 DEF VInv, Answered
    <3>6. LargestQuotable' /\ TriedAsExpected'
      BY <3>1, TriedStays
    <3>7. \A p : AgreeOn(p, TriedAmount(p))' <=> AgreeOn(p, TriedAmount(p))
      BY <3>1, PairStays
    <3>8. FailMeansDisagreement'
      BY <3>1, <3>7 DEF VInv, FailMeansDisagreement, Usable, Pairs
    <3> QED BY <3>1, <3>4, <3>5, <3>6, <3>8 DEF VInv
  <2> QED BY <2>1, VerdictOfBegin, VerdictOfLoad, VerdictOfTry, VerdictOfProcess,
             VerdictOfJudge, VerdictOfEnd DEF Next, TestStep
<1> QED BY <1>1, VerdictBegins, HarnessInvariance, PTL DEF Spec

--------------------------------------------------------------------------------
(* The theorems.                                                           *)

(* A pair passes with the largest of its halves that the adapter quotes,   *)
(* however often the amount is halved and whatever the curve.              *)
THEOREM LargestIsTried == Spec => []LargestQuotable
<1>1. VInv => LargestQuotable
  BY DEF VInv
<1> QED BY <1>1, VerdictInvariance, PTL

(* No test fails for the accounts, funds or authorities of the harness:    *)
(* there is a pair on which adapter and program disagree, or the snapshot  *)
(* lacks what a swap needs.                                                *)
THEOREM FailuresAreDisagreements == Spec => []FailMeansDisagreement
<1>1. VInv => FailMeansDisagreement
  BY DEF VInv
<1> QED BY <1>1, VerdictInvariance, PTL

(* A test that passes with an expected error has had it from the adapter   *)
(* for every pair, and the program has refused the pair's amount.          *)
THEOREM ErrorsAreReal == Spec => []ExpectedErrorIsReal
<1>1. \A pair : HalfOf(pair, 1) = InAmount[pair[1]] \div 2
  <2> SUFFICES ASSUME NEW pair
               PROVE  HalfOf(pair, 1) = InAmount[pair[1]] \div 2
    OBVIOUS
  <2> DEFINE x == InAmount[pair[1]]
             h == Halving(x)
  <2> HIDE DEF x, h
  <2>1. h = [k \in 0 .. Attempts |-> IF k = 0 THEN x ELSE h[k - 1] \div 2]
    BY HalvingIs DEF IsHalving, h
  <2>2. 0 \in 0 .. Attempts /\ 1 \in 0 .. Attempts
    BY HarnessAssumption
  <2>3. h[0] = x
    BY <2>1, <2>2
  <2>4. h[1] = h[0] \div 2
    BY <2>1, <2>2
  <2> QED BY <2>3, <2>4 DEF HalfOf, x, h
<1>2. HInv /\ VInv => ExpectedErrorIsReal
  <2> SUFFICES ASSUME HInv, VInv, verdict = "passed", request.expected_error # None
               PROVE  /\ request.expected_error = QuoteFailed
                      /\ \A pair \in Pairs :
                            /\ ~AdapterResult(pair, InAmount[pair[1]] \div 2).some
                            /\ ~(Served(pair) /\ Executable(pair, TriedAmount(pair)))
    BY DEF ExpectedErrorIsReal
  <2>1. {t.pair : t \in tried} = Pairs
    BY DEF HInv, TriedPairs
  <2>2. \A pair \in Pairs : \E t \in tried : t.pair = pair
    BY <2>1
  <2>3. \A t \in tried :
            /\ request.expected_error = QuoteFailed
            /\ ~AdapterResult(t.pair, HalfOf(t.pair, 1)).some
            /\ ~(Served(t.pair) /\ Executable(t.pair, TriedAmount(t.pair)))
    BY DEF VInv, TriedAsExpected, LargestQuotable
  <2>4. \A pair \in Pairs :
            /\ request.expected_error = QuoteFailed
            /\ ~AdapterResult(pair, InAmount[pair[1]] \div 2).some
            /\ ~(Served(pair) /\ Executable(pair, TriedAmount(pair)))
    BY <1>1, <2>2, <2>3
  <2> QED BY <2>4, PairsOfPool
<1> QED BY <1>2, HarnessInvariance, VerdictInvariance, PTL

--------------------------------------------------------------------------------
(* Types.                                                                  *)

LEMMA FreshTypes ==
    /\ from_keyed_account \in SplTokenSwapAmm
    /\ <<>> \in Seq(PoolMints \X PoolMints)
    /\ <<AB, BA>> \in Seq(PoolMints \X PoolMints)
    /\ EmptyBank \in [TokenAccounts -> Nat]
    /\ \A vault \in PoolVaults : EmptyBank[vault] \in U64
    /\ 0 \in U64
    /\ 0 \in 0 .. Attempts
    /\ NoQuote \in Quotes
    /\ NotExecuted \in [ok : BOOLEAN, source_diff : Nat, destination_diff : Nat]
<1>1. 0 \in U64 /\ 0 \in 0 .. Attempts
  BY PoolAssumption, HarnessAssumption DEF U64
<1>2. from_keyed_account \in SplTokenSwapAmm
  BY <1>1, PoolAssumption DEF from_keyed_account, SplTokenSwapAmm, SwapV1
<1>3. AB \in PoolMints \X PoolMints /\ BA \in PoolMints \X PoolMints
  BY DEF AB, BA, PoolMints
<1>4. EmptyBank \in [TokenAccounts -> Nat] /\ \A vault \in PoolVaults : EmptyBank[vault] \in U64
  BY <1>1 DEF EmptyBank, TokenAccounts
<1>5. /\ NoQuote \in Quotes
      /\ NotExecuted \in [ok : BOOLEAN, source_diff : Nat, destination_diff : Nat]
  BY <1>1 DEF NoQuote, Quotes, NotExecuted
<1> QED BY <1>1, <1>2, <1>3, <1>4, <1>5

LEMMA TypeOfBegin == Begin => TypeOK'
<1> SUFFICES ASSUME Begin
             PROVE  TypeOK'
  OBVIOUS
<1>1. pairs' = <<AB, BA>>
  BY PairsOfPool DEF Begin, from_keyed_account, AB
<1> QED BY <1>1, FreshTypes DEF Begin, TypeOK

LEMMA TypeOfPanic ==
    TypeOK /\ Panic /\ UNCHANGED <<request, snapshot, program>> => TypeOK'
BY DEF TypeOK, Panic

LEMMA TypeOfLoad == TypeOK /\ HInv /\ LoadProgramTest /\ HInv' => TypeOK'
<1> SUFFICES ASSUME TypeOK, HInv, LoadProgramTest, HInv'
             PROVE  TypeOK'
  OBVIOUS
<1>1. UNCHANGED <<request, snapshot, program>>
  BY DEF LoadProgramTest
<1>2. CASE Panic
  BY <1>1, <1>2, TypeOfPanic
<1>3. CASE ~Panic
  <2>1. /\ at = "next" /\ pairs # <<>>
        /\ CanUpdate(amm, snapshot.accounts)
        /\ PoolMints \subseteq DOMAIN InAmount
        /\ at' = "quote"
        /\ amm' = update(amm, snapshot.accounts)
        /\ bank' = Funded
        /\ amount' = InAmount[source_mint]
        /\ quote_count' = 0 /\ quote_result' = NoQuote /\ quote_err' = FALSE
        /\ UNCHANGED <<pairs, one_test_passed, executed, verdict, tried>>
    BY <1>3 DEF LoadProgramTest, NoAttempt
  <2>2. AmmOfPool /\ snapshot \in Snapshots /\ BankIsSetUp'
    BY <2>1 DEF HInv
  <2>3. CanUpdate(from_keyed_account, snapshot.accounts)
    BY <2>1, <2>2 DEF CanUpdate, AmmOfPool, from_keyed_account
  <2>4. /\ Funded \in [TokenAccounts -> Nat]
        /\ \A vault \in PoolVaults :
              Funded[vault] \in U64 /\ snapshot.accounts[vault].amount \in U64
    BY <2>1, <2>2, <2>3, FundedBank
  <2>5. amm' \in SplTokenSwapAmm
    <3>1. amm' = [amm EXCEPT !.reserves = <<snapshot.accounts[PoolState.token_a].amount,
                                            snapshot.accounts[PoolState.token_b].amount>>]
      BY <2>1, <2>2 DEF update, AmmOfPool
    <3>2. amm \in SplTokenSwapAmm
      BY DEF TypeOK
    <3> QED BY <2>4, <3>1, <3>2 DEF PoolVaults, SplTokenSwapAmm
  <2>6. amount' \in U64
    BY <2>2 DEF BankIsSetUp
  <2> QED BY <1>1, <2>1, <2>4, <2>5, <2>6, FreshTypes DEF TypeOK
<1> QED BY <1>2, <1>3

LEMMA TypeOfTry == TypeOK /\ HInv /\ TryQuote /\ HInv' => TypeOK'
<1> SUFFICES ASSUME TypeOK, HInv, TryQuote, HInv'
             PROVE  TypeOK'
  OBVIOUS
<1>1. /\ at = "quote" /\ at' = "quote" /\ ~quote_result.ok /\ quote_count < Attempts
      /\ amount' = amount \div 2
      /\ quote_result' = quote(amm, source_mint, amount')
      /\ quote_err' = (quote_err \/ ~quote_result'.ok)
      /\ quote_count' = quote_count + 1
      /\ UNCHANGED <<request, snapshot, program, amm, pairs, one_test_passed, bank,
                     executed, verdict, tried>>
  BY DEF TryQuote, AttemptAmount, AttemptCount
<1>2. amount' \in U64
  BY <1>1 DEF HInv, BankIsSetUp
<1>3. quote_result' \in Quotes
  BY <1>1, <1>2, QuotedIsQuotable
<1>4. quote_count' \in 0 .. Attempts
  <2>1. quote_count \in 0 .. Attempts /\ Attempts \in Nat
    BY HarnessAssumption DEF TypeOK
  <2> QED BY <1>1, <2>1
<1>5. quote_err' \in BOOLEAN
  BY <1>1 DEF TypeOK
<1> QED BY <1>1, <1>2, <1>3, <1>4, <1>5 DEF TypeOK

LEMMA TypeOfProcess == TypeOK /\ HInv /\ ProcessTransaction => TypeOK'
<1> SUFFICES ASSUME TypeOK, HInv, ProcessTransaction
             PROVE  TypeOK'
  OBVIOUS
<1> DEFINE ok == Allowed(swap_ix)
           balances == IF ok THEN Settled(swap_ix) ELSE bank
           to == Ata[User][destination_mint]
           from == Ata[User][source_mint]
<1>1. /\ at = "quote" /\ at' = "judge"
      /\ bank' = balances
      /\ executed' = [ok |-> ok,
                      source_diff |-> bank[from] - balances[from],
                      destination_diff |-> balances[to] - bank[to]]
      /\ UNCHANGED <<request, snapshot, program, amm, pairs, one_test_passed, amount,
                     quote_count, quote_result, quote_err, verdict, tried>>
  BY DEF ProcessTransaction, source_token_account_diff, destination_token_account_diff
<1>2. /\ balances \in [TokenAccounts -> Nat]
      /\ \A vault \in PoolVaults : balances[vault] \in U64
      /\ bank[from] - balances[from] \in Nat
      /\ balances[to] - bank[to] \in Nat
  <2>1. CASE ok
    BY <1>1, <2>1, SettledIsCovered
  <2>2. CASE ~ok
    <3>1. bank[from] \in Nat /\ bank[to] \in Nat
      BY <1>1, BankOfTest, SettledBank
    <3> QED BY <2>2, <3>1 DEF TypeOK
  <2> QED BY <2>1, <2>2
<1>3. ok \in BOOLEAN
  BY DEF Allowed
<1> HIDE DEF ok, balances, to, from
<1>4. executed' \in [ok : BOOLEAN, source_diff : Nat, destination_diff : Nat]
  BY <1>1, <1>2, <1>3
<1> QED BY <1>1, <1>2, <1>4 DEF TypeOK

LEMMA TypeOfJudge == TypeOK /\ HInv /\ Judge => TypeOK'
<1> SUFFICES ASSUME TypeOK, HInv, Judge
             PROVE  TypeOK'
  OBVIOUS
<1>1. UNCHANGED <<request, snapshot, program>>
  BY DEF Judge
<1>2. CASE Panic
  BY <1>1, <1>2, TypeOfPanic
<1>3. CASE ~Panic
  <2>1. /\ at = "judge" /\ at' = "next"
        /\ pairs' = Tail(pairs)
        /\ one_test_passed' = TRUE
        /\ tried' = tried \cup {[pair |-> Head(pairs), amount |-> amount]}
        /\ UNCHANGED <<amm, bank, amount, quote_count, quote_result, quote_err,
                       executed, verdict>>
    BY <1>3 DEF Judge
  <2>2. pairs # <<>> /\ pairs \in Seq(PoolMints \X PoolMints)
    BY <2>1 DEF HInv, BankIsSetUp, TypeOK
  <2>3. /\ Head(pairs) \in PoolMints \X PoolMints
        /\ Tail(pairs) \in Seq(PoolMints \X PoolMints)
    <3> DEFINE S == PoolMints \X PoolMints
    <3>1. pairs \in Seq(S)
      BY <2>2
    <3> HIDE DEF S
    <3>2. Head(pairs) \in S /\ Tail(pairs) \in Seq(S)
      BY <2>2, <3>1
    <3> QED BY <3>2 DEF S
  <2> QED BY <1>1, <2>1, <2>3 DEF TypeOK
<1> QED BY <1>2, <1>3

(* The bank never overdraws an account, no vault ever exceeds u64, and no  *)
(* difference the harness takes is negative.                               *)
THEOREM TypeCorrect == Spec => []TypeOK
<1>1. Init => TypeOK
  BY FreshTypes DEF Init, TypeOK
<1>2. TypeOK /\ HInv /\ [Next]_vars /\ HInv' => TypeOK'
  <2> SUFFICES ASSUME TypeOK, HInv, [Next]_vars, HInv'
               PROVE  TypeOK'
    OBVIOUS
  <2>1. CASE UNCHANGED vars
    BY <2>1 DEF vars, TypeOK
  <2>2. CASE End
    BY <2>2 DEF End, TypeOK
  <2> QED BY <2>1, <2>2, TypeOfBegin, TypeOfLoad, TypeOfTry, TypeOfProcess, TypeOfJudge
          DEF Next, TestStep
<1> QED BY <1>1, <1>2, HarnessInvariance, PTL DEF Spec

================================================================================
