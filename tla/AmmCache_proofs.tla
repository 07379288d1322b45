---------------------------- MODULE AmmCache_proofs ----------------------------
(***************************************************************************)
(* The safety properties of AmmCache for every pool, every curve within    *)
(* CurveAssumption, any number of instances, any moves of other traders    *)
(* and any bound on the slots.                                             *)
(*                                                                         *)
(* The argument: the past of the ledger is never rewritten, so whatever an *)
(* instance, a fetched answer or a quote was derived from stays true of    *)
(* the slot it was derived at.                                             *)
(***************************************************************************)
EXTENDS AmmCache, TLAPS

(* Every instance is an instance of the pool, and one that was not         *)
(* constructed was never updated.                                          *)
OfThePool ==
    \A i \in Amms :
        /\ amm[i].state = PoolState
        /\ amm[i].reserve_mints = <<PoolState.token_a_mint, PoolState.token_b_mint>>
        /\ ~live[i] => view[i] = -1 /\ ~response[i].pending

(* An answer holds what the chain had, of both vaults, at one slot, and the *)
(* instance it is for has seen nothing newer.                              *)
AnswersFaithful ==
    \A i \in Amms : response[i].pending =>
        /\ response[i].slot \in 0 .. now /\ view[i] <= response[i].slot
        /\ \A vault \in {PoolState.token_a, PoolState.token_b} :
              vault \in DOMAIN response[i].account_map =>
                  /\ vault \in DOMAIN ledger[response[i].slot]
                  /\ response[i].account_map[vault] = ledger[response[i].slot][vault]

Reserves(s) == IF s = -1 THEN <<0, 0>> ELSE VaultAmounts(s)

(* The price of one vault against the other. *)
PriceOf(amounts, amount, direction) ==
    IF direction = "AtoB"
    THEN CurveSwap(amount, amounts[1], amounts[2], "AtoB")
    ELSE CurveSwap(amount, amounts[2], amounts[1], "BtoA")

DirectionOf(input) == IF input = PoolState.token_a_mint THEN "AtoB" ELSE "BtoA"

MetasOf(direction) ==
    IF direction = "AtoB"
    THEN [swap_source |-> PoolState.token_a, swap_destination |-> PoolState.token_b]
    ELSE [swap_source |-> PoolState.token_b, swap_destination |-> PoolState.token_a]

QuoteOf(r) ==
    [ok |-> TRUE, in_amount |-> r.source_amount_swapped,
     out_amount |-> r.destination_amount_swapped,
     fee_amount |-> r.trade_fee + r.owner_fee]

(* A trade offers the price of the amounts given, on the vaults priced. *)
Priced(t, amounts) ==
    LET r == PriceOf(amounts, t.amount, DirectionOf(t.input))
    IN  /\ r.some
        /\ t.quote = QuoteOf(r)
        /\ t.metas = MetasOf(DirectionOf(t.input))

QuotesFaithful ==
    \A i \in Amms : trade[i].phase # "none" =>
        /\ Priced(trade[i], Reserves(trade[i].view))
        /\ trade[i].view # -1 => VaultsReadable(trade[i].view)

(* What became of a trade is what the pool program made of it. *)
OutcomesFaithful ==
    \A i \in Amms : trade[i].phase \in {"filled", "rejected"} =>
        trade[i].sim = OnChainSwap(ledger[trade[i].at], trade[i])

IInv ==
    /\ TypeOK
    /\ OfThePool
    /\ AnswersFaithful
    /\ ReservesFromOneSlot
    /\ QuotesFaithful
    /\ OutcomesFaithful

(* The curve never moves more than u64 holds. *)
LEMMA CurveBounds ==
    ASSUME NEW amount \in U64, NEW source \in U64, NEW destination \in U64,
           NEW direction \in Directions
    PROVE  LET r == CurveSwap(amount, source, destination, direction) IN
            /\ r.some \in BOOLEAN
            /\ r.some => /\ r.source_amount_swapped \in U64
                         /\ r.destination_amount_swapped \in U64
                         /\ r.trade_fee + r.owner_fee \in U64
                         /\ r.destination_amount_swapped <= destination
<1> DEFINE r == CurveSwap(amount, source, destination, direction)
<1>1. /\ r \in CurveResults
      /\ r.some => /\ r.source_amount_swapped <= amount
                   /\ r.trade_fee + r.owner_fee <= amount
                   /\ r.destination_amount_swapped <= destination
    BY CurveAssumption
<1>2. MaxU64 \in Nat /\ amount \in Nat /\ amount <= MaxU64
                     /\ destination \in Nat /\ destination <= MaxU64
    BY PoolAssumption DEF U64
<1>. QED
    BY <1>1, <1>2 DEF CurveResults, U64

--------------------------------------------------------------------------------
(* Types.                                                                  *)

LEMMA NoQuoteTyped == NoQuote \in Quotes
BY PoolAssumption DEF NoQuote, Quotes, U64

(* A curve result that exists becomes the quote, and fails no conversion.  *)
LEMMA IntoQuoteIs ==
    ASSUME NEW amount \in U64, NEW source \in U64, NEW destination \in U64,
           NEW direction \in Directions
    PROVE  LET r == CurveSwap(amount, source, destination, direction) IN
           IntoQuote(get_swap_curve_result(amount, source, destination, direction))
              = IF r.some THEN QuoteOf(r) ELSE NoQuote
<1> DEFINE r == CurveSwap(amount, source, destination, direction)
           c == get_swap_curve_result(amount, source, destination, direction)
<1>1. /\ c.some = r.some
      /\ c.input_amount = r.source_amount_swapped
      /\ c.expected_output_amount = r.destination_amount_swapped
      /\ c.fees = r.trade_fee + r.owner_fee
    BY DEF get_swap_curve_result
<1>2. r.some => /\ r.source_amount_swapped <= MaxU64
                /\ r.destination_amount_swapped <= MaxU64
                /\ r.trade_fee + r.owner_fee <= MaxU64
    BY CurveBounds, PoolAssumption DEF U64
<1> HIDE DEF r, c
<1>3. IntoQuote(c) = IF r.some THEN QuoteOf(r) ELSE NoQuote
    BY <1>1, <1>2 DEF IntoQuote, QuoteOf
<1>. QED
    BY <1>3 DEF r, c

LEMMA QuoteTyped ==
    ASSUME NEW a \in SplTokenSwapAmm, NEW input \in Mints, NEW amount \in U64
    PROVE  quote(a, input, amount) \in Quotes
<1>1. a.reserves[1] \in U64 /\ a.reserves[2] \in U64
    BY DEF SplTokenSwapAmm
<1>2. ASSUME NEW source \in U64, NEW destination \in U64, NEW direction \in Directions
      PROVE  IntoQuote(get_swap_curve_result(amount, source, destination, direction))
                \in Quotes
  <2> DEFINE r == CurveSwap(amount, source, destination, direction)
  <2>1. r.some => QuoteOf(r) \in Quotes
      BY CurveBounds DEF QuoteOf, Quotes
  <2>. QED
      BY <2>1, IntoQuoteIs, NoQuoteTyped
<1>3. CASE input = a.reserve_mints[1]
    BY <1>1, <1>2, <1>3 DEF quote, Directions
<1>4. CASE input # a.reserve_mints[1]
    BY <1>1, <1>2, <1>4 DEF quote, Directions
<1>. QED
    BY <1>3, <1>4

LEMMA AccountMapIs ==
    \A m : m \in AccountMap <=> \E S \in SUBSET Addresses : m \in [S -> VaultAccount]
BY DEF AccountMap

(* `update` keeps an instance an instance, whatever it is given. *)
LEMMA UpdateTyped ==
    ASSUME NEW a \in SplTokenSwapAmm, NEW m \in AccountMap
    PROVE  update(a, m) \in SplTokenSwapAmm
<1>1. CASE CanUpdate(a, m)
  <2>1. a.state.token_a \in DOMAIN m /\ a.state.token_b \in DOMAIN m
      BY <1>1 DEF CanUpdate, IsTokenAccount
  <2>2. PICK S \in SUBSET Addresses : m \in [S -> VaultAccount]
      BY AccountMapIs
  <2>3. m[a.state.token_a].amount \in U64 /\ m[a.state.token_b].amount \in U64
      BY <2>1, <2>2 DEF VaultAccount
  <2>. QED
      BY <1>1, <2>3 DEF update, SplTokenSwapAmm
<1>2. CASE ~CanUpdate(a, m)
    BY <1>2 DEF update
<1>. QED
    BY <1>1, <1>2

LEMMA ConstructedTyped == from_keyed_account \in SplTokenSwapAmm
BY PoolAssumption DEF from_keyed_account, SplTokenSwapAmm, SwapV1, U64

LEMMA MetasTyped ==
    ASSUME NEW a \in SplTokenSwapAmm, NEW input \in Mints
    PROVE  get_swap_and_account_metas(a, input) \in Metas
BY DEF get_swap_and_account_metas, SplTokenSwapAmm, SwapV1, Metas

(* What the pool program has established when it lets a swap through. *)
LEMMA OnChainOk ==
    ASSUME NEW accounts \in AccountMap, NEW t \in Trade, OnChainSwap(accounts, t).ok
    PROVE  LET src == t.metas.swap_source
               dst == t.metas.swap_destination
               sim == OnChainSwap(accounts, t)
           IN  /\ src \in DOMAIN accounts /\ dst \in DOMAIN accounts
               /\ sim \in Quotes
               /\ accounts[src].amount + sim.in_amount <= MaxU64
               /\ sim.out_amount <= accounts[dst].amount
<1> DEFINE src == t.metas.swap_source
           dst == t.metas.swap_destination
           direction == IF src = PoolState.token_a THEN "AtoB" ELSE "BtoA"
           r == CurveSwap(t.amount, accounts[src].amount, accounts[dst].amount, direction)
           sim == OnChainSwap(accounts, t)
<1>1. ~NoQuote.ok
    BY DEF NoQuote
<1>2. /\ src \in DOMAIN accounts /\ dst \in DOMAIN accounts
      /\ r.some
      /\ accounts[src].amount + r.source_amount_swapped <= MaxU64
      /\ sim = QuoteOf(r)
    BY <1>1 DEF OnChainSwap, IsTokenAccount, QuoteOf
<1>3. accounts[src].amount \in U64 /\ accounts[dst].amount \in U64
    BY <1>2, AccountMapIs DEF VaultAccount
<1>4. t.amount \in U64 /\ direction \in Directions
    BY DEF Trade, Directions
<1>5. /\ r.source_amount_swapped \in U64
      /\ r.destination_amount_swapped \in U64
      /\ r.trade_fee + r.owner_fee \in U64
      /\ r.destination_amount_swapped <= accounts[dst].amount
    BY <1>2, <1>3, <1>4, CurveBounds
<1> HIDE DEF r, sim, direction
<1>6. sim \in Quotes /\ sim.in_amount = r.source_amount_swapped
                     /\ sim.out_amount = r.destination_amount_swapped
    BY <1>2, <1>5 DEF QuoteOf, Quotes
<1>. QED
    BY <1>2, <1>5, <1>6 DEF sim

(* The accounts it leaves behind. *)
LEMMA AccountsAfterTyped ==
    ASSUME NEW accounts \in AccountMap, NEW t \in Trade, OnChainSwap(accounts, t).ok
    PROVE  AccountsAfter(accounts, t, OnChainSwap(accounts, t)) \in AccountMap
<1> DEFINE src == t.metas.swap_source
           dst == t.metas.swap_destination
           sim == OnChainSwap(accounts, t)
           paid == [accounts EXCEPT ![src].amount = @ + sim.in_amount]
           after == [paid EXCEPT ![dst].amount = @ - sim.out_amount]
<1>1. PICK S \in SUBSET Addresses : accounts \in [S -> VaultAccount]
    BY AccountMapIs
<1>2. /\ src \in S /\ dst \in S
      /\ sim.in_amount \in U64 /\ sim.out_amount \in U64
      /\ accounts[src].amount + sim.in_amount <= MaxU64
      /\ sim.out_amount <= accounts[dst].amount
    BY <1>1, OnChainOk DEF Quotes
<1>3. AccountsAfter(accounts, t, sim) = after
    BY DEF AccountsAfter
<1> HIDE DEF src, dst, sim
<1>4. paid \in [S -> VaultAccount] /\ sim.out_amount <= paid[dst].amount
    BY <1>1, <1>2, PoolAssumption DEF VaultAccount, U64
<1> HIDE DEF paid
<1>5. after \in [S -> VaultAccount]
    BY <1>2, <1>4, PoolAssumption DEF VaultAccount, U64
<1>6. after \in AccountMap
    BY <1>5, AccountMapIs
<1>. QED
    BY <1>3, <1>6 DEF sim

LEMMA AdvanceTyped ==
    ASSUME TypeOK, NEW accounts \in AccountMap, Advance(accounts)
    PROVE  /\ now' \in 0 .. MaxSlot /\ now' = now + 1
           /\ ledger' \in [0 .. now' -> AccountMap]
           /\ \A s \in 0 .. now : ledger'[s] = ledger[s]
<1>1. now \in Nat /\ MaxSlot \in Nat
    BY AmmCacheAssumption DEF TypeOK
<1>2. now' \in 0 .. MaxSlot /\ now' = now + 1
    BY <1>1 DEF Advance
<1>3. ledger' = [s \in 0 .. now + 1 |-> IF s = now + 1 THEN accounts ELSE ledger[s]]
    BY DEF Advance
<1>4. \A s \in 0 .. now + 1 : s = now + 1 \/ s \in 0 .. now
    BY <1>1
<1>5. ledger' \in [0 .. now + 1 -> AccountMap]
    BY <1>3, <1>4 DEF TypeOK
<1>6. \A s \in 0 .. now : ledger'[s] = ledger[s]
    BY <1>1, <1>3
<1>. QED
    BY <1>2, <1>5, <1>6

LEMMA RestTyped == NoResponse \in Response /\ NoTrade \in Trade
<1>1. NoAccounts \in [{} -> VaultAccount]
    BY DEF NoAccounts
<1>2. NoResponse \in Response
    BY <1>1, AccountMapIs DEF NoResponse, Response
<1>3. NoTrade \in Trade
    BY PoolAssumption, NoQuoteTyped DEF NoTrade, Trade, Metas, SwapV1, U64
<1>. QED
    BY <1>2, <1>3

(* Every variable keeps its type in every step. *)
LEMMA TypeStep == TypeOK /\ [Next]_vars => TypeOK'
<1> SUFFICES ASSUME TypeOK, [Next]_vars
             PROVE  TypeOK'
    OBVIOUS
<1>a. now \in Nat
    BY AmmCacheAssumption DEF TypeOK
<1>1. CASE ChainMoves
  <2>1. PICK accounts \in AccountMap : Advance(accounts)
      BY <1>1, AmmCacheAssumption DEF ChainMoves
  <2>2. /\ now' \in 0 .. MaxSlot /\ now' = now + 1
        /\ ledger' \in [0 .. now' -> AccountMap]
        /\ UNCHANGED <<live, amm, view, response, trade>>
      BY <1>1, <2>1, AdvanceTyped DEF ChainMoves
  <2>3. view' \in [Amms -> (-1) .. now']
      BY <1>a, <2>2 DEF TypeOK
  <2>4. \A i \in Amms : response'[i].slot <= now' /\ trade'[i].view <= now' /\ trade'[i].at <= now'
      BY SMTT(30), <1>a, <2>2 DEF TypeOK, Response, Trade
  <2>. QED
      BY <2>2, <2>3, <2>4 DEF TypeOK
<1>2. ASSUME NEW i \in Amms, amm_factory(i)
      PROVE  TypeOK'
  <2>1. UNCHANGED <<now, ledger, view, response, trade>> /\ live' \in [Amms -> BOOLEAN]
      BY <1>2, AmmCacheAssumption DEF amm_factory, TypeOK, KeyedAccount
  <2>2. amm' \in [Amms -> SplTokenSwapAmm]
      BY <1>2, ConstructedTyped DEF amm_factory, TypeOK
  <2>. QED
      BY <2>1, <2>2 DEF TypeOK
<1>3. ASSUME NEW i \in Amms, FetchAccounts(i)
      PROVE  TypeOK'
  <2> DEFINE requested == get_accounts_to_update(amm[i]) \cap DOMAIN ledger[now]
             answer == [pending |-> TRUE, slot |-> now,
                        account_map |-> [a \in requested |-> ledger[now][a]]]
  <2>1. answer \in Response
    <3>1. PICK S \in SUBSET Addresses : ledger[now] \in [S -> VaultAccount]
        BY <1>a, AccountMapIs DEF TypeOK
    <3>2. [a \in requested |-> ledger[now][a]] \in [requested -> VaultAccount]
        BY <3>1
    <3>3. [a \in requested |-> ledger[now][a]] \in AccountMap
        BY <3>1, <3>2, AccountMapIs
    <3>. QED
        BY <1>a, <3>3 DEF Response
  <2>2. response' = [response EXCEPT ![i] = answer]
        /\ UNCHANGED <<now, ledger, live, amm, view, trade>>
      BY <1>3 DEF FetchAccounts
  <2>3. answer.slot = now
      OBVIOUS
  <2> HIDE DEF answer
  <2>. QED
      BY <1>a, <2>1, <2>2, <2>3 DEF TypeOK
<1>4. ASSUME NEW i \in Amms, ApplyUpdate(i)
      PROVE  TypeOK'
  <2>1. amm' \in [Amms -> SplTokenSwapAmm]
    <3>1. response[i].account_map \in AccountMap
        BY DEF TypeOK, Response
    <3>. QED
        BY <1>4, <3>1, UpdateTyped DEF ApplyUpdate, TypeOK
  <2>2. view' \in [Amms -> (-1) .. now]
    <3>1. response[i].slot \in Nat /\ response[i].slot <= now
        BY DEF TypeOK, Response
    <3>. QED
        BY <1>4, <1>a, <3>1 DEF ApplyUpdate, TypeOK
  <2>3. response' \in [Amms -> Response] /\ \A j \in Amms : response'[j].slot <= now
      BY <1>4, <1>a, RestTyped DEF ApplyUpdate, TypeOK, NoResponse
  <2>4. UNCHANGED <<now, ledger, live, trade>>
      BY <1>4 DEF ApplyUpdate
  <2>. QED
      BY <2>1, <2>2, <2>3, <2>4 DEF TypeOK
<1>5. ASSUME NEW i \in Amms, ExecuteSwap(i)
      PROVE  TypeOK'
  <2> DEFINE t == trade[i]
             sim == OnChainSwap(ledger[now], t)
             phase == IF sim.ok THEN "filled" ELSE "rejected"
  <2>1. t \in Trade /\ ledger[now] \in AccountMap
      BY <1>a DEF TypeOK
  <2>2. /\ now' \in 0 .. MaxSlot /\ now <= now'
        /\ ledger' \in [0 .. now' -> AccountMap]
    <3>1. CASE sim.ok
      <4>1. Advance(AccountsAfter(ledger[now], t, sim))
          BY <1>5, <3>1 DEF ExecuteSwap
      <4>2. AccountsAfter(ledger[now], t, sim) \in AccountMap
          BY <2>1, <3>1, AccountsAfterTyped
      <4>. QED
          BY <1>a, <4>1, <4>2, AdvanceTyped
    <3>2. CASE ~sim.ok
        BY <1>5, <1>a, <3>2 DEF ExecuteSwap, TypeOK
    <3>. QED
        BY <3>1, <3>2
  <2>3. sim \in Quotes
    <3>1. CASE sim.ok
        BY <2>1, <3>1, OnChainOk
    <3>2. CASE ~sim.ok
      <4>1. sim = NoQuote
          BY <3>2 DEF OnChainSwap
      <4>. QED
          BY <4>1, NoQuoteTyped
    <3>. QED
        BY <3>1, <3>2
  <2> DEFINE done == [t EXCEPT !.phase = phase, !.at = now, !.sim = sim]
  <2>4. trade' = [trade EXCEPT ![i] = done] /\ UNCHANGED <<live, amm, view, response>>
      BY <1>5 DEF ExecuteSwap
  <2> HIDE DEF sim
  <2>5. done \in Trade /\ done.view = t.view /\ done.at = now
      BY <1>a, <2>1, <2>3 DEF Trade
  <2> HIDE DEF done
  <2>6. trade' \in [Amms -> Trade]
      BY <2>4, <2>5 DEF TypeOK
  <2>7. view' \in [Amms -> (-1) .. now']
      BY <1>a, <2>2, <2>4 DEF TypeOK
  <2>8. \A j \in Amms : response'[j].slot <= now'
      BY <1>a, <2>2, <2>4 DEF TypeOK, Response
  <2>9. \A j \in Amms : trade'[j].view <= now' /\ trade'[j].at <= now'
    <3>1. \A j \in Amms : /\ trade[j].view \in Int /\ trade[j].view <= now
                          /\ trade[j].at \in Int /\ trade[j].at <= now
        BY DEF TypeOK, Trade
    <3>2. \A j \in Amms : trade'[j] = IF j = i THEN done ELSE trade[j]
        BY <2>4 DEF TypeOK
    <3>. QED
        BY <1>a, <2>2, <2>5, <3>1, <3>2
  <2>. QED
      BY <2>2, <2>4, <2>6, <2>7, <2>8, <2>9 DEF TypeOK
<1>6. ASSUME NEW i \in Amms, NEW j \in Amms, CloneAmm(i, j)
      PROVE  TypeOK'
  <2>1. clone_amm(amm[i]) \in SplTokenSwapAmm
      BY DEF clone_amm, TypeOK, SplTokenSwapAmm
  <2>. QED
      BY <1>6, <2>1 DEF CloneAmm, TypeOK
<1>7. ASSUME NEW i \in Amms, NEW input \in Mints, NEW output \in Mints,
             NEW amount \in TradeAmounts, QuoteSwap(i, input, output, amount)
      PROVE  TypeOK'
  <2> DEFINE q == quote(amm[i], input, amount)
             metas == get_swap_and_account_metas(amm[i], input)
             t == [phase |-> "quoted", input |-> input, output |-> output,
                   amount |-> amount, quote |-> q, metas |-> metas,
                   view |-> view[i], at |-> 0, sim |-> NoQuote]
  <2>1. q \in Quotes /\ metas \in Metas /\ amount \in U64
      BY QuoteTyped, MetasTyped, AmmCacheAssumption DEF TypeOK
  <2>2. view[i] \in Nat \cup {-1} /\ view[i] <= now
      BY <1>a DEF TypeOK
  <2>3. trade' = [trade EXCEPT ![i] = IF q.ok THEN t ELSE NoTrade]
        /\ UNCHANGED <<now, ledger, live, amm, view, response>>
      BY <1>7 DEF QuoteSwap
  <2> HIDE DEF q, metas
  <2>4. t \in Trade /\ t.view <= now /\ t.at <= now
      BY <1>a, <2>1, <2>2, NoQuoteTyped DEF Trade
  <2>5. NoTrade \in Trade /\ NoTrade.view <= now /\ NoTrade.at <= now
      BY <1>a, RestTyped DEF NoTrade
  <2> HIDE DEF t
  <2>. QED
      BY <2>3, <2>4, <2>5 DEF TypeOK
<1>8. CASE UNCHANGED vars
    BY <1>8 DEF vars, TypeOK
<1>. QED
    BY <1>1, <1>2, <1>3, <1>4, <1>5, <1>6, <1>7, <1>8 DEF Next

--------------------------------------------------------------------------------
(* The past of the ledger stays as it is. *)
LEMMA PastStays ==
    ASSUME TypeOK, [Next]_vars
    PROVE  /\ now \in Nat /\ now' \in Nat /\ now <= now'
           /\ \A s \in 0 .. now : s \in 0 .. now' /\ ledger'[s] = ledger[s]
<1>1. now \in Nat /\ MaxSlot \in Nat
    BY AmmCacheAssumption DEF TypeOK
<1>2. ASSUME NEW accounts, Advance(accounts)
      PROVE  now' = now + 1 /\ \A s \in 0 .. now : ledger'[s] = ledger[s]
    BY <1>1, <1>2 DEF Advance
<1>3. \/ \E accounts : Advance(accounts)
      \/ UNCHANGED <<now, ledger>>
    BY DEF Next, ChainMoves, amm_factory, FetchAccounts, ApplyUpdate, ExecuteSwap,
           CloneAmm, QuoteSwap, vars
<1>. QED
    BY <1>1, <1>2, <1>3

LEMMA OfThePoolStep == TypeOK /\ OfThePool /\ [Next]_vars => OfThePool'
<1> SUFFICES ASSUME TypeOK, OfThePool, [Next]_vars
             PROVE  OfThePool'
    OBVIOUS
<1> USE DEF OfThePool
<1>1. CASE ChainMoves
    BY <1>1 DEF ChainMoves
<1>2. ASSUME NEW i \in Amms, amm_factory(i)
      PROVE  OfThePool'
    BY <1>2 DEF amm_factory, from_keyed_account, TypeOK
<1>3. ASSUME NEW i \in Amms, FetchAccounts(i)
      PROVE  OfThePool'
    BY <1>3 DEF FetchAccounts, TypeOK
<1>4. ASSUME NEW i \in Amms, ApplyUpdate(i)
      PROVE  OfThePool'
  <2>1. \A m : /\ update(amm[i], m).state = amm[i].state
               /\ update(amm[i], m).reserve_mints = amm[i].reserve_mints
      BY DEF update, TypeOK, SplTokenSwapAmm
  <2>. QED
      BY <1>4, <2>1 DEF ApplyUpdate, NoResponse, TypeOK
<1>5. ASSUME NEW i \in Amms, ExecuteSwap(i)
      PROVE  OfThePool'
    BY <1>5 DEF ExecuteSwap
<1>6. ASSUME NEW i \in Amms, NEW j \in Amms, CloneAmm(i, j)
      PROVE  OfThePool'
    BY <1>6 DEF CloneAmm, clone_amm, TypeOK
<1>7. ASSUME NEW i \in Amms, NEW input \in Mints, NEW output \in Mints,
             NEW amount \in TradeAmounts, QuoteSwap(i, input, output, amount)
      PROVE  OfThePool'
    BY <1>7 DEF QuoteSwap
<1>8. CASE UNCHANGED vars
    BY <1>8 DEF vars
<1>. QED
    BY <1>1, <1>2, <1>3, <1>4, <1>5, <1>6, <1>7, <1>8 DEF Next

LEMMA AnswersStep == TypeOK /\ OfThePool /\ AnswersFaithful /\ [Next]_vars => AnswersFaithful'
<1> SUFFICES ASSUME TypeOK, OfThePool, AnswersFaithful, [Next]_vars
             PROVE  AnswersFaithful'
    OBVIOUS
<1>1. ASSUME NEW i \in Amms, FetchAccounts(i)
      PROVE  AnswersFaithful'
  <2>1. get_accounts_to_update(amm[i]) = {PoolState.token_a, PoolState.token_b}
      BY DEF OfThePool, get_accounts_to_update
  <2> DEFINE requested == get_accounts_to_update(amm[i]) \cap DOMAIN ledger[now]
             answer == [pending |-> TRUE, slot |-> now,
                        account_map |-> [a \in requested |-> ledger[now][a]]]
  <2>2. /\ response' = [response EXCEPT ![i] = answer]
        /\ UNCHANGED <<now, ledger>>
      BY <1>1 DEF FetchAccounts
  <2>3. /\ answer.slot = now
        /\ \A a \in DOMAIN answer.account_map :
              a \in DOMAIN ledger[now] /\ answer.account_map[a] = ledger[now][a]
      OBVIOUS
  <2> HIDE DEF answer
  <2>4. view'[i] <= now /\ UNCHANGED view
      BY <1>1 DEF FetchAccounts, TypeOK
  <2>. QED
      BY <2>2, <2>3, <2>4, PastStays DEF AnswersFaithful, TypeOK
<1>2. CASE \A i \in Amms : response'[i].pending =>
                response'[i] = response[i] /\ view'[i] = view[i]
    BY <1>2, PastStays DEF AnswersFaithful
<1>3. ASSUME NEW i \in Amms, ApplyUpdate(i), NEW j \in Amms, response'[j].pending
      PROVE  response'[j] = response[j] /\ view'[j] = view[j]
    BY <1>3 DEF ApplyUpdate, NoResponse, TypeOK
<1>4. ASSUME NEW i \in Amms, NEW k \in Amms, CloneAmm(i, k),
             NEW j \in Amms, response'[j].pending
      PROVE  response'[j] = response[j] /\ view'[j] = view[j]
    BY <1>4 DEF CloneAmm, OfThePool, TypeOK
<1>5. \/ \E i \in Amms : FetchAccounts(i) \/ ApplyUpdate(i)
      \/ \E i, k \in Amms : CloneAmm(i, k)
      \/ UNCHANGED <<response, view>>
    BY DEF Next, ChainMoves, amm_factory, ExecuteSwap, QuoteSwap, vars
<1>. QED
    BY <1>1, <1>2, <1>3, <1>4, <1>5

(* `update` takes over both vaults of the slot the answer came from. *)
LEMMA UpdateReads ==
    ASSUME TypeOK, OfThePool, AnswersFaithful, NEW i \in Amms, response[i].pending,
           CanUpdate(amm[i], response[i].account_map)
    PROVE  /\ response[i].slot \in 0 .. now
           /\ VaultsReadable(response[i].slot)
           /\ update(amm[i], response[i].account_map).reserves
                = VaultAmounts(response[i].slot)
<1> DEFINE m == response[i].account_map
           s == response[i].slot
<1>1. amm[i].state = PoolState
    BY DEF OfThePool
<1>2. IsTokenAccount(m, PoolState.token_a) /\ IsTokenAccount(m, PoolState.token_b)
    BY <1>1 DEF CanUpdate
<1>3. /\ s \in 0 .. now
      /\ \A vault \in {PoolState.token_a, PoolState.token_b} :
            vault \in DOMAIN ledger[s] /\ m[vault] = ledger[s][vault]
    BY <1>2 DEF AnswersFaithful, IsTokenAccount
<1>4. VaultsReadable(s)
    BY <1>2, <1>3 DEF VaultsReadable, IsTokenAccount
<1>5. update(amm[i], m).reserves = <<m[PoolState.token_a].amount, m[PoolState.token_b].amount>>
    BY <1>1 DEF update, TypeOK, SplTokenSwapAmm
<1>. QED
    BY <1>3, <1>4, <1>5 DEF VaultAmounts

LEMMA ReservesStep ==
    TypeOK /\ OfThePool /\ AnswersFaithful /\ ReservesFromOneSlot /\ [Next]_vars
        => ReservesFromOneSlot'
<1> SUFFICES ASSUME TypeOK, OfThePool, AnswersFaithful, ReservesFromOneSlot, [Next]_vars
             PROVE  ReservesFromOneSlot'
    OBVIOUS
<1>a. \A i \in Amms : view[i] # -1 => view[i] \in 0 .. now
    BY PastStays DEF TypeOK
<1>b. \A s \in 0 .. now : /\ VaultsReadable(s)' <=> VaultsReadable(s)
                          /\ VaultAmounts(s)' = VaultAmounts(s)
    BY PastStays DEF VaultsReadable, VaultAmounts
<1>1. ASSUME NEW i \in Amms, amm_factory(i)
      PROVE  ReservesFromOneSlot'
    BY <1>1 DEF amm_factory, from_keyed_account, OfThePool, ReservesFromOneSlot, TypeOK,
                VaultsReadable, VaultAmounts
<1>2. ASSUME NEW i \in Amms, ApplyUpdate(i)
      PROVE  ReservesFromOneSlot'
  <2> DEFINE m == response[i].account_map
  <2>1. /\ response[i].pending
        /\ amm' = [amm EXCEPT ![i] = update(amm[i], m)]
        /\ view' = [view EXCEPT ![i] = IF CanUpdate(amm[i], m) THEN response[i].slot ELSE @]
        /\ UNCHANGED ledger
      BY <1>2 DEF ApplyUpdate
  <2>2. ASSUME NEW j \in Amms
        PROVE  IF view'[j] = -1
               THEN amm'[j].reserves = <<0, 0>>
               ELSE VaultsReadable(view'[j]) /\ amm'[j].reserves = VaultAmounts(view'[j])
    <3>1. CASE j = i /\ CanUpdate(amm[i], m)
        BY <2>1, <3>1, <1>b, UpdateReads DEF TypeOK
    <3>2. CASE ~(j = i /\ CanUpdate(amm[i], m))
        BY <2>1, <3>2 DEF TypeOK, update, ReservesFromOneSlot
    <3>. QED
        BY <3>1, <3>2
  <2>. QED
      BY <2>1, <2>2 DEF ReservesFromOneSlot, VaultsReadable, VaultAmounts
<1>3. ASSUME NEW i \in Amms, NEW j \in Amms, CloneAmm(i, j)
      PROVE  ReservesFromOneSlot'
    BY <1>3 DEF CloneAmm, clone_amm, ReservesFromOneSlot, TypeOK, VaultsReadable, VaultAmounts
<1>4. CASE UNCHANGED <<amm, view>>
    BY <1>4, <1>a, <1>b DEF ReservesFromOneSlot
<1>5. \/ \E i \in Amms : amm_factory(i) \/ ApplyUpdate(i)
      \/ \E i, j \in Amms : CloneAmm(i, j)
      \/ UNCHANGED <<amm, view>>
    BY DEF Next, ChainMoves, FetchAccounts, ExecuteSwap, QuoteSwap, vars
<1>. QED
    BY <1>1, <1>2, <1>3, <1>4, <1>5

(* What `quote` answers, in terms of the slot the instance last saw. *)
LEMMA QuoteIs ==
    ASSUME TypeOK, OfThePool, ReservesFromOneSlot, NEW i \in Amms,
           NEW input \in Mints, NEW amount \in U64
    PROVE  LET r == PriceOf(Reserves(view[i]), amount, DirectionOf(input)) IN
           quote(amm[i], input, amount) = IF r.some THEN QuoteOf(r) ELSE NoQuote
<1>1. /\ amm[i].reserves = Reserves(view[i])
      /\ amm[i].reserve_mints[1] = PoolState.token_a_mint
    BY DEF ReservesFromOneSlot, Reserves, OfThePool
<1>2. Reserves(view[i])[1] \in U64 /\ Reserves(view[i])[2] \in U64
    BY <1>1 DEF TypeOK, SplTokenSwapAmm
<1>3. CASE input = PoolState.token_a_mint
  <2>1. DirectionOf(input) = "AtoB" /\ "AtoB" \in Directions
      BY <1>3 DEF DirectionOf, Directions
  <2>. QED
      BY <1>1, <1>2, <1>3, <2>1, IntoQuoteIs DEF PriceOf, quote
<1>4. CASE input # PoolState.token_a_mint
  <2>1. DirectionOf(input) = "BtoA" /\ "BtoA" \in Directions
      BY <1>4 DEF DirectionOf, Directions
  <2>. QED
      BY <1>1, <1>2, <1>4, <2>1, IntoQuoteIs DEF PriceOf, quote
<1>. QED
    BY <1>3, <1>4

LEMMA QuotesStep ==
    TypeOK /\ OfThePool /\ ReservesFromOneSlot /\ QuotesFaithful /\ [Next]_vars
        => QuotesFaithful'
<1> SUFFICES ASSUME TypeOK, OfThePool, ReservesFromOneSlot, QuotesFaithful, [Next]_vars
             PROVE  QuotesFaithful'
    OBVIOUS
<1>1. \A i \in Amms : trade[i].view = -1 \/ trade[i].view \in 0 .. now
    BY PastStays DEF TypeOK, Trade
<1>2. \A i \in Amms : view[i] = -1 \/ view[i] \in 0 .. now
    BY PastStays DEF TypeOK
<1>3. ASSUME NEW i \in Amms, trade[i].phase # "none",
             trade'[i].view = trade[i].view, trade'[i].input = trade[i].input,
             trade'[i].amount = trade[i].amount, trade'[i].quote = trade[i].quote,
             trade'[i].metas = trade[i].metas
      PROVE  /\ Priced(trade'[i], Reserves(trade[i].view)')
             /\ trade'[i].view # -1 => VaultsReadable(trade[i].view)'
  <2>1. Priced(trade[i], Reserves(trade[i].view))
        /\ (trade[i].view # -1 => VaultsReadable(trade[i].view))
      BY <1>3 DEF QuotesFaithful
  <2>2. Priced(trade'[i], Reserves(trade[i].view))
      BY <1>3, <2>1 DEF Priced
  <2>3. Reserves(trade[i].view)' = Reserves(trade[i].view)
      BY <1>1, <1>3, PastStays DEF Reserves, VaultAmounts
  <2>. QED
      BY <1>1, <1>3, <2>1, <2>2, <2>3, PastStays DEF VaultsReadable
<1>4. ASSUME NEW i \in Amms, NEW input \in Mints, NEW output \in Mints,
             NEW amount \in TradeAmounts, QuoteSwap(i, input, output, amount)
      PROVE  QuotesFaithful'
  <2> DEFINE q == quote(amm[i], input, amount)
             metas == get_swap_and_account_metas(amm[i], input)
             t == [phase |-> "quoted", input |-> input, output |-> output,
                   amount |-> amount, quote |-> q, metas |-> metas,
                   view |-> view[i], at |-> 0, sim |-> NoQuote]
  <2>1. trade' = [trade EXCEPT ![i] = IF q.ok THEN t ELSE NoTrade]
        /\ UNCHANGED <<now, ledger>>
      BY <1>4 DEF QuoteSwap
  <2>2. q.ok => Priced(t, Reserves(view[i]))
    <3>1. q = IF PriceOf(Reserves(view[i]), amount, DirectionOf(input)).some
              THEN QuoteOf(PriceOf(Reserves(view[i]), amount, DirectionOf(input)))
              ELSE NoQuote
        BY AmmCacheAssumption, QuoteIs
    <3>2. metas = MetasOf(DirectionOf(input))
        BY DEF get_swap_and_account_metas, OfThePool, MetasOf, DirectionOf
    <3>. QED
        BY <3>1, <3>2 DEF Priced, NoQuote
  <2>3. t.view = view[i] /\ (view[i] # -1 => VaultsReadable(view[i]))
      BY DEF ReservesFromOneSlot
  <2>4. NoTrade.phase = "none"
      BY DEF NoTrade
  <2> HIDE DEF t, q
  <2>. QED
      BY <2>1, <2>2, <2>3, <2>4
         DEF QuotesFaithful, Reserves, VaultsReadable, VaultAmounts, TypeOK
<1>5. ASSUME NEW i \in Amms, ExecuteSwap(i)
      PROVE  QuotesFaithful'
  <2>1. \A j \in Amms :
            /\ trade'[j].view = trade[j].view /\ trade'[j].input = trade[j].input
            /\ trade'[j].amount = trade[j].amount /\ trade'[j].quote = trade[j].quote
            /\ trade'[j].metas = trade[j].metas
            /\ trade'[j].phase # "none" => trade[j].phase # "none"
      BY <1>5 DEF ExecuteSwap, TypeOK, Trade
  <2>. QED
      BY <1>3, <2>1 DEF QuotesFaithful
<1>6. CASE UNCHANGED trade
    BY <1>3, <1>6 DEF QuotesFaithful
<1>7. \/ \E i \in Amms : ExecuteSwap(i)
      \/ \E i \in Amms, input, output \in Mints, amount \in TradeAmounts :
            QuoteSwap(i, input, output, amount)
      \/ UNCHANGED trade
    BY DEF Next, ChainMoves, amm_factory, FetchAccounts, ApplyUpdate, CloneAmm, vars
<1>. QED
    BY <1>4, <1>5, <1>6, <1>7

LEMMA OutcomesStep == TypeOK /\ OutcomesFaithful /\ [Next]_vars => OutcomesFaithful'
<1> SUFFICES ASSUME TypeOK, OutcomesFaithful, [Next]_vars
             PROVE  OutcomesFaithful'
    OBVIOUS
<1>1. \A i \in Amms : ledger'[trade[i].at] = ledger[trade[i].at]
    BY PastStays DEF TypeOK, Trade
<1>2. ASSUME NEW i \in Amms, ExecuteSwap(i)
      PROVE  OutcomesFaithful'
  <2> DEFINE phase == IF OnChainSwap(ledger[now], trade[i]).ok THEN "filled" ELSE "rejected"
             done == [trade[i] EXCEPT !.phase = phase, !.at = now,
                                      !.sim = OnChainSwap(ledger[now], trade[i])]
  <2>1. trade' = [trade EXCEPT ![i] = done]
      BY <1>2 DEF ExecuteSwap
  <2>2. /\ done.input = trade[i].input /\ done.output = trade[i].output
        /\ done.amount = trade[i].amount /\ done.metas = trade[i].metas
        /\ done.at = now /\ done.sim = OnChainSwap(ledger[now], trade[i])
      BY DEF TypeOK, Trade
  <2> HIDE DEF done
  <2>3. OnChainSwap(ledger[now], done) = OnChainSwap(ledger[now], trade[i])
      BY SMTT(30), <2>2 DEF OnChainSwap
  <2>4. ledger'[now] = ledger[now]
      BY PastStays
  <2>5. \A j \in Amms : trade'[j] = IF j = i THEN done ELSE trade[j]
      BY <2>1 DEF TypeOK
  <2>. QED
      BY <1>1, <2>2, <2>3, <2>4, <2>5 DEF OutcomesFaithful
<1>3. ASSUME NEW i \in Amms, NEW input \in Mints, NEW output \in Mints,
             NEW amount \in TradeAmounts, QuoteSwap(i, input, output, amount)
      PROVE  OutcomesFaithful'
  <2>1. trade'[i].phase \in {"none", "quoted"}
      BY <1>3 DEF QuoteSwap, NoTrade, TypeOK
  <2>2. \A j \in Amms \ {i} : trade'[j] = trade[j]
      BY <1>3 DEF QuoteSwap, TypeOK
  <2>. QED
      BY <1>1, <2>1, <2>2 DEF OutcomesFaithful
<1>4. CASE UNCHANGED trade
    BY <1>1, <1>4 DEF OutcomesFaithful
<1>5. \/ \E i \in Amms : ExecuteSwap(i)
      \/ \E i \in Amms, input, output \in Mints, amount \in TradeAmounts :
            QuoteSwap(i, input, output, amount)
      \/ UNCHANGED trade
    BY DEF Next, ChainMoves, amm_factory, FetchAccounts, ApplyUpdate, CloneAmm, vars
<1>. QED
    BY <1>2, <1>3, <1>4, <1>5

--------------------------------------------------------------------------------
LEMMA Initial == Init => IInv
<1> SUFFICES ASSUME Init
             PROVE  IInv
    OBVIOUS
<1>1. TypeOK
  <2>1. now = 0 /\ MaxSlot \in Nat /\ 0 .. 0 = {0}
      BY AmmCacheAssumption DEF Init
  <2>2. ledger \in [0 .. now -> AccountMap]
      BY <2>1, AmmCacheAssumption DEF Init
  <2>3. NoResponse.slot = 0 /\ NoTrade.view = -1 /\ NoTrade.at = 0
      BY DEF NoResponse, NoTrade
  <2>. QED
      BY <2>1, <2>2, <2>3, RestTyped, ConstructedTyped DEF Init, TypeOK
<1>2. OfThePool /\ ReservesFromOneSlot
    BY DEF Init, OfThePool, ReservesFromOneSlot, from_keyed_account, NoResponse
<1>3. AnswersFaithful /\ QuotesFaithful /\ OutcomesFaithful
    BY DEF Init, AnswersFaithful, QuotesFaithful, OutcomesFaithful, NoResponse, NoTrade
<1>. QED
    BY <1>1, <1>2, <1>3 DEF IInv

LEMMA Inductive == IInv /\ [Next]_vars => IInv'
BY TypeStep, OfThePoolStep, AnswersStep, ReservesStep, QuotesStep, OutcomesStep DEF IInv

LEMMA Invariance == Spec => []IInv
BY Initial, Inductive, PTL DEF Spec

--------------------------------------------------------------------------------
(* The amounts an offer was priced from are amounts of u64. *)
LEMMA AmountsTyped ==
    ASSUME IInv, NEW i \in Amms, trade[i].phase # "none"
    PROVE  /\ Reserves(trade[i].view)[1] \in U64
           /\ Reserves(trade[i].view)[2] \in U64
<1>1. CASE trade[i].view = -1
    BY <1>1, PoolAssumption DEF Reserves, U64
<1>2. CASE trade[i].view # -1
  <2>1. trade[i].view \in 0 .. now /\ VaultsReadable(trade[i].view)
      BY <1>2 DEF IInv, TypeOK, Trade, QuotesFaithful
  <2>2. ledger[trade[i].view] \in AccountMap
      BY <2>1 DEF IInv, TypeOK
  <2>3. /\ ledger[trade[i].view][PoolState.token_a].amount \in U64
        /\ ledger[trade[i].view][PoolState.token_b].amount \in U64
      BY <2>1, <2>2, AccountMapIs DEF VaultsReadable, IsTokenAccount, VaultAccount
  <2>. QED
      BY <1>2, <2>3 DEF Reserves, VaultAmounts
<1>. QED
    BY <1>1, <1>2

(* The instances, the fetched answers and the trades keep their types, and *)
(* no amount in them leaves u64.                                           *)
THEOREM TypeCorrect == Spec => []TypeOK
<1>1. IInv => TypeOK
    BY DEF IInv
<1>. QED
    BY <1>1, Invariance, PTL

(* However fetches, updates, clones and other traders interleave, the two  *)
(* reserves of an instance are those of one slot.                          *)
THEOREM OneSlot == Spec => []ReservesFromOneSlot
<1>1. IInv => ReservesFromOneSlot
    BY DEF IInv
<1>. QED
    BY <1>1, Invariance, PTL

(* No quote promises more than its destination vault held at that slot.    *)
THEOREM NoPhantom == Spec => []NoPhantomLiquidity
<1>1. ASSUME IInv, NEW i \in Amms, trade[i].phase # "none"
      PROVE  trade[i].quote.out_amount <=
                IF trade[i].view = -1 THEN 0
                ELSE ledger[trade[i].view][trade[i].metas.swap_destination].amount
  <2> DEFINE amounts == Reserves(trade[i].view)
             r == PriceOf(amounts, trade[i].amount, DirectionOf(trade[i].input))
  <2>1. /\ r.some
        /\ trade[i].quote = QuoteOf(r)
        /\ trade[i].metas = MetasOf(DirectionOf(trade[i].input))
      BY <1>1 DEF IInv, QuotesFaithful, Priced
  <2>a. trade[i].quote.out_amount = r.destination_amount_swapped
      BY <2>1 DEF QuoteOf
  <2>2. amounts[1] \in U64 /\ amounts[2] \in U64 /\ trade[i].amount \in U64
      BY <1>1, AmountsTyped DEF IInv, TypeOK, Trade
  <2>3. CASE DirectionOf(trade[i].input) = "AtoB"
    <3>1. r.destination_amount_swapped <= amounts[2]
        BY <2>1, <2>2, <2>3, CurveBounds DEF PriceOf, Directions
    <3>. QED
        BY <2>1, <2>a, <2>3, <3>1 DEF MetasOf, Reserves, VaultAmounts
  <2>4. CASE DirectionOf(trade[i].input) = "BtoA"
    <3>1. r.destination_amount_swapped <= amounts[1]
        BY <2>1, <2>2, <2>4, CurveBounds DEF PriceOf, Directions
    <3>. QED
        BY <2>1, <2>a, <2>4, <3>1 DEF MetasOf, Reserves, VaultAmounts
  <2>. QED
      BY <2>3, <2>4 DEF DirectionOf
<1>2. IInv => NoPhantomLiquidity
    BY <1>1 DEF NoPhantomLiquidity
<1>. QED
    BY <1>2, Invariance, PTL

(* A swap that lands on the vault amounts it was quoted from yields the    *)
(* quote.                                                                  *)
THEOREM QuoteSimulates == Spec => []QuoteMatchesSimulation
<1>1. ASSUME IInv, NEW i \in Amms,
             trade[i].phase \in {"filled", "rejected"}, trade[i].view # -1,
             VaultsReadable(trade[i].at),
             VaultAmounts(trade[i].at) = VaultAmounts(trade[i].view),
             ServedPair(trade[i].input, trade[i].output),
             ledger[trade[i].at][trade[i].metas.swap_source].amount
                + trade[i].quote.in_amount <= MaxU64
      PROVE  trade[i].sim = trade[i].quote
  <2> DEFINE t == trade[i]
             amounts == VaultAmounts(t.at)
             r == PriceOf(amounts, t.amount, DirectionOf(t.input))
  <2>1. /\ r.some
        /\ t.quote = QuoteOf(r)
        /\ t.metas = MetasOf(DirectionOf(t.input))
        /\ t.sim = OnChainSwap(ledger[t.at], t)
      BY <1>1 DEF IInv, QuotesFaithful, Priced, Reserves, OutcomesFaithful
  <2>2. /\ IsTokenAccount(ledger[t.at], t.metas.swap_source)
        /\ IsTokenAccount(ledger[t.at], t.metas.swap_destination)
      BY <1>1, <2>1 DEF VaultsReadable, MetasOf
  <2>3. /\ vaultMint(t.metas.swap_source) = t.input
        /\ vaultMint(t.metas.swap_destination) = t.output
      BY <1>1, <2>1, PoolAssumption DEF vaultMint, ServedPair, MetasOf, DirectionOf
  <2>4. r = CurveSwap(t.amount, ledger[t.at][t.metas.swap_source].amount,
                      ledger[t.at][t.metas.swap_destination].amount,
                      IF t.metas.swap_source = PoolState.token_a THEN "AtoB" ELSE "BtoA")
      BY <2>1, PoolAssumption DEF PriceOf, MetasOf, DirectionOf, VaultAmounts
  <2>5. t.quote.in_amount = r.source_amount_swapped
      BY <2>1 DEF QuoteOf
  <2> HIDE DEF r
  <2>. QED
      BY <1>1, <2>1, <2>2, <2>3, <2>4, <2>5 DEF OnChainSwap, QuoteOf
<1>2. IInv => QuoteMatchesSimulation
    BY <1>1 DEF QuoteMatchesSimulation
<1>. QED
    BY <1>2, Invariance, PTL

(* The conversions of `quote` never fail.                                  *)
THEOREM ConversionsFit == Spec => []QuoteFailsOnlyWithCurve
<1>1. ASSUME IInv, NEW i \in Amms, NEW input \in Mints, NEW amount \in TradeAmounts
      PROVE  quote(amm[i], input, amount).ok =
                IF input = PoolState.token_a_mint
                THEN CurveSwap(amount, amm[i].reserves[1], amm[i].reserves[2], "AtoB").some
                ELSE CurveSwap(amount, amm[i].reserves[2], amm[i].reserves[1], "BtoA").some
  <2>1. amm[i].reserves = Reserves(view[i]) /\ amount \in U64
      BY <1>1, AmmCacheAssumption DEF IInv, ReservesFromOneSlot, Reserves
  <2> DEFINE r == PriceOf(Reserves(view[i]), amount, DirectionOf(input))
  <2>2. quote(amm[i], input, amount) = IF r.some THEN QuoteOf(r) ELSE NoQuote
      BY <1>1, <2>1, QuoteIs DEF IInv
  <2>3. r = IF input = PoolState.token_a_mint
            THEN CurveSwap(amount, amm[i].reserves[1], amm[i].reserves[2], "AtoB")
            ELSE CurveSwap(amount, amm[i].reserves[2], amm[i].reserves[1], "BtoA")
      BY <2>1 DEF PriceOf, DirectionOf
  <2>4. r.some \in BOOLEAN
    <3>1. amm[i].reserves[1] \in U64 /\ amm[i].reserves[2] \in U64
        BY <1>1 DEF IInv, TypeOK, SplTokenSwapAmm
    <3>. QED
        BY <2>1, <2>3, <3>1, CurveBounds DEF Directions
  <2> HIDE DEF r
  <2>5. quote(amm[i], input, amount).ok = r.some
    <3>1. CASE r.some
        BY <2>2, <2>4, <3>1 DEF QuoteOf
    <3>2. CASE ~r.some
      <4>1. quote(amm[i], input, amount).ok = FALSE
          BY <2>2, <3>2 DEF NoQuote
      <4>2. r.some = FALSE
          BY <2>4, <3>2
      <4>. QED
          BY <4>1, <4>2
    <3>. QED
        BY <3>1, <3>2
  <2>. QED
      BY <2>3, <2>5
<1>2. IInv => QuoteFailsOnlyWithCurve
    BY <1>1 DEF QuoteFailsOnlyWithCurve
<1>. QED
    BY <1>2, Invariance, PTL

--------------------------------------------------------------------------------
(* The abstract specification means the same by the words it shares. *)
LEMMA SameWords ==
    /\ View!U64 = U64
    /\ View!NoQuote = NoQuote
    /\ View!AccountMap = AccountMap
    /\ \A m, a : View!IsTokenAccount(m, a) <=> IsTokenAccount(m, a)
BY DEF U64, NoQuote, VaultAccount, AccountMap, IsTokenAccount, View!U64, View!NoQuote,
       View!VaultAccount, View!AccountMap, View!IsTokenAccount

(* A reader that quotes from the chain as of its view offers what the      *)
(* instance does.                                                          *)
LEMMA SameOffer ==
    ASSUME IInv, NEW i \in Amms, NEW input \in Mints, NEW amount \in U64,
           quote(amm[i], input, amount).ok
    PROVE  LET metas == get_swap_and_account_metas(amm[i], input) IN
           /\ metas.swap_source \in View!Vaults /\ metas.swap_destination \in View!Vaults
           /\ metas.swap_source # metas.swap_destination
           /\ View!Price(view[i], metas.swap_source, metas.swap_destination, amount)
                = quote(amm[i], input, amount)
<1> DEFINE r == PriceOf(Reserves(view[i]), amount, DirectionOf(input))
           metas == get_swap_and_account_metas(amm[i], input)
<1>1. metas = MetasOf(DirectionOf(input))
    BY DEF get_swap_and_account_metas, IInv, OfThePool, MetasOf, DirectionOf
<1>2. quote(amm[i], input, amount) = IF r.some THEN QuoteOf(r) ELSE NoQuote
    BY QuoteIs DEF IInv
<1>3. r.some /\ quote(amm[i], input, amount) = QuoteOf(r)
    BY <1>2 DEF NoQuote
<1>4. View!Price(view[i], metas.swap_source, metas.swap_destination, amount) = QuoteOf(r)
  <2>1. r = CurveSwap(amount, View!Seen(view[i], metas.swap_source),
                      View!Seen(view[i], metas.swap_destination),
                      IF metas.swap_source = PoolState.token_a THEN "AtoB" ELSE "BtoA")
      BY <1>1, PoolAssumption
         DEF PriceOf, Reserves, VaultAmounts, MetasOf, DirectionOf, View!Seen
  <2> HIDE DEF r, metas
  <2>. QED
      BY <1>3, <2>1 DEF View!Price, QuoteOf
<1>. QED
    BY <1>1, <1>3, <1>4, PoolAssumption DEF View!Vaults, MetasOf

(* The instances implement readers without a cache. *)
THEOREM Refinement == Spec => RefinesPoolView
<1>1. ASSUME Init
      PROVE  View!Init
  <2>1. [i \in Amms |-> Offer(trade[i])] = [i \in Amms |-> View!NoOffer]
      BY <1>1, SameWords DEF Init, Offer, NoTrade, View!NoOffer
  <2>. QED
      BY <1>1, <2>1, SameWords, AmmCacheAssumption DEF Init, View!Init
<1>2. ASSUME IInv, [Next]_vars
      PROVE  [View!Next]_(View!vars)
  <2>a. /\ TypeOK /\ OfThePool /\ AnswersFaithful /\ ReservesFromOneSlot /\ [Next]_vars
        /\ now \in 0 .. now
      BY <1>2, AmmCacheAssumption DEF IInv, TypeOK
  <2> USE <1>2, <2>a
  <2> DEFINE offers == [j \in Amms |-> Offer(trade[j])]
  <2>1. ASSUME NEW accounts \in AccountMap, Advance(accounts), UNCHANGED <<view, offers>>
        PROVE  View!Next
    <3>1. /\ now < MaxSlot /\ now' = now + 1
          /\ ledger' \in [0 .. now' -> AccountMap]
          /\ \A s \in 0 .. now : ledger'[s] = ledger[s]
        BY <2>1, AdvanceTyped DEF Advance
    <3>2. ledger'[now'] \in AccountMap
        BY <3>1, AmmCacheAssumption DEF TypeOK
    <3>. QED
        BY <2>1, <3>1, <3>2, SameWords DEF View!Next, View!Move
  <2>2. CASE ChainMoves
      BY <2>1, <2>2, AmmCacheAssumption DEF ChainMoves
  <2>3. ASSUME NEW i \in Amms, amm_factory(i) \/ FetchAccounts(i)
        PROVE  UNCHANGED View!vars
      BY <2>3 DEF amm_factory, FetchAccounts, View!vars
  <2>4. ASSUME NEW i \in Amms, ApplyUpdate(i)
        PROVE  View!Next \/ UNCHANGED View!vars
    <3>1. CASE CanUpdate(amm[i], response[i].account_map)
      <4>1. /\ response[i].slot \in 0 .. now
            /\ VaultsReadable(response[i].slot)
            /\ view[i] <= response[i].slot
          BY <2>4, <3>1, UpdateReads DEF ApplyUpdate, AnswersFaithful
      <4>2. View!Readable(response[i].slot)
          BY <4>1, SameWords DEF VaultsReadable, View!Readable, View!Vaults
      <4>3. View!Look(i)
          BY <2>4, <3>1, <4>1, <4>2 DEF ApplyUpdate, View!Look
      <4>. QED
          BY <4>3 DEF View!Next
    <3>2. CASE ~CanUpdate(amm[i], response[i].account_map)
        BY <2>4, <3>2 DEF ApplyUpdate, TypeOK, View!vars
    <3>. QED
        BY <3>1, <3>2
  <2>5. ASSUME NEW i \in Amms, ExecuteSwap(i)
        PROVE  View!Next \/ UNCHANGED View!vars
    <3> DEFINE sim == OnChainSwap(ledger[now], trade[i])
    <3>1. UNCHANGED <<view, offers>>
      <4>1. \A j \in Amms :
                /\ trade'[j].metas = trade[j].metas /\ trade'[j].amount = trade[j].amount
                /\ trade'[j].quote = trade[j].quote
                /\ trade'[j].phase # "none" <=> trade[j].phase # "none"
          BY <2>5 DEF ExecuteSwap, TypeOK, Trade
      <4>2. UNCHANGED offers
          BY <4>1 DEF Offer
      <4>. QED
          BY <2>5, <4>2 DEF ExecuteSwap
    <3>2. CASE sim.ok
      <4>1. ledger[now] \in AccountMap /\ trade[i] \in Trade
          BY AmmCacheAssumption DEF TypeOK
      <4>2. AccountsAfter(ledger[now], trade[i], sim) \in AccountMap
          BY <3>2, <4>1, AccountsAfterTyped
      <4>. QED
          BY <2>1, <2>5, <3>1, <3>2, <4>2 DEF ExecuteSwap
    <3>3. CASE ~sim.ok
        BY <2>5, <3>1, <3>3 DEF ExecuteSwap, View!vars
    <3>. QED
        BY <3>2, <3>3
  <2>6. ASSUME NEW i \in Amms, NEW j \in Amms, CloneAmm(i, j)
        PROVE  View!Next
    <3>1. View!Adopt(i, j)
        BY <2>6 DEF CloneAmm, OfThePool, View!Adopt
    <3>. QED
        BY <3>1 DEF View!Next
  <2>7. ASSUME NEW i \in Amms, NEW input \in Mints, NEW output \in Mints,
               NEW amount \in TradeAmounts, QuoteSwap(i, input, output, amount)
        PROVE  View!Next
    <3> DEFINE q == quote(amm[i], input, amount)
               metas == get_swap_and_account_metas(amm[i], input)
    <3>1. amount \in U64
        BY AmmCacheAssumption
    <3>2. CASE q.ok
      <4>1. offers' = [offers EXCEPT ![i] =
                [made |-> TRUE, source |-> metas.swap_source,
                 destination |-> metas.swap_destination, amount |-> amount, quote |-> q]]
          BY <2>7, <3>2 DEF QuoteSwap, Offer, TypeOK
      <4>2. /\ metas.swap_source \in View!Vaults /\ metas.swap_destination \in View!Vaults
            /\ metas.swap_source # metas.swap_destination
            /\ View!Price(view[i], metas.swap_source, metas.swap_destination, amount) = q
          BY <3>1, <3>2, SameOffer
      <4>3. UNCHANGED <<now, ledger, view>>
          BY <2>7 DEF QuoteSwap
      <4> HIDE DEF q, metas
      <4>4. View!MakeOffer(i)
        <5> DEFINE source == metas.swap_source
                   destination == metas.swap_destination
        <5>1. /\ View!Price(view[i], source, destination, amount).ok
              /\ offers' = [offers EXCEPT ![i] =
                    [made |-> TRUE, source |-> source, destination |-> destination,
                     amount |-> amount,
                     quote |-> View!Price(view[i], source, destination, amount)]]
            BY <3>2, <4>1, <4>2
        <5>2. amount \in View!U64 /\ source # destination
              /\ source \in View!Vaults /\ destination \in View!Vaults
            BY <3>1, <4>2, SameWords
        <5> HIDE DEF source, destination
        <5>. QED
            BY <4>3, <5>1, <5>2 DEF View!MakeOffer
      <4>. QED
          BY <4>4 DEF View!Next
    <3>3. CASE ~q.ok
      <4>1. offers' = [offers EXCEPT ![i] = View!NoOffer]
          BY <2>7, <3>3, SameWords DEF QuoteSwap, Offer, NoTrade, View!NoOffer, TypeOK
      <4>2. View!Withdraw(i)
          BY <2>7, <4>1 DEF QuoteSwap, View!Withdraw
      <4>. QED
          BY <4>2 DEF View!Next
    <3>. QED
        BY <3>2, <3>3
  <2>8. CASE UNCHANGED vars
      BY <2>8 DEF vars, View!vars
  <2>. QED
      BY <2>2, <2>3, <2>4, <2>5, <2>6, <2>7, <2>8 DEF Next
<1>. QED
    BY <1>1, <1>2, Invariance, PTL DEF Spec, RefinesPoolView, View!Spec

================================================================================
