-------------------------------- MODULE AmmCache --------------------------------
(***************************************************************************)
(* Instances of the adapter against a chain that moves.  An instance is a  *)
(* cache: `update` copies the reserves of the two vaults, `quote` answers  *)
(* from the copy, and the swap built with `get_swap_and_account_metas` is  *)
(* executed later by the pool program on whatever the vaults then hold.    *)
(*                                                                         *)
(* Between the RPC that fetches the vaults and the `update` that uses the  *)
(* answer, between `update` and `quote`, and between `quote` and the swap, *)
(* other traders move the pool and other instances act.                    *)
(***************************************************************************)
EXTENDS SplTokenSwap, FiniteSets

CONSTANTS
    Amms,           \* names of instances (boxed `dyn Amm` values)
    KeyedAccounts,  \* pool accounts offered to the factory
    ChainStates,    \* account states other traders may leave behind
    TradeAmounts,   \* amounts a caller asks to be quoted
    MaxSlot         \* bound on the slots of a behaviour

(* What the factory looks at: the owner program, and whether the bytes     *)
(* after the version byte unpack as an initialised SwapV1.                 *)
KeyedAccount == [supported_owner : BOOLEAN, unpacks : BOOLEAN]

ASSUME AmmCacheAssumption ==
    /\ KeyedAccounts \subseteq KeyedAccount
    /\ ChainStates \subseteq AccountMap
    /\ TradeAmounts \subseteq U64
    /\ MaxSlot \in Nat

VARIABLES
    now,       \* the current slot
    ledger,    \* ledger[s]: the accounts as of slot s
    live,      \* live[i]: instance i was constructed
    amm,       \* amm[i]: the value of instance i
    view,      \* ghost: the slot amm[i].reserves were read at, -1 before any update
    response,  \* response[i]: an account map fetched for i and not yet applied
    trade      \* trade[i]: the last quote asked of i and what became of it

vars == <<now, ledger, live, amm, view, response, trade>>

NoAccounts == [a \in {} |-> [token |-> FALSE, amount |-> 0]]

NoResponse == [pending |-> FALSE, slot |-> 0, account_map |-> NoAccounts]

NoTrade ==
    [phase |-> "none", input |-> PoolState.token_a_mint,
     output |-> PoolState.token_b_mint, amount |-> 0,
     quote |-> NoQuote, metas |-> [swap_source |-> PoolState.token_a,
                                   swap_destination |-> PoolState.token_b],
     view |-> -1, at |-> 0, sim |-> NoQuote]

Response == [pending : BOOLEAN, slot : Nat, account_map : AccountMap]

Metas == [swap_source : Addresses, swap_destination : Addresses]

Trade == [phase : {"none", "quoted", "filled", "rejected"}, input : Mints,
          output : Mints, amount : U64, quote : Quotes, metas : Metas,
          view : Nat \cup {-1}, at : Nat, sim : Quotes]

--------------------------------------------------------------------------------
(* The chain.                                                              *)

vaultMint(address) ==
    IF address = PoolState.token_a THEN PoolState.token_a_mint
                                   ELSE PoolState.token_b_mint

Advance(accounts) ==
    /\ now < MaxSlot
    /\ now' = now + 1
    /\ ledger' = [s \in 0 .. now + 1 |-> IF s = now + 1 THEN accounts ELSE ledger[s]]

(* Other users' swaps, deposits and withdrawals. *)
ChainMoves ==
    /\ \E accounts \in ChainStates : Advance(accounts)
    /\ UNCHANGED <<live, amm, view, response, trade>>

(* The pool program prices the swap on the live vaults; the direction is   *)
(* the vault the instruction names as source.  The transaction fails when  *)
(* a token account's mint is not the vault's, when the curve yields        *)
(* nothing, or when the deposit does not fit the vault.                    *)
OnChainSwap(accounts, t) ==
    IF /\ IsTokenAccount(accounts, t.metas.swap_source)
       /\ IsTokenAccount(accounts, t.metas.swap_destination)
       /\ vaultMint(t.metas.swap_source) = t.input
       /\ vaultMint(t.metas.swap_destination) = t.output
    THEN LET r == CurveSwap(t.amount, accounts[t.metas.swap_source].amount,
                            accounts[t.metas.swap_destination].amount,
                            IF t.metas.swap_source = PoolState.token_a
                            THEN "AtoB" ELSE "BtoA")
         IN IF r.some /\ accounts[t.metas.swap_source].amount
                         + r.source_amount_swapped <= MaxU64
            THEN [ok |-> TRUE, in_amount |-> r.source_amount_swapped,
                  out_amount |-> r.destination_amount_swapped,
                  fee_amount |-> r.trade_fee + r.owner_fee]
            ELSE NoQuote
    ELSE NoQuote

AccountsAfter(accounts, t, sim) ==
    LET paid == [accounts EXCEPT ![t.metas.swap_source].amount = @ + sim.in_amount]
    IN  [paid EXCEPT ![t.metas.swap_destination].amount = @ - sim.out_amount]

(* The swap quoted by instance i lands; `at` is the slot it was executed on. *)
ExecuteSwap(i) ==
    LET t == trade[i]
        sim == OnChainSwap(ledger[now], t)
    IN  /\ t.phase = "quoted"
        /\ IF sim.ok
           THEN Advance(AccountsAfter(ledger[now], t, sim))
           ELSE UNCHANGED <<now, ledger>>
        /\ trade' = [trade EXCEPT ![i] =
               [@ EXCEPT !.phase = IF sim.ok THEN "filled" ELSE "rejected",
                         !.at = now,
                         !.sim = sim]]
        /\ UNCHANGED <<live, amm, view, response>>

--------------------------------------------------------------------------------
(* The instances.                                                          *)

Init ==
    /\ now = 0
    /\ ledger \in [{0} -> ChainStates]
    /\ live = [i \in Amms |-> FALSE]
    /\ amm = [i \in Amms |-> from_keyed_account]
    /\ view = [i \in Amms |-> -1]
    /\ response = [i \in Amms |-> NoResponse]
    /\ trade = [i \in Amms |-> NoTrade]

(* `amm_factory`: an unsupported owner or data that do not unpack is an    *)
(* error and no instance comes into being.                                 *)
amm_factory(i) ==
    /\ ~live[i]
    /\ \E account \in KeyedAccounts :
          live' = [live EXCEPT ![i] = account.supported_owner /\ account.unpacks]
    /\ amm' = [amm EXCEPT ![i] = from_keyed_account]
    /\ UNCHANGED <<now, ledger, view, response, trade>>

(* First half of `update_amm`: one get_multiple_accounts call over the     *)
(* requested addresses.  All of them are read at one slot, and those that  *)
(* do not exist are left out of the map.                                   *)
FetchAccounts(i) ==
    /\ live[i]
    /\ ~response[i].pending
    /\ LET requested == get_accounts_to_update(amm[i]) \cap DOMAIN ledger[now] IN
          response' = [response EXCEPT ![i] =
              [pending |-> TRUE, slot |-> now,
               account_map |-> [a \in requested |-> ledger[now][a]]]]
    /\ UNCHANGED <<now, ledger, live, amm, view, trade>>

(* Second half of `update_amm`: the instance is updated from the map, or   *)
(* the update fails and the instance is as before.  The harness unwraps    *)
(* the error and stops there; a caller that handles it goes on with the    *)
(* instance it has.                                                        *)
ApplyUpdate(i) ==
    LET account_map == response[i].account_map IN
    /\ response[i].pending
    /\ amm' = [amm EXCEPT ![i] = update(@, account_map)]
    /\ view' = [view EXCEPT ![i] =
                   IF CanUpdate(amm[i], account_map) THEN response[i].slot ELSE @]
    /\ response' = [response EXCEPT ![i] = NoResponse]
    /\ UNCHANGED <<now, ledger, live, trade>>

(* A clone is an instance of its own: later updates of one leave the other. *)
CloneAmm(i, j) ==
    /\ live[i]
    /\ ~live[j]
    /\ live' = [live EXCEPT ![j] = TRUE]
    /\ amm' = [amm EXCEPT ![j] = clone_amm(amm[i])]
    /\ view' = [view EXCEPT ![j] = view[i]]
    /\ UNCHANGED <<now, ledger, response, trade>>

(* A caller asks for a quote and, having one, for the swap's accounts.  A  *)
(* failed quote leaves the caller with no swap to submit.                  *)
QuoteSwap(i, input, output, amount) ==
    LET q == quote(amm[i], input, amount) IN
    /\ live[i]
    /\ trade' = [trade EXCEPT ![i] =
           IF q.ok
           THEN [phase |-> "quoted", input |-> input, output |-> output,
                 amount |-> amount, quote |-> q,
                 metas |-> get_swap_and_account_metas(amm[i], input),
                 view |-> view[i], at |-> 0, sim |-> NoQuote]
           ELSE NoTrade]
    /\ UNCHANGED <<now, ledger, live, amm, view, response>>

Next ==
    \/ ChainMoves
    \/ \E i \in Amms :
          \/ amm_factory(i)
          \/ FetchAccounts(i)
          \/ ApplyUpdate(i)
          \/ ExecuteSwap(i)
          \/ \E j \in Amms : CloneAmm(i, j)
          \/ \E input, output \in Mints, amount \in TradeAmounts :
                QuoteSwap(i, input, output, amount)

Spec == Init /\ [][Next]_vars

--------------------------------------------------------------------------------
(* Properties.                                                             *)

VaultsReadable(s) ==
    /\ IsTokenAccount(ledger[s], PoolState.token_a)
    /\ IsTokenAccount(ledger[s], PoolState.token_b)

VaultAmounts(s) ==
    <<ledger[s][PoolState.token_a].amount, ledger[s][PoolState.token_b].amount>>

(* Types of the variables; the fetched and viewed slots lie in the past. *)
TypeOK ==
    /\ now \in 0 .. MaxSlot
    /\ ledger \in [0 .. now -> AccountMap]
    /\ live \in [Amms -> BOOLEAN]
    /\ amm \in [Amms -> SplTokenSwapAmm]
    /\ view \in [Amms -> (-1) .. now]
    /\ response \in [Amms -> Response]
    /\ trade \in [Amms -> Trade]
    /\ \A i \in Amms : /\ response[i].slot <= now
                       /\ trade[i].view <= now
                       /\ trade[i].at <= now

(* `update` is all or nothing: whatever fetches and failures came before,  *)
(* the two reserves of an instance are the amounts both vaults had at one  *)
(* and the same slot, or the zeros it was constructed with.                *)
ReservesFromOneSlot ==
    \A i \in Amms :
        IF view[i] = -1
        THEN amm[i].reserves = <<0, 0>>
        ELSE VaultsReadable(view[i]) /\ amm[i].reserves = VaultAmounts(view[i])

ServedPair(input, output) ==
    \/ input = PoolState.token_a_mint /\ output = PoolState.token_b_mint
    \/ input = PoolState.token_b_mint /\ output = PoolState.token_a_mint

(* The claim of README.md:16 and of the integration tests: the simulated   *)
(* swap yields what was quoted.  It holds whenever the swap lands on the   *)
(* vault amounts the quote was computed from, however many slots and       *)
(* updates lie between, for the mints of the pool and a deposit that fits. *)
QuoteMatchesSimulation ==
    \A i \in Amms :
        LET t == trade[i] IN
            /\ t.phase \in {"filled", "rejected"}
            /\ t.view # -1
            /\ VaultsReadable(t.at)
            /\ VaultAmounts(t.at) = VaultAmounts(t.view)
            /\ ServedPair(t.input, t.output)
            /\ ledger[t.at][t.metas.swap_source].amount + t.quote.in_amount <= MaxU64
            => t.sim = t.quote

(* A quote never promises more than the vault it will be paid from held    *)
(* when the instance last read it, and an instance that was never updated  *)
(* promises nothing: the reserve that prices a quote and the vault its     *)
(* account list names as destination are the same.                         *)
NoPhantomLiquidity ==
    \A i \in Amms :
        LET t == trade[i] IN
            t.phase # "none" =>
                t.quote.out_amount <=
                    IF t.view = -1 THEN 0
                    ELSE ledger[t.view][t.metas.swap_destination].amount

(* The checked conversions of `quote` from u128 back to u64 never fail: an *)
(* instance that cannot quote an amount has a curve that cannot price it.  *)
QuoteFailsOnlyWithCurve ==
    \A i \in Amms, input \in Mints, amount \in TradeAmounts :
        quote(amm[i], input, amount).ok =
            IF input = PoolState.token_a_mint
            THEN CurveSwap(amount, amm[i].reserves[1], amm[i].reserves[2], "AtoB").some
            ELSE CurveSwap(amount, amm[i].reserves[2], amm[i].reserves[1], "BtoA").some

--------------------------------------------------------------------------------
(* Refinement.  The reserves an instance keeps are an implementation of    *)
(* reading the chain as of the instance's view.                            *)

Offer(t) ==
    [made |-> t.phase # "none",
     source |-> t.metas.swap_source, destination |-> t.metas.swap_destination,
     amount |-> t.amount, quote |-> t.quote]

View == INSTANCE PoolView WITH
            Readers <- Amms,
            offer <- [i \in Amms |-> Offer(trade[i])]

(* Every behaviour of the instances is one of readers that quote straight  *)
(* from the chain as of the slot they last looked at.                      *)
RefinesPoolView == View!Spec

================================================================================
