-------------------------------- MODULE PoolView --------------------------------
(***************************************************************************)
(* What the adapter promises, without its cache: a reader of the pool      *)
(* remembers only at which slot it last looked, and every offer it makes   *)
(* is the price of one vault against the other as of that slot.            *)
(***************************************************************************)
EXTENDS SplTokenSwap

CONSTANTS
    Readers,    \* whoever quotes the pool
    MaxSlot     \* bound on the slots of a behaviour

VARIABLES now, ledger, view, offer

vars == <<now, ledger, view, offer>>

Vaults == {PoolState.token_a, PoolState.token_b}

Readable(s) == \A vault \in Vaults : IsTokenAccount(ledger[s], vault)

(* Amount of a vault as seen by a reader; nothing was seen before slot 0. *)
Seen(s, vault) == IF s = -1 THEN 0 ELSE ledger[s][vault].amount

Price(s, source, destination, amount) ==
    LET r == CurveSwap(amount, Seen(s, source), Seen(s, destination),
                       IF source = PoolState.token_a THEN "AtoB" ELSE "BtoA")
    IN  IF r.some
        THEN [ok |-> TRUE, in_amount |-> r.source_amount_swapped,
              out_amount |-> r.destination_amount_swapped,
              fee_amount |-> r.trade_fee + r.owner_fee]
        ELSE NoQuote

NoOffer ==
    [made |-> FALSE, source |-> PoolState.token_a, destination |-> PoolState.token_b,
     amount |-> 0, quote |-> NoQuote]

Init ==
    /\ now = 0
    /\ ledger \in [{0} -> AccountMap]
    /\ view = [i \in Readers |-> -1]
    /\ offer = [i \in Readers |-> NoOffer]

(* The past is never rewritten. *)
Move ==
    /\ now < MaxSlot
    /\ now' = now + 1
    /\ DOMAIN ledger' = 0 .. now'
    /\ ledger'[now'] \in AccountMap
    /\ \A s \in 0 .. now : ledger'[s] = ledger[s]
    /\ UNCHANGED <<view, offer>>

(* A reader looks at the chain, never at a time before its last look. *)
Look(i) ==
    /\ \E s \in 0 .. now :
          /\ view[i] <= s
          /\ Readable(s)
          /\ view' = [view EXCEPT ![i] = s]
    /\ UNCHANGED <<now, ledger, offer>>

(* A reader that has not looked yet takes over the view of another. *)
Adopt(i, j) ==
    /\ view[j] = -1
    /\ view' = [view EXCEPT ![j] = view[i]]
    /\ UNCHANGED <<now, ledger, offer>>

MakeOffer(i) ==
    /\ \E source, destination \in Vaults, amount \in U64 :
          /\ source # destination
          /\ Price(view[i], source, destination, amount).ok
          /\ offer' = [offer EXCEPT ![i] =
                 [made |-> TRUE, source |-> source, destination |-> destination,
                  amount |-> amount,
                  quote |-> Price(view[i], source, destination, amount)]]
    /\ UNCHANGED <<now, ledger, view>>

Withdraw(i) ==
    /\ offer' = [offer EXCEPT ![i] = NoOffer]
    /\ UNCHANGED <<now, ledger, view>>

Next ==
    \/ Move
    \/ \E i \in Readers : Look(i) \/ MakeOffer(i) \/ Withdraw(i)
    \/ \E i, j \in Readers : Adopt(i, j)

Spec == Init /\ [][Next]_vars

================================================================================
