----------------------------- MODULE SnapshotFixture -----------------------------
(***************************************************************************)
(* From the chain to the verdict: `snapshot-amm` chooses the accounts it   *)
(* saves from the swaps of both directions, built for a placeholder in the *)
(* user's place, and the quoting test then runs on nothing but these       *)
(* accounts, the programs it is given and the token accounts it makes up.  *)
(***************************************************************************)
EXTENDS SwapHarness

CONSTANTS
    Clock,          \* sysvar::clock::ID
    Placeholder,    \* Pubkey::new_unique()
    ProgramIds,     \* accounts that are executable
    Chains          \* chains to take a snapshot of: the accounts of the vaults,
                    \* and what else does not exist

(* The accounts of one direction, as get_swap_and_account_metas lists them *)
(* with the placeholder for wallet and token accounts.                     *)
SwapAddresses(mint) ==
    LET vaults == get_swap_and_account_metas(from_keyed_account, mint) IN
        {PoolKeys[role] : role \in DOMAIN PoolKeys}
            \cup {SplToken, Placeholder, vaults.swap_source, vaults.swap_destination}

(* Mutant: the reserve mints are left out. *)
addresses_for_snapshot_NoMints ==
    LET pairs_of_mints == get_token_mints_permutations(from_keyed_account.reserve_mints)
        of_swaps == UNION {SwapAddresses(pairs_of_mints[i][1]) : i \in DOMAIN pairs_of_mints}
    IN  ((of_swaps \cup get_accounts_to_update(from_keyed_account)) \ {Placeholder})
            \cup {Clock}

addresses_for_snapshot ==
    LET pairs_of_mints == get_token_mints_permutations(from_keyed_account.reserve_mints)
        of_swaps == UNION {SwapAddresses(pairs_of_mints[i][1]) : i \in DOMAIN pairs_of_mints}
    IN  ((of_swaps \cup get_accounts_to_update(from_keyed_account) \cup PoolMints)
            \ {Placeholder}) \cup {Clock}

OnChain(c, a) == IF a \in Addresses THEN a \in DOMAIN c.accounts ELSE a \notin c.closed

(* Programs are not saved; the harness adds them from their own files. *)
Saved(c) == {a \in addresses_for_snapshot : OnChain(c, a) /\ a \notin ProgramIds}

snapshot_amm_accounts(c) ==
    [accounts |-> [a \in DOMAIN c.accounts \cap Saved(c) |-> c.accounts[a]],
     rest |-> Saved(c) \ PoolVaults]

(* take_snapshot gets that far if the pool is there, three updates succeed *)
(* and the table has an amount for both mints.                             *)
CanTake(c) ==
    /\ OnChain(c, PoolKeys["swap"])
    /\ CanUpdate(from_keyed_account, c.accounts)
    /\ PoolMints \subseteq DOMAIN InAmount

(* What the programs read for a swap of either direction besides the       *)
(* accounts of tokens.                                                     *)
ReadBySwaps == {PoolKeys[role] : role \in ReadByPool} \cup PoolMints

(* Accounts of data are no programs, vaults are nothing else, and the      *)
(* placeholder is a fresh key.                                             *)
ASSUME FixtureAssumption ==
    /\ Placeholder \notin Keys
    /\ ProgramIds \cap (PoolVaults \cup ReadBySwaps) = {}
    /\ PoolVaults \cap ReadBySwaps = {}
    /\ \A c \in Chains : c.accounts \in AccountMap /\ c.closed \subseteq Keys
    /\ {snapshot_amm_accounts(c) : c \in {d \in Chains : CanTake(d)}} \subseteq Snapshots

VARIABLE chain      \* what the snapshot under test was taken of

fixtureVars == <<vars, chain>>

FixtureInit ==
    /\ Init
    /\ chain \in {c \in Chains : CanTake(c)}
    /\ snapshot = snapshot_amm_accounts(chain)

(* take_snapshot of some chain, and a test of it. *)
BeginOnSnapshot ==
    /\ Begin
    /\ chain' \in {c \in Chains : CanTake(c)}
    /\ snapshot' = snapshot_amm_accounts(chain')

FixtureNext == BeginOnSnapshot \/ (TestStep /\ UNCHANGED chain)

FixtureSpec == FixtureInit /\ [][FixtureNext]_fixtureVars

--------------------------------------------------------------------------------
(* Properties.                                                             *)

(* test_harness.rs:772, "Snapshot necessary accounts to perform a swap":   *)
(* if the pool's accounts and its mints are on the chain, a test of the    *)
(* snapshot never fails for want of an account, in either direction, with  *)
(* shared accounts or without; it fails because adapter and program        *)
(* disagree, and then they do on the chain's balances.                     *)
SnapshotSuffices ==
    verdict = "failed" /\ request.expected_error = None /\ request.swap_mode = "ExactIn" =>
        \/ \E a \in ReadBySwaps : ~OnChain(chain, a)
        \/ /\ \A vault \in PoolVaults : snapshot.accounts[vault] = chain.accounts[vault]
           /\ \E pair \in Pairs : ~CurvesAgree(pair, TriedAmount(pair))

================================================================================
