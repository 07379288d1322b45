-------------------------- MODULE SnapshotFixture_proofs --------------------------
(***************************************************************************)
(* What `snapshot-amm` saves is enough for the tests that run on it: the   *)
(* tests on snapshots it takes are tests, and of these a failure is a      *)
(* disagreement of the curves on the balances of the chain.                *)
(***************************************************************************)
EXTENDS SnapshotFixture, SwapVerdict_proofs

(* The snapshot under test is one of a chain it could be taken of. *)
FInv ==
    /\ chain \in {c \in Chains : CanTake(c)}
    /\ snapshot = snapshot_amm_accounts(chain)

(* The vaults and what the programs read are among the addresses, and the     *)
(* placeholder is none of them.                                            *)
LEMMA AddressesSuffice == PoolVaults \cup ReadBySwaps \subseteq addresses_for_snapshot
<1> DEFINE pairs_of_mints == get_token_mints_permutations(from_keyed_account.reserve_mints)
           of_swaps == UNION {SwapAddresses(pairs_of_mints[i][1]) : i \in DOMAIN pairs_of_mints}
<1>1. PoolVaults \subseteq get_accounts_to_update(from_keyed_account)
  BY DEF PoolVaults, get_accounts_to_update, from_keyed_account
<1>2. {PoolKeys[role] : role \in ReadByPool} \subseteq of_swaps
  <2>1. 1 \in DOMAIN pairs_of_mints
    BY DEF get_token_mints_permutations
  <2>2. SwapAddresses(pairs_of_mints[1][1]) \subseteq of_swaps
    BY <2>1
  <2>3. \A mint : {PoolKeys[role] : role \in DOMAIN PoolKeys} \subseteq SwapAddresses(mint)
    BY DEF SwapAddresses
  <2>4. ReadByPool \subseteq DOMAIN PoolKeys
    BY HarnessAssumption DEF ReadByPool
  <2> HIDE DEF of_swaps
  <2> QED BY <2>2, <2>3, <2>4
<1>3. Placeholder \notin PoolVaults \cup ReadBySwaps
  <2>1. PoolVaults \subseteq Keys
    BY PoolAssumption, HarnessAssumption DEF PoolVaults, SwapV1
  <2>2. {PoolKeys[role] : role \in ReadByPool} \subseteq Keys
    BY HarnessAssumption DEF ReadByPool
  <2>3. PoolMints \subseteq Keys
    BY PoolAssumption, HarnessAssumption DEF PoolMints, SwapV1
  <2> QED BY <2>1, <2>2, <2>3, FixtureAssumption DEF ReadBySwaps
<1>4. addresses_for_snapshot =
          ((of_swaps \cup get_accounts_to_update(from_keyed_account) \cup PoolMints)
              \ {Placeholder}) \cup {Clock}
  BY DEF addresses_for_snapshot
<1> HIDE DEF of_swaps
<1> QED BY <1>1, <1>2, <1>3, <1>4 DEF ReadBySwaps

(* Such a snapshot updates the instance, has the balances of the chain, and *)
(* has the rest if the chain has it.                                        *)
LEMMA SnapshotIsUsable ==
    ASSUME NEW c, CanTake(c)
    PROVE  /\ CanUpdate(from_keyed_account, snapshot_amm_accounts(c).accounts)
           /\ \A vault \in PoolVaults :
                 snapshot_amm_accounts(c).accounts[vault] = c.accounts[vault]
           /\ (\A a \in ReadBySwaps : OnChain(c, a)) =>
                 ReadBySwaps \subseteq snapshot_amm_accounts(c).rest
<1>1. /\ \A vault \in PoolVaults : IsTokenAccount(c.accounts, vault)
      /\ PoolVaults \subseteq Addresses
  BY PoolAssumption DEF CanTake, CanUpdate, from_keyed_account, PoolVaults, SwapV1
<1>2. \A vault \in PoolVaults : vault \in DOMAIN c.accounts /\ OnChain(c, vault)
  BY <1>1 DEF IsTokenAccount, OnChain
<1>3. \A vault \in PoolVaults : vault \in DOMAIN c.accounts \cap Saved(c)
  BY <1>2, AddressesSuffice, FixtureAssumption DEF Saved
<1>4. snapshot_amm_accounts(c).accounts =
          [a \in DOMAIN c.accounts \cap Saved(c) |-> c.accounts[a]]
  BY DEF snapshot_amm_accounts
<1>5. \A vault \in PoolVaults :
          /\ vault \in DOMAIN snapshot_amm_accounts(c).accounts
          /\ snapshot_amm_accounts(c).accounts[vault] = c.accounts[vault]
  BY <1>3, <1>4
<1>6. CanUpdate(from_keyed_account, snapshot_amm_accounts(c).accounts)
  BY <1>1, <1>5 DEF CanUpdate, IsTokenAccount, from_keyed_account, PoolVaults
<1>7. (\A a \in ReadBySwaps : OnChain(c, a)) => ReadBySwaps \subseteq Saved(c)
  BY AddressesSuffice, FixtureAssumption DEF Saved
<1>8. snapshot_amm_accounts(c).rest = Saved(c) \ PoolVaults
  BY DEF snapshot_amm_accounts
<1> QED BY <1>5, <1>6, <1>7, <1>8, FixtureAssumption

(* A test of a snapshot that was taken is a test. *)
THEOREM FixtureTests == FixtureSpec => Spec
<1>1. FixtureInit => Init
  BY DEF FixtureInit
<1>2. [FixtureNext]_fixtureVars => [Next]_vars
  BY DEF FixtureNext, fixtureVars, BeginOnSnapshot, Next
<1> QED BY <1>1, <1>2, PTL DEF FixtureSpec, Spec

LEMMA FixtureInvariance == FixtureSpec => []FInv
<1>1. FixtureInit => FInv
  BY DEF FixtureInit, FInv
<1>2. FInv /\ [FixtureNext]_fixtureVars => FInv'
  <2> SUFFICES ASSUME FInv, [FixtureNext]_fixtureVars
               PROVE  FInv'
    OBVIOUS
  <2>1. CASE BeginOnSnapshot
    BY <2>1 DEF BeginOnSnapshot, FInv
  <2>2. CASE (TestStep /\ UNCHANGED chain) \/ UNCHANGED fixtureVars
    <3>1. UNCHANGED <<chain, snapshot>>
      BY <2>2 DEF TestStep, LoadProgramTest, TryQuote, ProcessTransaction, Judge, End,
                  fixtureVars, vars
    <3> QED BY <3>1 DEF FInv
  <2> QED BY <2>1, <2>2 DEF FixtureNext
<1> QED BY <1>1, <1>2, PTL DEF FixtureSpec

(* Whatever the chain, the pool and the two curves: a test of a snapshot   *)
(* fails because an account of the pool or one of its mints is not on the  *)
(* chain, or because adapter and program disagree on its balances.         *)
THEOREM SnapshotsSuffice == FixtureSpec => []SnapshotSuffices
<1>1. HInv /\ VInv /\ FInv => SnapshotSuffices
  <2> SUFFICES ASSUME HInv, VInv, FInv,
                      verdict = "failed", request.expected_error = None,
                      request.swap_mode = "ExactIn",
                      \A a \in ReadBySwaps : OnChain(chain, a)
               PROVE  /\ \A vault \in PoolVaults :
                            snapshot.accounts[vault] = chain.accounts[vault]
                      /\ \E pair \in Pairs : ~CurvesAgree(pair, TriedAmount(pair))
    BY DEF SnapshotSuffices
  <2>1. CanTake(chain) /\ snapshot = snapshot_amm_accounts(chain)
    BY DEF FInv
  <2>2. /\ CanUpdate(from_keyed_account, snapshot.accounts)
        /\ \A vault \in PoolVaults : snapshot.accounts[vault] = chain.accounts[vault]
        /\ ReadBySwaps \subseteq snapshot.rest
    BY <2>1, SnapshotIsUsable
  <2>3. Usable
    <3>1. amm.state = PoolState
      BY DEF HInv, AmmOfPool
    <3> QED BY <2>1, <2>2, <3>1 DEF Usable, CanTake, CanUpdate, from_keyed_account
  <2>4. PICK pair \in Pairs : ~AgreeOn(pair, TriedAmount(pair))
    BY <2>3 DEF VInv, FailMeansDisagreement
  <2>5. Served(pair)
    <3>1. pair[1] \in PoolMints /\ pair[2] \in PoolMints
      BY DEF Pairs, PoolMints
    <3>2. NeededFor(pair) \subseteq ReadBySwaps
      BY <3>1 DEF NeededFor, ReadBySwaps
    <3> QED BY <2>2, <3>2 DEF Served
  <2>6. ~CurvesAgree(pair, TriedAmount(pair))
    BY <2>4, <2>5 DEF AgreeOn
  <2> QED BY <2>2, <2>6
<1> QED BY <1>1, FixtureTests, FixtureInvariance, HarnessInvariance, VerdictInvariance, PTL

================================================================================
