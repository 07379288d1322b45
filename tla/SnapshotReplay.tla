----------------------------- MODULE SnapshotReplay -----------------------------
(***************************************************************************)
(* A test that replays a snapshot while `snapshot-amm` may be running on   *)
(* the same directory.  The test goes through the directory several times: *)
(* once for the pool account, once for the clock, and once more for every  *)
(* pair of mints it swaps.  Each pass lists the directory and then opens   *)
(* the files listed, one after the other.                                  *)
(***************************************************************************)
EXTENDS SnapshotStore

CONSTANTS
    Pool,       \* the pool's own address, amm_key
    Clock,      \* sysvar::clock::ID
    Vaults,     \* get_accounts_to_update of the pool
    Pairs       \* how many pairs of mints a test swaps

ASSUME ReplayAssumption ==
    /\ {Pool, Clock} \cup Vaults \subseteq Saved
    /\ Pairs \in Nat

Unread == -2
Default == -1   \* Clock::default()

VARIABLES
    at,             \* where the test is, "idle" when none runs
    pool_account,   \* slot of the pool account the instance was made from
    clock_ref,      \* slot of the clock in the AmmContext
    listed,         \* files of the pass still to be opened
    account_map,    \* the accounts of the pass, by their slots
    pairs,          \* pairs of mints still to be swapped
    ended,          \* how the last test ended
    quiet,          \* ghost: no invocation ran beside the test
    basis           \* ghost: slot of the complete snapshot the test started on,
                    \* -1 when there was none or a forced run came upon it

testVars == <<at, pool_account, clock_ref, listed, account_map, pairs, ended>>
allVars == <<vars, testVars, quiet, basis>>

NoAccounts == [a \in {} |-> 0]

(* The accounts that have a file. *)
Present == {a \in Addresses : files[a].state # "none"}

(* Slot s is in the directory, and no forced run is at work on it. *)
Holds(s) == ~raced /\ ~Forced /\ Complete(s)

ReplayInit ==
    /\ Init
    /\ at = "idle"
    /\ pool_account = Unread
    /\ clock_ref = Unread
    /\ listed = {}
    /\ account_map = NoAccounts
    /\ pairs = 0
    /\ ended = "none"
    /\ quiet = FALSE
    /\ basis = -1

--------------------------------------------------------------------------------
(* The test.                                                               *)

Begin ==
    /\ at = "idle"
    /\ at' = "pool"
    /\ pool_account' = Unread
    /\ clock_ref' = Unread
    /\ account_map' = NoAccounts
    /\ pairs' = Pairs
    /\ ended' = "none"
    /\ quiet' = (~raced /\ \A p \in Procs : ~Running(p))
    /\ basis' \in {s \in 0 .. MaxSlot : Holds(s)} \cup
                  IF \E s \in 0 .. MaxSlot : Holds(s) THEN {} ELSE {-1}
    /\ UNCHANGED listed

Panic ==
    /\ at' = "idle"
    /\ ended' = "panicked"
    /\ listed' = {}
    /\ UNCHANGED <<pool_account, clock_ref, account_map, pairs>>

(* get_keyed_account_from_snapshot: a file that is missing, or is no JSON, *)
(* is a panic.                                                             *)
ReadPool ==
    /\ at = "pool"
    /\ IF files[Pool].state = "whole"
       THEN /\ pool_account' = files[Pool].slot
            /\ at' = "clock"
            /\ UNCHANGED <<clock_ref, listed, account_map, pairs, ended>>
       ELSE Panic

(* glob reads the names in one go; a directory that is gone has none. *)
ListFiles ==
    /\ at \in {"clock", "load"}
    /\ at' = IF at = "clock" THEN "clock_files" ELSE "load_files"
    /\ listed' = Present
    /\ account_map' = NoAccounts
    /\ UNCHANGED <<pool_account, clock_ref, pairs, ended>>

(* Mutant: a file that cannot be read is passed over. *)
ReadFile_Lenient ==
    /\ at \in {"clock_files", "load_files"}
    /\ \E a \in listed :
          /\ listed' = listed \ {a}
          /\ account_map' = IF files[a].state = "empty" THEN account_map
                            ELSE [b \in DOMAIN account_map \cup {a} |->
                                     IF b = a THEN files[a].slot ELSE account_map[b]]
          /\ UNCHANGED <<at, pool_account, clock_ref, pairs, ended>>

(* Meanwhile a file may have gone, or be empty or torn: each is a panic. *)
ReadFile ==
    /\ at \in {"clock_files", "load_files"}
    /\ \E a \in listed :
          IF files[a].state = "whole"
          THEN /\ listed' = listed \ {a}
               /\ account_map' = [b \in DOMAIN account_map \cup {a} |->
                                     IF b = a THEN files[a].slot ELSE account_map[b]]
               /\ UNCHANGED <<at, pool_account, clock_ref, pairs, ended>>
          ELSE Panic

(* get_clock: without a clock file the default clock is taken. *)
TakeClock ==
    /\ at = "clock_files"
    /\ listed = {}
    /\ clock_ref' = IF Clock \in DOMAIN account_map THEN account_map[Clock] ELSE Default
    /\ at' = "pairs"
    /\ UNCHANGED <<pool_account, listed, account_map, pairs, ended>>

(* Mutant: one pair too many. *)
NextPair_OffByOne ==
    /\ at = "pairs"
    /\ IF pairs >= 0
       THEN /\ at' = "load"
            /\ pairs' = pairs - 1
            /\ UNCHANGED <<pool_account, clock_ref, listed, account_map, ended>>
       ELSE /\ at' = "idle"
            /\ ended' = "ended"
            /\ UNCHANGED <<pool_account, clock_ref, listed, account_map, pairs>>

(* Each pair loads the accounts anew. *)
NextPair ==
    /\ at = "pairs"
    /\ IF pairs > 0
       THEN /\ at' = "load"
            /\ pairs' = pairs - 1
            /\ UNCHANGED <<pool_account, clock_ref, listed, account_map, ended>>
       ELSE /\ at' = "idle"
            /\ ended' = "ended"
            /\ UNCHANGED <<pool_account, clock_ref, listed, account_map, pairs>>

(* load_program_test: the instance is updated three times from the same    *)
(* accounts, and update_amm_precise(..).unwrap() panics without a vault.   *)
UpdateAmm ==
    /\ at = "load_files"
    /\ listed = {}
    /\ IF Vaults \subseteq DOMAIN account_map
       THEN /\ at' = "pairs"
            /\ UNCHANGED <<pool_account, clock_ref, listed, account_map, pairs, ended>>
       ELSE Panic

TestStep ==
    /\ UNCHANGED vars
    /\ \/ Begin
       \/ /\ \/ ReadPool \/ ListFiles \/ ReadFile
             \/ TakeClock \/ NextPair \/ UpdateAmm
          /\ UNCHANGED <<quiet, basis>>

StoreStep ==
    /\ Next
    /\ quiet' = (quiet /\ \A p \in Procs : ~Running(p)')
    /\ basis' = IF (raced \/ Forced)' THEN -1 ELSE basis
    /\ UNCHANGED testVars

ReplayNext == TestStep \/ StoreStep

ReplaySpec == ReplayInit /\ [][ReplayNext]_allVars

--------------------------------------------------------------------------------
(* Properties.                                                             *)

Slots == 0 .. MaxSlot

ReplayTypeOK ==
    /\ at \in {"idle", "pool", "clock", "clock_files", "pairs", "load", "load_files"}
    /\ pool_account \in Slots \cup {Unread}
    /\ clock_ref \in Slots \cup {Unread, Default}
    /\ listed \in SUBSET Addresses
    /\ DOMAIN account_map \subseteq Saved
    /\ account_map \in [DOMAIN account_map -> Slots]
    /\ pairs \in 0 .. Pairs
    /\ ended \in {"none", "ended", "panicked"}
    /\ quiet \in BOOLEAN
    /\ basis \in Slots \cup {-1}

(* The pass over the directory is over and its accounts are in use. *)
Loaded == at = "pairs" \/ (at = "idle" /\ ended = "ended")

(* README.md:20, "this is to allow reproducible test": started on a         *)
(* snapshot that is complete, a test reads that snapshot and nothing else, *)
(* clock included, in all of its passes, and does not panic on the way.    *)
(* Ordinary invocations beside it do no harm; only a forced one does.      *)
ReplayReadsTheSnapshot ==
    basis # -1 =>
        /\ ended # "panicked"
        /\ pool_account \in {Unread, basis}
        /\ clock_ref \in {Unread, basis}
        /\ \A a \in DOMAIN account_map : account_map[a] = basis
        /\ Loaded => DOMAIN account_map = Saved

(* Whatever failed and killed invocations left in the directory, a test no *)
(* invocation runs beside mixes no two slots and passes over no file: pool,*)
(* clock and accounts are of one moment, and an account that is missing,   *)
(* or a clock that is the default, has no file.                            *)
ReplayIsOneMoment ==
    quiet /\ Loaded =>
        /\ DOMAIN account_map = Present
        /\ \A a \in DOMAIN account_map : account_map[a] = pool_account
        /\ clock_ref = IF Clock \in Present THEN pool_account ELSE Default

================================================================================
