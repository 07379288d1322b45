-------------------------- MODULE SnapshotReplay_proofs --------------------------
(***************************************************************************)
(* What a test reads from a snapshot directory, for any number of          *)
(* invocations of `snapshot-amm` beside it and any number of pairs.        *)
(*                                                                         *)
(* The argument: on a complete snapshot an invocation without --force can  *)
(* do nothing, for create_dir fails and an owner that still had a file to  *)
(* create or to write would find it there already.  So as long as `basis`  *)
(* stands the directory does, and every pass of the test reads it anew.    *)
(***************************************************************************)
EXTENDS SnapshotReplay, SnapshotStore_proofs

Reading == at \in {"clock_files", "load_files"}

RunningTest == at # "idle" => ended = "none"

(* What a test started on the complete snapshot of slot basis has read. *)
Anchored ==
    basis # -1 =>
        /\ Holds(basis)
        /\ ended # "panicked"
        /\ pool_account \in {Unread, basis}
        /\ clock_ref \in {Unread, basis}
        /\ \A a \in DOMAIN account_map : account_map[a] = basis
        /\ Reading => /\ listed \subseteq Saved
                      /\ Saved \subseteq DOMAIN account_map \cup listed
        /\ Loaded => DOMAIN account_map = Saved

(* What a test that no invocation disturbs has read is still there. *)
StillThere ==
    quiet =>
        /\ ~raced /\ \A p \in Procs : ~Running(p)
        /\ \A a \in DOMAIN account_map :
              files[a].state = "whole" /\ files[a].slot = account_map[a]
        /\ at \notin {"idle", "pool"} \/ ended = "ended" =>
              files[Pool].state = "whole" /\ files[Pool].slot = pool_account
        /\ Reading => DOMAIN account_map \cup listed = Present
        /\ Loaded => DOMAIN account_map = Present
        /\ at \in {"pairs", "load", "load_files"} \/ ended = "ended" =>
              clock_ref = IF Clock \in Present THEN files[Clock].slot ELSE Default

RInv == IInv /\ ReplayTypeOK /\ RunningTest /\ Anchored /\ StillThere

--------------------------------------------------------------------------------
(* A step of an invocation without --force leaves a complete snapshot.     *)
LEMMA CompleteKept ==
    ASSUME IInv, Next, NEW s \in 0 .. MaxSlot, Holds(s)
    PROVE  Complete(s)'
<1> SUFFICES UNCHANGED <<exists, files>>
    BY DEF Holds, Complete
<1>a. exists /\ \A a \in Saved : files[a] = WholeFile(s)
    BY DEF Holds, Complete, Saved
<1>b. \A p \in Procs : pc[p] # "remove"
    BY DEF Holds, Forced, Running, IInv, Control, RemoversForced
<1>1. ASSUME NEW p \in Procs, CreateFile(p)
      PROVE  FALSE
  <2>1. PICK a \in todo[p] : TRUE
      BY <1>1 DEF CreateFile
  <2>2. a \in Saved /\ pc[p] = "write" /\ open[p] = {}
      BY <1>1 DEF CreateFile, IInv, TypeOK
  <2>3. files[a] = NoFile
      BY <2>1, <2>2 DEF Holds, IInv, Contents, OwnersFiles
  <2>. QED
      BY <1>a, <2>2, <2>3, FilesDiffer
<1>2. ASSUME NEW p \in Procs, WriteFile(p)
      PROVE  FALSE
  <2>1. PICK a \in open[p] : TRUE
      BY <1>2 DEF WriteFile
  <2>2. a \in Saved /\ files[a] = EmptyFile
      BY DEF Holds, IInv, TypeOK, Contents, OpenFiles
  <2>. QED
      BY <1>a, <2>2, FilesDiffer
<1>3. CASE ChainMoves
    BY <1>3 DEF ChainMoves
<1>4. ASSUME NEW p \in Procs, NEW forced \in BOOLEAN, Start(p, forced)
      PROVE  UNCHANGED <<exists, files>>
    BY <1>4 DEF Start
<1>5. ASSUME NEW p \in Procs, Step(p) \/ Die(p)
      PROVE  UNCHANGED <<exists, files>>
    BY <1>5, <1>a, <1>b, <1>1, <1>2 DEF Step, Prepare, RemoveNothing, RemoveFile,
           RemoveDir, RemoveDisturbed, CreateDir, FetchAll, Finish, Die
<1>. QED
    BY <1>3, <1>4, <1>5 DEF Next

(* Beside a quiet test, before and after, only the chain moves.            *)
LEMMA QuietStep ==
    ASSUME IInv, Next, \A p \in Procs : ~Running(p), \A p \in Procs : ~Running(p)'
    PROVE  UNCHANGED <<files, raced>>
<1>1. ASSUME NEW p \in Procs, NEW forced \in BOOLEAN, Start(p, forced)
      PROVE  FALSE
    BY <1>1 DEF Start, Goto, Running, IInv, TypeOK
<1>2. ASSUME NEW p \in Procs, Step(p) \/ Die(p)
      PROVE  FALSE
    BY <1>2 DEF Step, Prepare, RemoveNothing, RemoveFile, RemoveDir, RemoveDisturbed,
           CreateDir, FetchAll, CreateFile, WriteFile, Finish, Die, Running
<1>. QED
    BY <1>1, <1>2 DEF Next, ChainMoves

(* Complete means that just the saved accounts have a file.                *)
LEMMA PresentSaved ==
    ASSUME NEW s, Complete(s)
    PROVE  /\ Present = Saved
           /\ \A a \in Saved : files[a].state = "whole" /\ files[a].slot = s
BY FilesDiffer DEF Complete, Present, Saved

LEMMA ReplayInitial == ReplayInit => RInv
<1> SUFFICES ASSUME ReplayInit
             PROVE  RInv
    OBVIOUS
<1>1. IInv
    BY Initial DEF ReplayInit
<1>2. ReplayTypeOK
  <2>1. DOMAIN NoAccounts = {} /\ NoAccounts \in [{} -> Slots]
      BY DEF NoAccounts
  <2>2. /\ account_map \in [DOMAIN account_map -> Slots]
        /\ DOMAIN account_map \subseteq Saved
      BY <2>1 DEF ReplayInit
  <2>3. pairs \in 0 .. Pairs
      BY ReplayAssumption DEF ReplayInit
  <2>4. /\ pool_account \in Slots \cup {Unread}
        /\ clock_ref \in Slots \cup {Unread, Default}
        /\ basis \in Slots \cup {-1}
      BY DEF ReplayInit
  <2>. QED
      BY <2>2, <2>3, <2>4 DEF ReplayInit, ReplayTypeOK
<1>3. RunningTest /\ Anchored /\ StillThere
    BY DEF ReplayInit, RunningTest, Anchored, StillThere
<1>. QED
    BY <1>1, <1>2, <1>3 DEF RInv

--------------------------------------------------------------------------------
(* A step of an invocation, seen by a test.                                *)
LEMMA StoreKeeps == RInv /\ StoreStep => RInv'
<1> SUFFICES ASSUME RInv, StoreStep
             PROVE  RInv'
    OBVIOUS
<1>a. IInv /\ Next /\ UNCHANGED testVars
    BY DEF RInv, StoreStep
<1>b. basis \in Slots \cup {-1} /\ basis' \in {basis, -1}
    BY DEF RInv, ReplayTypeOK, StoreStep
<1>1. IInv'
    BY <1>a, Inductive
<1>2. ReplayTypeOK' /\ RunningTest'
    BY <1>b DEF RInv, ReplayTypeOK, RunningTest, StoreStep, testVars
<1>3. Anchored'
  <2> SUFFICES ASSUME basis' # -1
               PROVE  Anchored'
      BY DEF Anchored
  <2>1. basis' = basis /\ ~raced' /\ ~Forced'
      BY <1>b DEF StoreStep
  <2>2. basis \in 0 .. MaxSlot /\ Holds(basis)
      BY <1>b, <2>1 DEF RInv, Anchored, Slots
  <2>3. Holds(basis)'
      BY <1>a, <2>1, <2>2, CompleteKept DEF Holds
  <2>. QED
      BY <1>a, <2>1, <2>3 DEF RInv, Anchored, Reading, Loaded, Unread, testVars, Saved
<1>4. StillThere'
  <2> SUFFICES ASSUME quiet'
               PROVE  StillThere'
      BY DEF StillThere
  <2>1. quiet /\ (\A p \in Procs : ~Running(p)) /\ (\A p \in Procs : ~Running(p)')
      BY DEF StoreStep, RInv, StillThere
  <2>2. UNCHANGED <<files, raced>>
      BY <1>a, <2>1, QuietStep
  <2>. QED
      BY <1>a, <2>1, <2>2 DEF RInv, StillThere, Reading, Loaded, Present, testVars
<1>. QED
    BY <1>1, <1>2, <1>3, <1>4 DEF RInv

--------------------------------------------------------------------------------
(* The steps of the test itself leave the directory alone.                 *)

(* What the files are, as far as a test relies on it.                      *)
LEMMA FilesFound ==
    ASSUME RInv
    PROVE  /\ \A a \in Addresses : files[a].slot \in Slots
           /\ Present \subseteq Saved
           /\ Pool \in Saved /\ Clock \in Saved /\ Vaults \subseteq Saved
           /\ Saved \subseteq Addresses
           /\ basis # -1 => /\ Present = Saved
                            /\ \A a \in Saved :
                                  files[a].state = "whole" /\ files[a].slot = basis
<1>1. \A a \in Addresses : files[a] \in File
    BY DEF RInv, IInv, TypeOK
<1>2. \A a \in Addresses : files[a].slot \in Slots
    BY <1>1 DEF File, Slots
<1>3. Present \subseteq Saved
    BY FilesDiffer DEF RInv, IInv, Contents, OnlySaved, Present
<1>4. basis # -1 => /\ Present = Saved
                    /\ \A a \in Saved :
                          files[a].state = "whole" /\ files[a].slot = basis
    BY PresentSaved DEF RInv, Anchored, Holds
<1>. QED
    BY <1>2, <1>3, <1>4, ReplayAssumption DEF Saved

LEMMA TestKeeps == RInv /\ TestStep => RInv'
<1> SUFFICES ASSUME RInv, TestStep
             PROVE  RInv'
    OBVIOUS
<1> USE DEF RInv, ReplayTypeOK, RunningTest, Anchored, StillThere, Reading, Loaded
<1>a. UNCHANGED vars
    BY DEF TestStep
<1>b. IInv' /\ UNCHANGED <<files, raced>>
    BY <1>a, Inductive DEF vars
<1>c. Present' = Present
    BY <1>b DEF Present
<1>d. \A s : Holds(s)' <=> Holds(s)
    BY <1>a DEF vars, Holds, Forced, Running, Complete, Saved
<1>e. \A p \in Procs : Running(p)' <=> Running(p)
    BY <1>a DEF vars, Running
<1>1. CASE Begin
  <2>1. account_map' = NoAccounts /\ DOMAIN NoAccounts = {} /\ NoAccounts \in [{} -> Slots]
      BY <1>1 DEF Begin, NoAccounts
  <2>2. basis' \in Slots \cup {-1} /\ (basis' # -1 => Holds(basis'))
      BY <1>1 DEF Begin, Slots
  <2>3. quiet' = (~raced /\ \A p \in Procs : ~Running(p))
      BY <1>1 DEF Begin
  <2>4. /\ at' = "pool" /\ pool_account' = Unread /\ clock_ref' = Unread
        /\ pairs' = Pairs /\ ended' = "none" /\ listed' = listed
      BY <1>1 DEF Begin
  <2>5. ReplayTypeOK' /\ RunningTest'
      BY <2>1, <2>2, <2>3, <2>4, ReplayAssumption
  <2>6. Anchored'
      BY <1>d, <2>1, <2>2, <2>4
  <2>7. StillThere'
      BY <1>b, <1>e, <2>1, <2>3, <2>4
  <2>. QED
      BY <1>b, <2>5, <2>6, <2>7
<1>2. ASSUME Panic, basis = -1, UNCHANGED <<quiet, basis>>
      PROVE  RInv'
    BY <1>2, <1>b, <1>c, <1>e DEF Panic
<1>3. CASE ReadPool /\ UNCHANGED <<quiet, basis>>
  <2>1. CASE files[Pool].state = "whole"
      BY <1>3, <2>1, <1>b, <1>c, <1>d, <1>e, FilesFound DEF ReadPool
  <2>2. CASE files[Pool].state # "whole"
      BY <1>2, <1>3, <2>2, FilesFound DEF ReadPool
  <2>. QED
      BY <2>1, <2>2
<1>4. CASE ListFiles /\ UNCHANGED <<quiet, basis>>
  <2>1. account_map' = NoAccounts /\ DOMAIN NoAccounts = {} /\ NoAccounts \in [{} -> Slots]
      BY <1>4 DEF ListFiles, NoAccounts
  <2>. QED
      BY <1>4, <2>1, <1>b, <1>c, <1>d, <1>e, FilesFound DEF ListFiles
<1>5. CASE ReadFile /\ UNCHANGED <<quiet, basis>>
  <2>1. PICK a \in listed :
            IF files[a].state = "whole"
            THEN /\ listed' = listed \ {a}
                 /\ account_map' = [b \in DOMAIN account_map \cup {a} |->
                                       IF b = a THEN files[a].slot ELSE account_map[b]]
                 /\ UNCHANGED <<at, pool_account, clock_ref, pairs, ended>>
            ELSE Panic
      BY <1>5 DEF ReadFile
  <2>2. a \in Addresses /\ Reading
      BY <1>5 DEF ReadFile
  <2>3. CASE files[a].state = "whole"
    <3>1. a \in Saved /\ files[a].slot \in Slots
        BY <2>2, <2>3, FilesFound DEF Present
    <3>. QED
        BY <1>5, <2>1, <2>2, <2>3, <3>1, <1>b, <1>c, <1>d, <1>e, FilesFound
  <2>4. CASE files[a].state # "whole"
      BY <1>2, <1>5, <2>1, <2>2, <2>4, FilesFound
  <2>. QED
      BY <2>3, <2>4
<1>6. CASE TakeClock /\ UNCHANGED <<quiet, basis>>
    BY <1>6, <1>b, <1>c, <1>d, <1>e, FilesFound DEF TakeClock
<1>7. CASE NextPair /\ UNCHANGED <<quiet, basis>>
    BY <1>7, <1>b, <1>c, <1>d, <1>e, ReplayAssumption DEF NextPair
<1>8. CASE UpdateAmm /\ UNCHANGED <<quiet, basis>>
  <2>1. CASE Vaults \subseteq DOMAIN account_map
      BY <1>8, <2>1, <1>b, <1>c, <1>d, <1>e DEF UpdateAmm
  <2>2. CASE ~(Vaults \subseteq DOMAIN account_map)
      BY <1>2, <1>8, <2>2, FilesFound DEF UpdateAmm
  <2>. QED
      BY <2>1, <2>2
<1>. QED
    BY <1>1, <1>3, <1>4, <1>5, <1>6, <1>7, <1>8 DEF TestStep

LEMMA ReplayInvariance == ReplaySpec => []RInv
<1>1. RInv /\ UNCHANGED allVars => RInv'
  <2> SUFFICES ASSUME RInv, UNCHANGED allVars
               PROVE  RInv'
      OBVIOUS
  <2>1. UNCHANGED vars /\ UNCHANGED testVars /\ UNCHANGED <<quiet, basis>>
      BY DEF allVars
  <2>2. IInv'
      BY <2>1, Inductive DEF RInv
  <2>. QED
      BY <2>1, <2>2 DEF RInv, ReplayTypeOK, RunningTest, Anchored, StillThere, Reading,
         Loaded, Present, Holds, Forced, Running, Complete, Saved, vars, testVars
<1>2. RInv /\ [ReplayNext]_allVars => RInv'
    BY <1>1, StoreKeeps, TestKeeps DEF ReplayNext
<1>. QED
    BY <1>2, ReplayInitial, PTL DEF ReplaySpec

--------------------------------------------------------------------------------
(* A test keeps its types, in particular it reads only saved accounts.     *)
THEOREM ReplayTypeCorrect == ReplaySpec => []ReplayTypeOK
<1>1. RInv => ReplayTypeOK
    BY DEF RInv
<1>. QED
    BY <1>1, ReplayInvariance, PTL

(* load_accounts_snapshot and get_clock on a complete snapshot: every pass *)
(* of a test reads that snapshot, whoever runs snapshot-amm unforced.      *)
THEOREM ReplayIsReproducible == ReplaySpec => []ReplayReadsTheSnapshot
<1>1. RInv => ReplayReadsTheSnapshot
    BY DEF RInv, Anchored, ReplayReadsTheSnapshot
<1>. QED
    BY <1>1, ReplayInvariance, PTL

(* Over whatever failed runs left, an undisturbed test mixes no two slots  *)
(* and takes the default clock only when there is no file with a clock.    *)
THEOREM ReplayMixesNothing == ReplaySpec => []ReplayIsOneMoment
<1>1. ASSUME RInv
      PROVE  ReplayIsOneMoment
  <2> SUFFICES ASSUME quiet, Loaded
               PROVE  /\ DOMAIN account_map = Present
                      /\ \A a \in DOMAIN account_map : account_map[a] = pool_account
                      /\ clock_ref = IF Clock \in Present THEN pool_account ELSE Default
      BY DEF ReplayIsOneMoment
  <2>1. /\ files[Pool].state = "whole" /\ files[Pool].slot = pool_account
        /\ DOMAIN account_map = Present
        /\ \A a \in Present :
              files[a].state = "whole" /\ files[a].slot = account_map[a]
        /\ clock_ref = IF Clock \in Present THEN files[Clock].slot ELSE Default
      BY <1>1 DEF RInv, StillThere, Loaded
  <2>2. \A a \in Present : files[a].slot = files[Pool].slot
      BY <1>1, <2>1, FilesFound DEF RInv, IInv, Contents, SingleSlot, StillThere, Present
  <2>. QED
      BY <2>1, <2>2
<1>. QED
    BY <1>1, ReplayInvariance, PTL

(* A test only looks on: beside it the invocations are those of            *)
(* SnapshotStore, and what holds of them alone holds of the two together.  *)
THEOREM TestsLookOn == ReplaySpec => Spec /\ RefinesSnapshotFolder
<1>1. ReplayInit => Init
    BY DEF ReplayInit
<1>2. [ReplayNext]_allVars => [Next]_vars
    BY DEF ReplayNext, TestStep, StoreStep, allVars
<1>3. ReplaySpec => Spec
    BY <1>1, <1>2, PTL DEF ReplaySpec, Spec
<1>. QED
    BY <1>3, Refinement, PTL

================================================================================
