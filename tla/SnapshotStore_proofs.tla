-------------------------- MODULE SnapshotStore_proofs --------------------------
(***************************************************************************)
(* The safety properties of SnapshotStore for any number of invocations,   *)
(* any set of addresses and any bound on the slots.                        *)
(*                                                                         *)
(* The argument: unless raced, the directory has at most one owner, the    *)
(* invocation that created it and has not ended; nobody else writes to it, *)
(* and a forced invocation cannot be removing it, for it would overlap     *)
(* with the owner.  So the owner's own bookkeeping says what is in it.     *)
(***************************************************************************)
EXTENDS SnapshotStore, TLAPS

Owner(p) == pc[p] \in {"fetch", "write"}

(* A forced run beside another is seen by both, and by the directory's     *)
(* ghost.                                                                  *)
OverlapSeen ==
    \A p, q \in Procs :
        p # q /\ Running(p) /\ Running(q) /\ force[p] =>
            ~alone[p] /\ ~alone[q] /\ raced

RemoversForced == \A p \in Procs : pc[p] = "remove" => force[p]

OwnersHaveDir == \A p \in Procs : Owner(p) /\ (alone[p] \/ ~raced) => exists

OneOwner == ~raced => \A p, q \in Procs : Owner(p) /\ Owner(q) => p = q

ForcedCleared ==
    \A p \in Procs : force[p] /\ alone[p] /\ pc[p] = "create" => ~exists /\ Fixtures

DirHasParent == exists => Fixtures

RunningUndecided == \A p \in Procs : Running(p) => outcome[p] = "none"

(* Of the runs that met a forced one, only that may go on when the race is *)
(* over which has made the directory since.                                *)
StragglersOwn == ~raced => \A p \in Procs : Running(p) /\ ~alone[p] => Owner(p)

(* Who is where. *)
Control ==
    /\ OverlapSeen
    /\ RemoversForced
    /\ OwnersHaveDir
    /\ OneOwner
    /\ ForcedCleared
    /\ DirHasParent
    /\ RunningUndecided
    /\ StragglersOwn

NoDirNoFiles == ~exists => \A a \in Addresses : files[a] = NoFile

OnlySaved == \A a \in Addresses : files[a] # NoFile => a \in Saved

OpenFiles ==
    \A p \in Procs : \A a \in open[p] :
        /\ pc[p] = "write"
        /\ open[p] = {a}
        /\ files[a] # NoFile
        /\ ~raced => files[a] = EmptyFile

(* What the owner finds: nothing while it fetches, then an account has no  *)
(* file as long as it is to do, and its own text when it is done.          *)
OwnersFiles ==
    ~raced => \A p \in Procs :
        /\ pc[p] = "fetch" => \A a \in Addresses : files[a] = NoFile
        /\ pc[p] = "write" => \A a \in Saved :
              \/ a \in todo[p] /\ files[a] = NoFile
              \/ a \in open[p] \ todo[p] /\ files[a] = EmptyFile
              \/ a \notin todo[p] \cup open[p] /\ files[a] = WholeFile(answer[p])

(* What is in the directory. *)
Contents ==
    /\ NoDirNoFiles
    /\ OnlySaved
    /\ OpenFiles
    /\ OwnersFiles
    /\ SingleSlot

IInv == TypeOK /\ Control /\ Contents

--------------------------------------------------------------------------------
(* Ending an invocation and moving on keep the types, whatever typed value *)
(* the directory is given.                                                 *)
LEMMA EndTyped ==
    ASSUME TypeOK, NEW p \in Procs, NEW result \in Outcomes, End(p, result),
           exists' \in BOOLEAN, raced' \in BOOLEAN, files' \in [Addresses -> File]
    PROVE  TypeOK'
BY SnapshotAssumption DEF TypeOK, End, Goto, Phases

LEMMA ProceedTyped ==
    ASSUME TypeOK, NEW p \in Procs, NEW phase \in Phases, Proceed(p, phase),
           exists' \in BOOLEAN, raced' \in BOOLEAN, files' \in [Addresses -> File],
           open' \in [Procs -> SUBSET Saved]
    PROVE  TypeOK'
BY DEF TypeOK, Proceed, Goto

(* Every variable keeps its type in every step. *)
LEMMA TypeStep == TypeOK /\ [Next]_vars => TypeOK'
<1> SUFFICES ASSUME TypeOK, [Next]_vars
             PROVE  TypeOK'
    OBVIOUS
<1> USE DEF TypeOK
<1>a. NoFile \in File /\ EmptyFile \in File /\ TornFile \in File
    BY SnapshotAssumption DEF File, NoFile, EmptyFile, TornFile
<1>b. \A s \in 0 .. MaxSlot : WholeFile(s) \in File
    BY DEF File, WholeFile
<1>1. CASE ChainMoves
    BY <1>1, SnapshotAssumption DEF ChainMoves
<1>2. ASSUME NEW p \in Procs, NEW forced \in BOOLEAN, Start(p, forced)
      PROVE  TypeOK'
    BY <1>2 DEF Start, Goto, Phases, Outcomes
<1>3. ASSUME NEW p \in Procs, Prepare(p)
      PROVE  TypeOK'
  <2>1. CASE End(p, "refused")
      BY <1>3, <2>1, EndTyped DEF Prepare, Outcomes
  <2>2. CASE Proceed(p, IF force[p] THEN "remove" ELSE "create") /\ UNCHANGED open
    <3>1. (IF force[p] THEN "remove" ELSE "create") \in Phases
        BY DEF Phases
    <3>. QED
        BY <1>3, <2>2, <3>1, ProceedTyped DEF Prepare
  <2>. QED
      BY <1>3, <2>1, <2>2 DEF Prepare
<1>4. ASSUME NEW p \in Procs, RemoveNothing(p)
      PROVE  TypeOK'
    BY <1>4, EndTyped DEF RemoveNothing, Outcomes
<1>5. ASSUME NEW p \in Procs, RemoveFile(p)
      PROVE  TypeOK'
    BY <1>5, <1>a, ProceedTyped DEF RemoveFile, Phases
<1>6. ASSUME NEW p \in Procs, RemoveDir(p)
      PROVE  TypeOK'
    BY <1>6, ProceedTyped DEF RemoveDir, Phases
<1>7. ASSUME NEW p \in Procs, RemoveDisturbed(p)
      PROVE  TypeOK'
  <2>1. CASE End(p, "fs_error")
      BY <1>7, <2>1, EndTyped DEF RemoveDisturbed, Outcomes
  <2>2. CASE Proceed(p, "create") /\ UNCHANGED open
      BY <1>7, <2>2, ProceedTyped DEF RemoveDisturbed, Phases
  <2>. QED
      BY <1>7, <2>1, <2>2 DEF RemoveDisturbed
<1>8. ASSUME NEW p \in Procs, CreateDir(p)
      PROVE  TypeOK'
  <2>1. CASE exists \/ ~Fixtures
      BY <1>8, <2>1, EndTyped DEF CreateDir, Outcomes
  <2>2. CASE ~exists /\ Fixtures
      BY <1>8, <2>2, ProceedTyped DEF CreateDir, Phases
  <2>. QED
      BY <2>1, <2>2
<1>9. ASSUME NEW p \in Procs, FetchAll(p)
      PROVE  TypeOK'
  <2>1. CASE End(p, "panicked")
      BY <1>9, <2>1, EndTyped DEF FetchAll, Outcomes
  <2>2. CASE ~End(p, "panicked")
      BY <1>9, <2>2 DEF FetchAll, Goto, Phases
  <2>. QED
      BY <2>1, <2>2
<1>10. ASSUME NEW p \in Procs, CreateFile(p)
       PROVE  TypeOK'
  <2>1. CASE exists
      BY <1>10, <2>1, <1>a DEF CreateFile
  <2>2. CASE ~exists
      BY <1>10, <2>2, EndTyped DEF CreateFile, Outcomes
  <2>. QED
      BY <2>1, <2>2
<1>11. ASSUME NEW p \in Procs, WriteFile(p)
       PROVE  TypeOK'
    BY <1>11, <1>a, <1>b DEF WriteFile
<1>12. ASSUME NEW p \in Procs, Finish(p)
       PROVE  TypeOK'
    BY <1>12, EndTyped DEF Finish, Outcomes
<1>13. ASSUME NEW p \in Procs, Die(p)
       PROVE  TypeOK'
    BY <1>13, EndTyped DEF Die, Outcomes
<1>14. CASE UNCHANGED vars
    BY <1>14 DEF vars
<1>. QED
    BY <1>1, <1>2, <1>3, <1>4, <1>5, <1>6, <1>7, <1>8, <1>9, <1>10, <1>11,
       <1>12, <1>13, <1>14 DEF Next, Step

--------------------------------------------------------------------------------
(* An invocation that ends leaves the others where they were. *)
LEMMA EndControl ==
    ASSUME TypeOK, Control, NEW p \in Procs, NEW result, End(p, result),
           UNCHANGED <<exists, raced>>
    PROVE  Control'
BY DEF TypeOK, Control, OverlapSeen, RemoversForced, OwnersHaveDir, OneOwner,
       ForcedCleared, DirHasParent, RunningUndecided, StragglersOwn, Owner, Running, End, Goto

(* Who owns the directory, and who sees whom, in every step. *)
LEMMA ControlStep == TypeOK /\ Control /\ [Next]_vars => Control'
<1> SUFFICES ASSUME TypeOK, Control, [Next]_vars
             PROVE  Control'
    OBVIOUS
<1> USE DEF Control, OverlapSeen, RemoversForced, OwnersHaveDir, OneOwner,
            ForcedCleared, DirHasParent, RunningUndecided, StragglersOwn, Owner, Running
<1>1. CASE ChainMoves
    BY <1>1 DEF ChainMoves
<1>2. ASSUME NEW p \in Procs, NEW forced \in BOOLEAN, Start(p, forced)
      PROVE  Control'
  <2>1. /\ pc[p] = "idle" /\ pc' = [pc EXCEPT ![p] = "prepare"]
        /\ force' = [force EXCEPT ![p] = forced]
        /\ outcome' = [outcome EXCEPT ![p] = "none"]
        /\ alone' = [q \in Procs |->
                        IF q = p THEN Overlaps(p, forced) = {}
                                 ELSE alone[q] /\ q \notin Overlaps(p, forced)]
        /\ raced' = (raced \/ Overlaps(p, forced) # {})
        /\ UNCHANGED exists
      BY <1>2 DEF Start, Goto
  <2>2. OverlapSeen'
      BY <2>1 DEF TypeOK, Overlaps
  <2>3. RemoversForced' /\ RunningUndecided' /\ DirHasParent'
      BY <2>1 DEF TypeOK
  <2>4. OwnersHaveDir' /\ OneOwner' /\ ForcedCleared'
      BY <2>1 DEF TypeOK
  <2>5. StragglersOwn'
      BY <2>1 DEF TypeOK
  <2>. QED
      BY <2>2, <2>3, <2>4, <2>5
<1>3. ASSUME NEW p \in Procs, Prepare(p)
      PROVE  Control'
  <2>1. CASE End(p, "refused")
      BY <1>3, <2>1, EndControl DEF Prepare
  <2>2. CASE Proceed(p, IF force[p] THEN "remove" ELSE "create")
      BY <1>3, <2>2 DEF TypeOK, Prepare, Proceed, Goto
  <2>. QED
      BY <1>3, <2>1, <2>2 DEF Prepare
<1>4. ASSUME NEW p \in Procs, RemoveNothing(p)
      PROVE  Control'
    BY <1>4, EndControl DEF RemoveNothing
<1>5. ASSUME NEW p \in Procs, RemoveFile(p)
      PROVE  Control'
    BY <1>5 DEF TypeOK, RemoveFile, Proceed, Goto
<1>6. ASSUME NEW p \in Procs, RemoveDir(p)
      PROVE  Control'
    BY <1>6 DEF TypeOK, RemoveDir, Proceed, Goto
<1>7. ASSUME NEW p \in Procs, RemoveDisturbed(p)
      PROVE  Control'
  <2>1. CASE End(p, "fs_error")
      BY <1>7, <2>1, EndControl DEF RemoveDisturbed
  <2>2. CASE ~exists /\ Proceed(p, "create")
      BY <1>7, <2>2 DEF TypeOK, RemoveDisturbed, Proceed, Goto
  <2>. QED
      BY <1>7, <2>1, <2>2 DEF RemoveDisturbed
<1>8. ASSUME NEW p \in Procs, CreateDir(p)
      PROVE  Control'
  <2>1. CASE exists \/ ~Fixtures
      BY <1>8, <2>1, EndControl DEF CreateDir
  <2>2. CASE ~exists /\ Fixtures
    <3>1. /\ pc[p] = "create" /\ exists' /\ pc' = [pc EXCEPT ![p] = "fetch"]
          /\ raced' = (\E q \in Procs \ {p} : Running(q) /\ ~alone[q])
          /\ UNCHANGED <<force, alone, outcome>>
        BY <1>8, <2>2 DEF CreateDir, Proceed, Goto
    <3>2. OverlapSeen' /\ RemoversForced' /\ RunningUndecided'
        BY <3>1 DEF TypeOK
    <3>3. OwnersHaveDir' /\ ForcedCleared' /\ DirHasParent'
        BY <3>1, <2>2 DEF TypeOK
    <3>4. OneOwner'
        BY <3>1, <2>2 DEF TypeOK
    <3>5. StragglersOwn'
        BY <3>1 DEF TypeOK
    <3>. QED
        BY <3>2, <3>3, <3>4, <3>5
  <2>. QED
      BY <2>1, <2>2
<1>9. ASSUME NEW p \in Procs, FetchAll(p)
      PROVE  Control'
  <2>1. CASE End(p, "panicked")
      BY <1>9, <2>1, EndControl DEF FetchAll
  <2>2. CASE ~End(p, "panicked")
      BY <1>9, <2>2 DEF TypeOK, FetchAll, Goto
  <2>. QED
      BY <2>1, <2>2
<1>10. ASSUME NEW p \in Procs, CreateFile(p)
       PROVE  Control'
  <2>1. CASE exists
      BY <1>10, <2>1 DEF CreateFile
  <2>2. CASE ~exists
      BY <1>10, <2>2, EndControl DEF CreateFile
  <2>. QED
      BY <2>1, <2>2
<1>11. ASSUME NEW p \in Procs, WriteFile(p)
       PROVE  Control'
    BY <1>11 DEF WriteFile
<1>12. ASSUME NEW p \in Procs, Finish(p)
       PROVE  Control'
    BY <1>12, EndControl DEF Finish
<1>13. ASSUME NEW p \in Procs, Die(p)
       PROVE  Control'
    BY <1>13, EndControl DEF Die
<1>14. CASE UNCHANGED vars
    BY <1>14 DEF vars
<1>. QED
    BY <1>1, <1>2, <1>3, <1>4, <1>5, <1>6, <1>7, <1>8, <1>9, <1>10, <1>11,
       <1>12, <1>13, <1>14 DEF Next, Step

--------------------------------------------------------------------------------
LEMMA FilesDiffer ==
    /\ NoFile.state = "none" /\ EmptyFile.state = "empty" /\ TornFile.state = "torn"
    /\ \A s : WholeFile(s).state = "whole" /\ WholeFile(s).slot = s
BY DEF NoFile, EmptyFile, TornFile, WholeFile

(* What is in the directory does not depend on invocations that ended. *)
LEMMA EndContents ==
    ASSUME TypeOK, Contents, NEW p \in Procs, NEW result, End(p, result),
           UNCHANGED <<exists, raced, files>>
    PROVE  Contents'
BY DEF TypeOK, Contents, NoDirNoFiles, OnlySaved, OpenFiles, OwnersFiles, SingleSlot,
       Saved, End, Goto

(* What is in the directory, in every step. *)
LEMMA ContentsStep == TypeOK /\ Control /\ Contents /\ [Next]_vars => Contents'
<1> SUFFICES ASSUME TypeOK, Control, Contents, [Next]_vars
             PROVE  Contents'
    OBVIOUS
<1> USE DEF Contents, NoDirNoFiles, OnlySaved, OpenFiles, OwnersFiles, SingleSlot, Saved
<1>1. CASE ChainMoves
    BY <1>1 DEF ChainMoves
<1>2. ASSUME NEW p \in Procs, NEW forced \in BOOLEAN, Start(p, forced)
      PROVE  Contents'
    BY <1>2 DEF TypeOK, Start, Goto
<1>3. ASSUME NEW p \in Procs, Prepare(p)
      PROVE  Contents'
  <2>1. CASE End(p, "refused")
      BY <1>3, <2>1, EndContents DEF Prepare
  <2>2. CASE Proceed(p, IF force[p] THEN "remove" ELSE "create") /\ UNCHANGED open
      BY <1>3, <2>2 DEF TypeOK, Prepare, Proceed, Goto
  <2>. QED
      BY <1>3, <2>1, <2>2 DEF Prepare
<1>4. ASSUME NEW p \in Procs, RemoveNothing(p)
      PROVE  Contents'
    BY <1>4, EndContents DEF RemoveNothing
<1>5. ASSUME NEW p \in Procs, RemoveFile(p)
      PROVE  Contents'
  <2>1. ~raced => \A q \in Procs : ~Owner(q)
      BY <1>5 DEF Control, OverlapSeen, RemoversForced, Owner, Running, RemoveFile
  <2>. QED
      BY <1>5, <2>1, FilesDiffer DEF TypeOK, RemoveFile, Proceed, Goto, Owner
<1>6. ASSUME NEW p \in Procs, RemoveDir(p)
      PROVE  Contents'
    BY <1>6 DEF TypeOK, RemoveDir, Proceed, Goto
<1>7. ASSUME NEW p \in Procs, RemoveDisturbed(p)
      PROVE  Contents'
  <2>1. CASE End(p, "fs_error")
      BY <1>7, <2>1, EndContents DEF RemoveDisturbed
  <2>2. CASE Proceed(p, "create") /\ UNCHANGED open
      BY <1>7, <2>2 DEF TypeOK, RemoveDisturbed, Proceed, Goto
  <2>. QED
      BY <1>7, <2>1, <2>2 DEF RemoveDisturbed
<1>8. ASSUME NEW p \in Procs, CreateDir(p)
      PROVE  Contents'
  <2>1. CASE exists \/ ~Fixtures
      BY <1>8, <2>1, EndContents DEF CreateDir
  <2>2. CASE ~exists /\ Fixtures
    <3>1. Control'
        BY <1>8, ControlStep DEF Next, Step
    <3>2. ~raced' => \A q \in Procs : pc'[q] # "write"
        BY <1>8, <2>2, <3>1 DEF TypeOK, Control, OneOwner, Owner, CreateDir, Proceed, Goto
    <3>. QED
        BY <1>8, <2>2, <3>2, FilesDiffer DEF TypeOK, CreateDir, Proceed, Goto
  <2>. QED
      BY <2>1, <2>2
<1>9. ASSUME NEW p \in Procs, FetchAll(p)
      PROVE  Contents'
  <2>1. CASE End(p, "panicked")
      BY <1>9, <2>1, EndContents DEF FetchAll
  <2>2. CASE ~End(p, "panicked")
      BY <1>9, <2>2 DEF TypeOK, FetchAll, Goto
  <2>. QED
      BY <2>1, <2>2
<1>10. ASSUME NEW p \in Procs, CreateFile(p)
       PROVE  Contents'
  <2>1. CASE exists
    <3>1. ~raced => \A q \in Procs \ {p} : ~Owner(q)
        BY <1>10 DEF Control, OneOwner, Owner, CreateFile
    <3>2. PICK a \in todo[p] :
              /\ files' = [files EXCEPT ![a] = EmptyFile]
              /\ open' = [open EXCEPT ![p] = {a}]
              /\ todo' = [todo EXCEPT ![p] = @ \ {a}]
        BY <1>10, <2>1 DEF CreateFile
    <3>3. /\ a \in Saved /\ pc[p] = "write" /\ open[p] = {}
          /\ UNCHANGED <<exists, raced, pc, answer>>
        BY <1>10, <2>1 DEF TypeOK, CreateFile
    <3>4. NoDirNoFiles' /\ OnlySaved'
        BY <2>1, <3>2, <3>3 DEF TypeOK
    <3>5. OpenFiles'
        BY <3>1, <3>2, <3>3, FilesDiffer DEF TypeOK, Owner
    <3>6. OwnersFiles'
        BY <3>1, <3>2, <3>3, FilesDiffer DEF TypeOK, Owner
    <3>7. SingleSlot'
        BY <3>2, <3>3, FilesDiffer DEF TypeOK
    <3>. QED
        BY <3>4, <3>5, <3>6, <3>7
  <2>2. CASE ~exists
      BY <1>10, <2>2, EndContents DEF CreateFile
  <2>. QED
      BY <2>1, <2>2
<1>11. ASSUME NEW p \in Procs, WriteFile(p)
       PROVE  Contents'
  <2>1. ~raced => \A q \in Procs \ {p} : ~Owner(q)
      BY <1>11 DEF Control, OneOwner, Owner, WriteFile
  <2>2. PICK a \in open[p] :
            \/ files' = [files EXCEPT ![a] = WholeFile(answer[p])]
            \/ files[a] # EmptyFile /\ files' = [files EXCEPT ![a] = TornFile]
      BY <1>11 DEF WriteFile
  <2>3. /\ a \in Saved /\ pc[p] = "write" /\ files[a] # NoFile
        /\ open' = [open EXCEPT ![p] = {}]
        /\ UNCHANGED <<exists, raced, pc, answer, todo>>
      BY <1>11 DEF TypeOK, WriteFile
  <2>4. ~raced => files' = [files EXCEPT ![a] = WholeFile(answer[p])]
      BY <2>2
  <2>5. NoDirNoFiles' /\ OnlySaved'
      BY <2>2, <2>3 DEF TypeOK
  <2>6. OpenFiles'
      BY <2>1, <2>2, <2>3, FilesDiffer DEF TypeOK, Owner
  <2>7. OwnersFiles'
    <3>1. open[p] = {a} /\ (~raced => files[a] = EmptyFile)
        OBVIOUS
    <3>2. ~raced => a \notin todo[p]
        BY <2>3, <3>1, FilesDiffer
    <3>. QED
        BY <2>1, <2>3, <2>4, <3>1, <3>2 DEF TypeOK, Owner
  <2>8. SingleSlot'
    <3>1. ~raced => \A b \in Addresses :
              \/ files[b] \in {NoFile, EmptyFile}
              \/ files[b] = WholeFile(answer[p])
        BY <2>3
    <3>. QED
        BY <2>3, <2>4, <3>1, FilesDiffer DEF TypeOK
  <2>. QED
      BY <2>5, <2>6, <2>7, <2>8
<1>12. ASSUME NEW p \in Procs, Finish(p)
       PROVE  Contents'
    BY <1>12, EndContents DEF Finish
<1>13. ASSUME NEW p \in Procs, Die(p)
       PROVE  Contents'
    BY <1>13, EndContents DEF Die
<1>14. CASE UNCHANGED vars
    BY <1>14 DEF vars
<1>. QED
    BY <1>1, <1>2, <1>3, <1>4, <1>5, <1>6, <1>7, <1>8, <1>9, <1>10, <1>11,
       <1>12, <1>13, <1>14 DEF Next, Step

--------------------------------------------------------------------------------
LEMMA Initial == Init => IInv
<1> SUFFICES ASSUME Init
             PROVE  IInv
    OBVIOUS
<1>1. TypeOK
  <2>1. NoFile \in File /\ 0 \in 0 .. MaxSlot
      BY SnapshotAssumption DEF File, NoFile
  <2>. QED
      BY <2>1 DEF Init, TypeOK, Phases, Outcomes
<1>2. Control
    BY DEF Init, Control, OverlapSeen, RemoversForced, OwnersHaveDir, OneOwner,
           ForcedCleared, DirHasParent, RunningUndecided, StragglersOwn, Owner, Running
<1>3. Contents
    BY DEF Init, Contents, NoDirNoFiles, OnlySaved, OpenFiles, OwnersFiles, SingleSlot,
           NoFile
<1>. QED
    BY <1>1, <1>2, <1>3 DEF IInv

LEMMA Inductive == IInv /\ [Next]_vars => IInv'
BY TypeStep, ControlStep, ContentsStep DEF IInv

LEMMA Invariance == Spec => []IInv
BY Initial, Inductive, PTL DEF Spec

(* The variables of the snapshot store keep their types, in every order of *)
(* the file-system calls of any number of invocations.                     *)
THEOREM TypeCorrect == Spec => []TypeOK
<1>1. IInv => TypeOK
    BY DEF IInv
<1>. QED
    BY <1>1, Invariance, PTL

(* The files of a snapshot stem from one slot, whatever invocations of     *)
(* take_snapshot failed, died or were repeated.                            *)
THEOREM SnapshotFromOneSlot == Spec => []SingleSlot
<1>1. IInv => SingleSlot
    BY DEF IInv, Contents
<1>. QED
    BY <1>1, Invariance, PTL

(* How an invocation comes to its outcome. *)
LEMMA OutcomeStep ==
    ASSUME IInv, Next, NEW p \in Procs, Running(p)
    PROVE  /\ outcome'[p] = "ok" => Finish(p)
           /\ outcome'[p] = "fs_error" =>
                \/ pc[p] = "remove" /\ (~exists \/ ~alone[p])
                \/ pc[p] = "create" /\ (exists \/ ~Fixtures)
<1> DEFINE Outcome ==
        /\ outcome'[p] = "ok" => Finish(p)
        /\ outcome'[p] = "fs_error" =>
             \/ pc[p] = "remove" /\ (~exists \/ ~alone[p])
             \/ pc[p] = "create" /\ (exists \/ ~Fixtures)
<1>a. outcome[p] = "none" /\ outcome \in [Procs -> Outcomes]
    BY DEF IInv, TypeOK, Control, RunningUndecided
<1>1. CASE ChainMoves
    BY <1>1, <1>a DEF ChainMoves
<1>2. ASSUME NEW q \in Procs, NEW forced \in BOOLEAN, Start(q, forced)
      PROVE  Outcome
    BY <1>2, <1>a DEF Start
<1>3. ASSUME NEW q \in Procs, Step(q), ~Finish(q)
      PROVE  Outcome
    BY <1>3, <1>a DEF Step, Prepare, RemoveNothing, RemoveFile, RemoveDir, RemoveDisturbed,
           CreateDir, FetchAll, CreateFile, WriteFile, Proceed, End
<1>4. ASSUME NEW q \in Procs, Finish(q)
      PROVE  Outcome
    BY <1>4, <1>a DEF Finish, End
<1>5. ASSUME NEW q \in Procs, Die(q)
      PROVE  Outcome
    BY <1>5, <1>a DEF Die, End
<1>. QED
    BY <1>1, <1>2, <1>3, <1>4, <1>5 DEF Next, Step

(* The Ok of take_snapshot means a complete snapshot of the slot fetched.  *)
THEOREM OkIsComplete == Spec => OkMeansComplete
<1> DEFINE Promise(p) ==
        ~raced /\ Running(p) /\ outcome'[p] = "ok" =>
            \E s \in 0 .. MaxSlot : s = answer[p] /\ Complete(s)'
<1>1. ASSUME IInv, Next, NEW p \in Procs
      PROVE  Promise(p)
  <2> SUFFICES ASSUME ~raced, Running(p), outcome'[p] = "ok"
               PROVE  \E s \in 0 .. MaxSlot : s = answer[p] /\ Complete(s)'
      OBVIOUS
  <2>1. Finish(p)
      BY <1>1, OutcomeStep
  <2>2. exists
      BY <1>1, <2>1 DEF IInv, Control, OwnersHaveDir, Owner, Finish
  <2>3. \A a \in Addresses : files[a] = IF a \in Saved THEN WholeFile(answer[p]) ELSE NoFile
      BY <1>1, <2>1 DEF IInv, Contents, OwnersFiles, OnlySaved, Finish, Saved
  <2>4. files \in [Addresses -> File] /\ answer[p] \in 0 .. MaxSlot
      BY <1>1 DEF IInv, TypeOK
  <2>5. Complete(answer[p])
      BY <2>2, <2>3, <2>4 DEF Complete
  <2>6. UNCHANGED <<exists, files>>
      BY <2>1 DEF Finish
  <2>. QED
      BY <2>4, <2>5, <2>6 DEF Complete
<1>2. IInv /\ [Next]_vars => [\A p \in Procs : Promise(p)]_vars
    BY <1>1
<1>. QED
    BY <1>2, Invariance, PTL DEF Spec, OkMeansComplete

(* A file of a snapshot is only lost to a removal that was asked for, or,  *)
(* once a forced run has overlapped another, to a writer that is late.     *)
THEOREM FilesAreSafe == Spec => OnlyForceDestroys
<1> DEFINE Safe(a) ==
        files[a].state = "whole" /\ files'[a] # files[a] =>
            LostToForce(a) \/ LostToLateWriter(a)
<1>1. ASSUME IInv, Next, NEW a \in Addresses
      PROVE  Safe(a)
  <2> SUFFICES ASSUME files[a].state = "whole", files'[a] # files[a]
               PROVE  LostToForce(a) \/ LostToLateWriter(a)
      OBVIOUS
  <2>1. \E p \in Procs : RemoveFile(p) \/ CreateFile(p) \/ WriteFile(p)
      BY <1>1 DEF Next, Step, ChainMoves, Start, Prepare, RemoveNothing, RemoveDir,
             RemoveDisturbed, CreateDir, FetchAll, Finish, Die
  <2>2. ASSUME NEW p \in Procs, RemoveFile(p)
        PROVE  LostToForce(a)
    <3>1. force[p] /\ pc[p] = "remove"
        BY <1>1, <2>2 DEF RemoveFile, IInv, Control, RemoversForced
    <3>2. files'[a] = NoFile
        BY <1>1, <2>2 DEF RemoveFile, IInv, TypeOK
    <3>. QED
        BY <3>1, <3>2 DEF LostToForce
  <2>3. ASSUME NEW p \in Procs, CreateFile(p)
        PROVE  LostToLateWriter(a)
    <3>1. a \in todo[p] /\ pc[p] = "write" /\ open[p] = {}
        BY <1>1, <2>3 DEF CreateFile, IInv, TypeOK
    <3>2. raced
        BY <1>1, <3>1, FilesDiffer DEF IInv, TypeOK, Contents, OwnersFiles
    <3>. QED
        BY <3>1, <3>2 DEF LostToLateWriter
  <2>4. ASSUME NEW p \in Procs, WriteFile(p)
        PROVE  LostToLateWriter(a)
    <3>1. a \in open[p] /\ pc[p] = "write"
        BY <1>1, <2>4 DEF WriteFile, IInv, TypeOK
    <3>2. raced
        BY <1>1, <3>1, FilesDiffer DEF IInv, Contents, OpenFiles
    <3>. QED
        BY <3>1, <3>2 DEF LostToLateWriter
  <2>. QED
      BY <2>1, <2>2, <2>3, <2>4
<1>2. IInv /\ [Next]_vars => [\A a \in Addresses : Safe(a)]_vars
    BY <1>1
<1>. QED
    BY <1>2, Invariance, PTL DEF Spec, OnlyForceDestroys

(* Run alone, --force gets over whatever earlier invocations left behind.  *)
THEOREM ForceGetsThrough == Spec => ForceUnblocks
<1> DEFINE Through(p) ==
        Running(p) /\ force[p] /\ alone[p] /\ outcome'[p] = "fs_error" =>
            pc[p] = "remove" /\ ~exists
<1>1. ASSUME IInv, Next, NEW p \in Procs
      PROVE  Through(p)
    BY <1>1, OutcomeStep DEF IInv, Control, ForcedCleared
<1>2. IInv /\ [Next]_vars => [\A p \in Procs : Through(p)]_vars
    BY <1>1
<1>. QED
    BY <1>2, Invariance, PTL DEF Spec, ForceUnblocks

--------------------------------------------------------------------------------
(* The refinement: what the mapping makes of a state, case by case.        *)

Incomplete == \A s \in 0 .. MaxSlot : ~Complete(s)

FolderIs(s, t) == FolderState = s /\ FolderOf = t

Readings ==
    /\ raced => FolderIs("unsure", 0)
    /\ ~raced /\ ~exists => FolderIs("absent", 0)
    /\ ~raced => \A s \in 0 .. MaxSlot : Complete(s) => FolderIs("picture", s)
    /\ ~raced /\ exists /\ Incomplete =>
          /\ \A p \in Procs : pc[p] = "fetch" => FolderIs("begun", 0)
          /\ \A p \in Procs : pc[p] = "write" => FolderIs("taken", answer[p])
          /\ (\A p \in Procs : ~Owner(p)) => FolderIs("broken", 0)

(* A directory is the snapshot of one slot at most. *)
LEMMA OnePicture ==
    ASSUME NEW s, NEW t, Complete(s), Complete(t)
    PROVE  s = t
<1>1. PICK a \in Addresses : a \in Saved
    BY SnapshotAssumption DEF Saved
<1>2. files[a] = WholeFile(s) /\ files[a] = WholeFile(t)
    BY <1>1 DEF Complete
<1>. QED
    BY <1>2 DEF WholeFile

(* A saved account without its file, or without its text, is a gap. *)
Gaps == \A a \in Saved : files[a] \in {NoFile, EmptyFile} => Incomplete

LEMMA GapsHold == Gaps
BY FilesDiffer DEF Gaps, Incomplete, Complete, Saved

(* The mapping, state by state. *)
LEMMA ReadingsHold == IInv => Readings
<1> SUFFICES ASSUME IInv
             PROVE  Readings
    OBVIOUS
<1>1. CASE raced
    BY <1>1 DEF Readings, FolderIs, FolderState, FolderOf
<1>2. CASE ~raced /\ ~exists
    BY <1>2 DEF Readings, FolderIs, FolderState, FolderOf, Complete
<1>3. ASSUME ~raced, NEW s \in 0 .. MaxSlot, Complete(s)
      PROVE  FolderIs("picture", s)
  <2>1. FolderState = "picture"
      BY <1>3 DEF FolderState, Complete
  <2>2. FolderOf = CHOOSE t \in 0 .. MaxSlot : Complete(t)
      BY <2>1 DEF FolderOf
  <2>3. \A t \in 0 .. MaxSlot : Complete(t) => t = s
      BY <1>3, OnePicture
  <2>. QED
      BY <1>3, <2>1, <2>2, <2>3 DEF FolderIs
<1>4. ASSUME ~raced, exists, Incomplete
      PROVE  /\ \A p \in Procs : pc[p] = "fetch" => FolderIs("begun", 0)
             /\ \A p \in Procs : pc[p] = "write" => FolderIs("taken", answer[p])
             /\ (\A p \in Procs : ~Owner(p)) => FolderIs("broken", 0)
  <2>1. ASSUME NEW p \in Procs, pc[p] = "fetch"
        PROVE  FolderIs("begun", 0)
      BY <1>4, <2>1 DEF FolderIs, FolderState, FolderOf, Incomplete
  <2>2. ASSUME NEW p \in Procs, pc[p] = "write"
        PROVE  FolderIs("taken", answer[p])
    <3>1. \A q \in Procs : Owner(q) => q = p
        BY <1>4, <2>2 DEF IInv, Control, OneOwner, Owner
    <3>2. FolderState = "taken"
        BY <1>4, <2>2, <3>1 DEF FolderState, Incomplete, Owner
    <3>3. FolderOf = CHOOSE s \in 0 .. MaxSlot :
                         \E q \in Procs : pc[q] = "write" /\ answer[q] = s
        BY <3>2 DEF FolderOf
    <3>4. answer[p] \in 0 .. MaxSlot
        BY DEF IInv, TypeOK
    <3>. QED
        BY <2>2, <3>1, <3>2, <3>3, <3>4 DEF FolderIs, Owner
  <2>3. ASSUME \A p \in Procs : ~Owner(p)
        PROVE  FolderIs("broken", 0)
      BY <1>4, <2>3 DEF FolderIs, FolderState, FolderOf, Incomplete, Owner
  <2>. QED
      BY <2>1, <2>2, <2>3
<1>. QED
    BY <1>1, <1>2, <1>3, <1>4 DEF Readings

LEMMA ReadingsNext == (IInv' => Readings') /\ Gaps /\ Gaps'
BY ReadingsHold, GapsHold, PTL

(* A step between two states of the invariant, with both readings. *)
WellRead ==
    /\ IInv /\ IInv'
    /\ Readings /\ Readings'
    /\ Gaps /\ Gaps'

(* A race that goes on hides everything. *)
LEMMA RaceGoesOn ==
    ASSUME WellRead, raced, raced', slot' = slot
    PROVE  Folder!Rest
BY DEF WellRead, Readings, FolderIs, Folder!Rest

(* The folder depends on the directory and its owner alone. *)
LEMMA SameFolder ==
    ASSUME WellRead, UNCHANGED <<exists, files, raced>>,
           \A p \in Procs : /\ pc'[p] = "fetch" <=> pc[p] = "fetch"
                            /\ pc'[p] = "write" <=> pc[p] = "write"
                            /\ pc[p] = "write" => answer'[p] = answer[p]
    PROVE  UNCHANGED <<FolderState, FolderOf>>
<1>1. \A s : Complete(s)' <=> Complete(s)
    BY DEF Complete
<1>2. CASE raced \/ ~exists
    BY <1>2 DEF WellRead, Readings, FolderIs
<1>3. CASE ~raced /\ exists /\ Incomplete
  <2>1. Incomplete'
      BY <1>1, <1>3 DEF Incomplete
  <2>2. CASE \E p \in Procs : pc[p] = "fetch"
      BY <1>3, <2>1, <2>2 DEF WellRead, Readings, FolderIs
  <2>3. CASE \E p \in Procs : pc[p] = "write"
      BY <1>3, <2>1, <2>3 DEF WellRead, Readings, FolderIs
  <2>4. CASE \A p \in Procs : ~Owner(p)
    <3>1. \A p \in Procs : ~Owner(p)'
        BY <2>4 DEF Owner
    <3>. QED
        BY <1>3, <2>1, <2>4, <3>1 DEF WellRead, Readings, FolderIs
  <2>. QED
      BY <2>2, <2>3, <2>4 DEF Owner
<1>4. ASSUME ~raced, NEW s \in 0 .. MaxSlot, Complete(s)
      PROVE  UNCHANGED <<FolderState, FolderOf>>
    BY <1>1, <1>4 DEF WellRead, Readings, FolderIs
<1>. QED
    BY <1>2, <1>3, <1>4 DEF Incomplete

(* An owner that ends early abandons the folder, any other end is nothing  *)
(* to it.                                                                  *)
LEMMA FolderAtEnd ==
    ASSUME WellRead, NEW p \in Procs, NEW result, End(p, result),
           UNCHANGED <<exists, files, raced>>
    PROVE  Folder!Rest \/ Folder!Abandon
<1>1. /\ slot' = slot
      /\ pc'[p] = "idle"
      /\ \A q \in Procs \ {p} : pc'[q] = pc[q] /\ answer'[q] = answer[q]
    BY DEF WellRead, IInv, TypeOK, End, Goto
<1>2. CASE ~Owner(p)
  <2>1. UNCHANGED <<FolderState, FolderOf>>
      BY <1>1, <1>2, SameFolder DEF Owner
  <2>. QED
      BY <1>1, <2>1 DEF Folder!Rest
<1>3. CASE Owner(p) /\ ~raced /\ exists /\ Incomplete
  <2>1. /\ FolderIs("begun", 0) \/ FolderIs("taken", answer[p])
      BY <1>3 DEF WellRead, Readings, Owner
  <2>2. Incomplete'
      BY <1>3 DEF Incomplete, Complete
  <2>3. \A q \in Procs : ~Owner(q)'
      BY <1>1, <1>3 DEF WellRead, IInv, Control, OneOwner, Owner
  <2>4. FolderIs("broken", 0)'
      BY <1>3, <2>2, <2>3 DEF WellRead, Readings
  <2>. QED
      BY <1>1, <2>1, <2>4 DEF FolderIs, Folder!Abandon, Folder!Become
<1>4. CASE raced \/ ~exists
    BY <1>1, <1>4 DEF WellRead, Readings, FolderIs, Folder!Rest
<1>5. ASSUME ~raced, NEW s \in 0 .. MaxSlot, Complete(s)
      PROVE  Folder!Rest
  <2>1. Complete(s)'
      BY <1>5 DEF Complete
  <2>. QED
      BY <1>1, <1>5, <2>1 DEF WellRead, Readings, FolderIs, Folder!Rest
<1>. QED
    BY <1>2, <1>3, <1>4, <1>5 DEF Incomplete

(* So is a step that neither touches the directory nor makes an owner.     *)
LEMMA FolderAtRest ==
    ASSUME WellRead, NEW p \in Procs, NEW phase \in {"remove", "create"},
           ~Owner(p), Proceed(p, phase), UNCHANGED <<exists, files, raced>>
    PROVE  Folder!Rest
<1>1. /\ slot' = slot /\ answer' = answer
      /\ pc'[p] = phase
      /\ \A q \in Procs \ {p} : pc'[q] = pc[q]
    BY DEF WellRead, IInv, TypeOK, Proceed, Goto
<1>2. UNCHANGED <<FolderState, FolderOf>>
    BY <1>1, SameFolder DEF Owner
<1>. QED
    BY <1>1, <1>2 DEF Folder!Rest

(* A forced invocation that removes the directory has no owner beside it.  *)
LEMMA NoOwnerBeside ==
    ASSUME IInv, NEW p \in Procs, pc[p] = "remove", ~raced
    PROVE  /\ Forced
           /\ \A q \in Procs : ~Owner(q)
BY DEF IInv, Control, OverlapSeen, RemoversForced, Owner, Running, Forced

LEMMA FolderStart ==
    ASSUME WellRead, NEW p \in Procs, NEW forced \in BOOLEAN, Start(p, forced)
    PROVE  Folder!Rest \/ Folder!Spoil
<1>1. /\ slot' = slot /\ answer' = answer
      /\ pc[p] = "idle" /\ pc'[p] = "prepare"
      /\ \A q \in Procs \ {p} : pc'[q] = pc[q] /\ force'[q] = force[q]
      /\ force'[p] = forced
    BY DEF WellRead, IInv, TypeOK, Start, Goto
<1>2. CASE raced' = raced
  <2>1. UNCHANGED <<FolderState, FolderOf>>
      BY <1>1, <1>2, SameFolder DEF Start
  <2>. QED
      BY <1>1, <2>1 DEF Folder!Rest
<1>3. CASE raced' # raced
  <2>1. raced' /\ Overlaps(p, forced) # {}
      BY <1>3 DEF Start, WellRead, IInv, TypeOK
  <2>2. PICK q \in Procs \ {p} : Running(q) /\ (forced \/ force[q])
      BY <2>1 DEF Overlaps
  <2>3. Running(p)' /\ Running(q)' /\ (force'[p] \/ force'[q])
      BY <1>1, <2>2 DEF Running
  <2>4. Forced'
      BY <2>3 DEF Forced
  <2>5. FolderIs("unsure", 0)'
      BY <2>1 DEF WellRead, Readings
  <2>. QED
      BY <1>1, <2>4, <2>5 DEF FolderIs, Folder!Spoil, Folder!Become
<1>. QED
    BY <1>2, <1>3

LEMMA FolderRemoveFile ==
    ASSUME WellRead, NEW p \in Procs, RemoveFile(p)
    PROVE  Folder!Rest \/ Folder!Undo
<1>1. /\ slot' = slot /\ raced' = raced /\ exists /\ exists'
      /\ pc[p] = "remove" /\ pc'[p] = "remove"
      /\ \A q \in Procs : pc'[q] = pc[q]
    BY DEF WellRead, IInv, TypeOK, RemoveFile, Proceed, Goto
<1>2. CASE raced
    BY <1>1, <1>2, RaceGoesOn
<1>3. CASE ~raced
  <2>1. Forced /\ \A q \in Procs : ~Owner(q) /\ ~Owner(q)'
      BY <1>1, <1>3, NoOwnerBeside DEF WellRead, Owner
  <2>2. PICK a \in Addresses : files[a] # NoFile /\ files' = [files EXCEPT ![a] = NoFile]
      BY DEF RemoveFile
  <2>3. a \in Saved /\ files'[a] = NoFile
      BY <2>2 DEF WellRead, IInv, TypeOK, Contents, OnlySaved
  <2>4. Incomplete'
      BY <2>3 DEF WellRead, Gaps, NoFile, Saved
  <2>5. FolderIs("broken", 0)'
      BY <1>1, <1>3, <2>1, <2>4 DEF WellRead, Readings
  <2>6. CASE Incomplete
    <3>1. FolderIs("broken", 0)
        BY <1>1, <1>3, <2>1, <2>6 DEF WellRead, Readings
    <3>. QED
        BY <1>1, <2>5, <3>1 DEF FolderIs, Folder!Rest
  <2>7. CASE ~Incomplete
    <3>1. FolderState = "picture"
        BY <1>3, <2>7 DEF WellRead, Readings, Incomplete, FolderIs
    <3>. QED
        BY <1>1, <2>1, <2>5, <3>1 DEF FolderIs, Folder!Undo, Folder!Become
  <2>. QED
      BY <2>6, <2>7
<1>. QED
    BY <1>2, <1>3

LEMMA FolderRemoveDir ==
    ASSUME WellRead, NEW p \in Procs, RemoveDir(p)
    PROVE  Folder!Rest \/ Folder!Vanish
<1>1. /\ slot' = slot /\ raced' = raced /\ exists /\ ~exists' /\ pc[p] = "remove"
      /\ \A a \in Addresses : files[a] = NoFile
    BY DEF RemoveDir, Proceed
<1>2. CASE raced
    BY <1>1, <1>2, RaceGoesOn
<1>3. CASE ~raced
  <2>1. Forced /\ \A q \in Procs : ~Owner(q)
      BY <1>1, <1>3, NoOwnerBeside DEF WellRead
  <2>2. Incomplete
      BY <1>1, SnapshotAssumption DEF WellRead, Gaps, Saved
  <2>3. FolderIs("broken", 0) /\ FolderIs("absent", 0)'
      BY <1>1, <1>3, <2>1, <2>2 DEF WellRead, Readings
  <2>. QED
      BY <1>1, <2>1, <2>3 DEF FolderIs, Folder!Vanish, Folder!Become
<1>. QED
    BY <1>2, <1>3

LEMMA FolderCreateDir ==
    ASSUME WellRead, NEW p \in Procs, CreateDir(p)
    PROVE  Folder!Rest \/ Folder!Abandon \/ Folder!Make
<1>1. CASE exists \/ ~Fixtures
    BY <1>1, FolderAtEnd DEF CreateDir
<1>2. CASE ~exists /\ Fixtures
  <2>1. /\ slot' = slot /\ exists' /\ files' = files /\ pc'[p] = "fetch"
        /\ raced' = (\E q \in Procs \ {p} : Running(q) /\ ~alone[q])
      BY <1>2 DEF WellRead, IInv, TypeOK, CreateDir, Proceed, Goto
  <2>2. CASE raced'
    <3>1. PICK q \in Procs \ {p} : Running(q) /\ ~alone[q]
        BY <2>1, <2>2
    <3>2. raced
        BY <1>2, <3>1 DEF WellRead, IInv, Control, StragglersOwn, OwnersHaveDir
    <3>. QED
        BY <2>1, <2>2, <3>2, RaceGoesOn
  <2>3. CASE ~raced'
    <3>1. Incomplete'
        BY <1>2, <2>1, SnapshotAssumption
           DEF WellRead, IInv, Contents, NoDirNoFiles, Gaps, Saved
    <3>2. FolderIs("begun", 0)'
        BY <2>1, <2>3, <3>1 DEF WellRead, Readings
    <3>3. FolderState \in {"absent", "unsure"}
        BY <1>2 DEF WellRead, Readings, FolderIs
    <3>. QED
        BY <2>1, <3>2, <3>3 DEF FolderIs, Folder!Make, Folder!Become
  <2>. QED
      BY <2>2, <2>3
<1>. QED
    BY <1>1, <1>2

LEMMA FolderFetchAll ==
    ASSUME WellRead, NEW p \in Procs, FetchAll(p)
    PROVE  Folder!Rest \/ Folder!Abandon \/ Folder!Look
<1>1. CASE End(p, "panicked")
    BY <1>1, FolderAtEnd DEF FetchAll
<1>2. CASE ~End(p, "panicked")
  <2>1. /\ slot' = slot /\ UNCHANGED <<exists, files, raced>>
        /\ pc[p] = "fetch" /\ pc'[p] = "write" /\ answer'[p] = slot
      BY <1>2 DEF WellRead, IInv, TypeOK, FetchAll, Goto
  <2>2. CASE raced
      BY <2>1, <2>2, RaceGoesOn
  <2>3. CASE ~raced
    <3>1. exists /\ \A a \in Addresses : files[a] = NoFile
        BY <2>1, <2>3
           DEF WellRead, IInv, Control, OwnersHaveDir, Owner, Contents, OwnersFiles
    <3>2. Incomplete /\ Incomplete'
        BY <2>1, <3>1, SnapshotAssumption DEF WellRead, Gaps, Saved
    <3>3. FolderIs("begun", 0) /\ (FolderState' = "taken" /\ FolderOf' = slot)
        BY <2>1, <2>3, <3>1, <3>2 DEF WellRead, Readings, FolderIs
    <3>. QED
        BY <2>1, <3>3 DEF FolderIs, Folder!Look, Folder!Become
  <2>. QED
      BY <2>2, <2>3
<1>. QED
    BY <1>1, <1>2

LEMMA FolderCreateFile ==
    ASSUME WellRead, NEW p \in Procs, CreateFile(p)
    PROVE  Folder!Rest \/ Folder!Abandon
<1>1. CASE ~exists
    BY <1>1, FolderAtEnd DEF CreateFile
<1>2. CASE exists /\ raced
    BY <1>2, RaceGoesOn DEF CreateFile
<1>3. CASE exists /\ ~raced
  <2>1. PICK a \in todo[p] : files' = [files EXCEPT ![a] = EmptyFile]
      BY <1>3 DEF CreateFile
  <2>2. /\ slot' = slot /\ exists' /\ ~raced'
        /\ pc[p] = "write" /\ pc' = pc /\ answer' = answer
      BY <1>3 DEF CreateFile
  <2>3. a \in Saved /\ files[a] = NoFile /\ files'[a] = EmptyFile
      BY <1>3, <2>1, <2>2 DEF WellRead, IInv, TypeOK, Contents, OwnersFiles, Saved
  <2>4. Incomplete /\ Incomplete'
      BY <2>3 DEF WellRead, Gaps, Saved
  <2>5. FolderIs("taken", answer[p]) /\ FolderIs("taken", answer[p])'
      BY <1>3, <2>2, <2>4 DEF WellRead, Readings
  <2>. QED
      BY <2>2, <2>5 DEF FolderIs, Folder!Rest
<1>. QED
    BY <1>1, <1>2, <1>3

LEMMA FolderWriteFile ==
    ASSUME WellRead, NEW p \in Procs, WriteFile(p)
    PROVE  Folder!Rest \/ Folder!Fill
<1>1. CASE raced
    BY <1>1, RaceGoesOn DEF WriteFile
<1>2. CASE ~raced
  <2>1. PICK a \in open[p] : \/ files' = [files EXCEPT ![a] = WholeFile(answer[p])]
                             \/ files[a] # EmptyFile
      BY DEF WriteFile
  <2>2. /\ slot' = slot /\ exists' = exists /\ ~raced'
        /\ pc[p] = "write" /\ pc' = pc /\ answer' = answer
      BY <1>2 DEF WriteFile
  <2>3. a \in Saved /\ files[a] = EmptyFile /\ exists
      BY <1>2, <2>2
         DEF WellRead, IInv, TypeOK, Contents, OpenFiles, Control, OwnersHaveDir, Owner
  <2>4. files'[a] = WholeFile(answer[p])
      BY <2>1, <2>3 DEF WellRead, IInv, TypeOK, Saved
  <2>5. Incomplete
      BY <2>3 DEF WellRead, Gaps
  <2>6. FolderIs("taken", answer[p])
      BY <1>2, <2>2, <2>3, <2>5 DEF WellRead, Readings
  <2>7. CASE Incomplete'
    <3>1. FolderIs("taken", answer[p])'
        BY <2>2, <2>3, <2>7 DEF WellRead, Readings
    <3>. QED
        BY <2>2, <2>6, <3>1 DEF FolderIs, Folder!Rest
  <2>8. ASSUME NEW s \in 0 .. MaxSlot, Complete(s)'
        PROVE  Folder!Fill
    <3>1. s = answer[p]
        BY <2>3, <2>4, <2>8 DEF Complete, Saved, WholeFile
    <3>2. FolderIs("picture", s)'
        BY <2>2, <2>8 DEF WellRead, Readings
    <3>. QED
        BY <2>2, <2>6, <3>1, <3>2 DEF FolderIs, Folder!Fill, Folder!Become
  <2>. QED
      BY <2>7, <2>8 DEF Incomplete
<1>. QED
    BY <1>1, <1>2

(* The directory that any number of invocations of snapshot-amm make,      *)
(* fill, leave and remove is a folder of SnapshotFolder.                   *)
THEOREM Refinement == Spec => RefinesSnapshotFolder
<1>1. ASSUME Init
      PROVE  Folder!Init
    BY <1>1 DEF Init, Folder!Init, FolderState, FolderOf, Forced, Running
<1>2. ASSUME WellRead, Next
      PROVE  Folder!Next
  <2>1. Forced' \in BOOLEAN
      BY DEF Forced
  <2>2. ASSUME ChainMoves
        PROVE  Folder!Move
    <3>1. UNCHANGED <<FolderState, FolderOf>>
        BY <1>2, <2>2, SameFolder DEF ChainMoves
    <3>. QED
        BY <2>2, <3>1 DEF ChainMoves, Folder!Move
  <2>3. ASSUME NEW p \in Procs, NEW forced \in BOOLEAN, Start(p, forced)
        PROVE  Folder!Rest \/ Folder!Spoil
      BY <1>2, <2>3, FolderStart
  <2>4. ASSUME NEW p \in Procs, Step(p)
        PROVE  \/ Folder!Rest \/ Folder!Make \/ Folder!Look \/ Folder!Fill
               \/ Folder!Abandon \/ Folder!Undo \/ Folder!Vanish
    <3>1. CASE Prepare(p)
        BY <1>2, <3>1, FolderAtEnd, FolderAtRest DEF Prepare, Owner
    <3>2. CASE RemoveNothing(p)
        BY <1>2, <3>2, FolderAtEnd DEF RemoveNothing
    <3>3. CASE RemoveFile(p)
        BY <1>2, <3>3, FolderRemoveFile
    <3>4. CASE RemoveDir(p)
        BY <1>2, <3>4, FolderRemoveDir
    <3>5. CASE RemoveDisturbed(p)
        BY <1>2, <3>5, FolderAtEnd, FolderAtRest DEF RemoveDisturbed, Owner
    <3>6. CASE CreateDir(p)
        BY <1>2, <3>6, FolderCreateDir
    <3>7. CASE FetchAll(p)
        BY <1>2, <3>7, FolderFetchAll
    <3>8. CASE CreateFile(p)
        BY <1>2, <3>8, FolderCreateFile
    <3>9. CASE WriteFile(p)
        BY <1>2, <3>9, FolderWriteFile
    <3>10. CASE Finish(p)
        BY <1>2, <3>10, FolderAtEnd DEF Finish
    <3>. QED
        BY <2>4, <3>1, <3>2, <3>3, <3>4, <3>5, <3>6, <3>7, <3>8, <3>9, <3>10 DEF Step
  <2>5. ASSUME NEW p \in Procs, Die(p)
        PROVE  Folder!Rest \/ Folder!Abandon
      BY <1>2, <2>5, FolderAtEnd DEF Die
  <2>. QED
      BY <1>2, <2>1, <2>2, <2>3, <2>4, <2>5 DEF Next, Folder!Next
<1>3. ASSUME WellRead, UNCHANGED vars
      PROVE  UNCHANGED Folder!vars
  <2>1. UNCHANGED <<FolderState, FolderOf>>
      BY <1>3, SameFolder DEF vars
  <2>2. UNCHANGED <<slot, Forced>>
      BY <1>3 DEF vars, Forced, Running
  <2>. QED
      BY <2>1, <2>2 DEF Folder!vars
<1>4. IInv /\ IInv' /\ [Next]_vars => [Folder!Next]_(Folder!vars)
  <2> SUFFICES ASSUME IInv, IInv', [Next]_vars
               PROVE  [Folder!Next]_(Folder!vars)
      OBVIOUS
  <2>1. WellRead
      BY ReadingsHold, ReadingsNext DEF WellRead
  <2>. QED
      BY <1>2, <1>3, <2>1
<1>. QED
    BY <1>1, <1>4, Invariance, PTL DEF Spec, RefinesSnapshotFolder, Folder!Spec

================================================================================
