------------------------------ MODULE SnapshotStore ------------------------------
(***************************************************************************)
(* `snapshot-amm`: invocations of `take_snapshot` that write the accounts  *)
(* of a pool to tests/fixtures/accounts/<amm-id>-<option>/, one file per   *)
(* account.  All invocations modelled here name the same directory.        *)
(*                                                                         *)
(* Nothing is atomic but single file-system calls: a forced invocation     *)
(* removes the old directory file by file, the directory is created before *)
(* the accounts are fetched, files are created empty and then written, and *)
(* the process may die between any two steps.                              *)
(***************************************************************************)
EXTENDS Integers

CONSTANTS
    Procs,      \* invocations of the command, each may be run again
    Addresses,  \* addresses_for_snapshot
    Kind,       \* what the chain has at an address
    Fixtures,   \* the directory tests/fixtures/accounts exists
    MaxSlot     \* bound on the slots of a behaviour

ASSUME SnapshotAssumption ==
    /\ Kind \in [Addresses -> {"data", "executable", "missing"}]
    /\ \E a \in Addresses : Kind[a] = "data"   \* the pool itself
    /\ Fixtures \in BOOLEAN
    /\ MaxSlot \in Nat

VARIABLES
    slot,       \* the chain's slot
    exists,     \* the snapshot directory exists
    files,      \* files[a]: the file <a>.json of the directory
    pc,         \* pc[p]: where invocation p is, "idle" when not running
    force,      \* force[p]: the invocation was given --force
    answer,     \* answer[p]: the slot get_multiple_accounts answered from
    todo,       \* todo[p]: accounts of the answer without a file yet
    open,       \* open[p]: the account whose file is created and not written
    outcome,    \* outcome[p]: how the last invocation of p ended
    alone,      \* ghost: p's run and a forced one never overlapped
    raced       \* ghost: a run that overlapped a forced one may touch the directory

vars == <<slot, exists, files, pc, force, answer, todo, open, outcome, alone, raced>>

NoFile == [state |-> "none", slot |-> 0]
EmptyFile == [state |-> "empty", slot |-> 0]
WholeFile(s) == [state |-> "whole", slot |-> s]
TornFile == [state |-> "torn", slot |-> 0]

Phases == {"idle", "prepare", "remove", "create", "fetch", "write"}

Outcomes == {"none", "ok", "refused", "fs_error", "panicked", "died"}

(* Accounts that get a file: they exist and are not programs. *)
Saved == {a \in Addresses : Kind[a] = "data"}

File == [state : {"none", "empty", "whole", "torn"}, slot : 0 .. MaxSlot]

(* Types of the variables. *)
TypeOK ==
    /\ slot \in 0 .. MaxSlot
    /\ exists \in BOOLEAN
    /\ files \in [Addresses -> File]
    /\ pc \in [Procs -> Phases]
    /\ force \in [Procs -> BOOLEAN]
    /\ answer \in [Procs -> 0 .. MaxSlot]
    /\ todo \in [Procs -> SUBSET Saved]
    /\ open \in [Procs -> SUBSET Saved]
    /\ outcome \in [Procs -> Outcomes]
    /\ alone \in [Procs -> BOOLEAN]
    /\ raced \in BOOLEAN

Init ==
    /\ slot = 0
    /\ exists = FALSE
    /\ files = [a \in Addresses |-> NoFile]
    /\ pc = [p \in Procs |-> "idle"]
    /\ force = [p \in Procs |-> FALSE]
    /\ answer = [p \in Procs |-> 0]
    /\ todo = [p \in Procs |-> {}]
    /\ open = [p \in Procs |-> {}]
    /\ outcome = [p \in Procs |-> "none"]
    /\ alone = [p \in Procs |-> TRUE]
    /\ raced = FALSE

ChainMoves ==
    /\ slot < MaxSlot
    /\ slot' = slot + 1
    /\ UNCHANGED <<exists, files, pc, force, answer, todo, open, outcome, alone, raced>>

--------------------------------------------------------------------------------
(* The end of an invocation: its memory is gone, the directory stays.      *)

Goto(p, phase) == pc' = [pc EXCEPT ![p] = phase]

End(p, result) ==
    /\ Goto(p, "idle")
    /\ answer' = [answer EXCEPT ![p] = 0]
    /\ todo' = [todo EXCEPT ![p] = {}]
    /\ open' = [open EXCEPT ![p] = {}]
    /\ outcome' = [outcome EXCEPT ![p] = result]
    /\ UNCHANGED <<slot, force, alone>>

(* The steps that only move on leave the rest of the process alone. *)
Proceed(p, phase) ==
    /\ Goto(p, phase)
    /\ UNCHANGED <<slot, force, answer, todo, outcome, alone>>

--------------------------------------------------------------------------------
(* Invocations.                                                            *)

Running(p) == pc[p] # "idle"

(* Nothing in the code keeps a forced invocation, which removes what it    *)
(* finds, from running beside another one.                                 *)
Overlaps(p, forced) == {q \in Procs \ {p} : Running(q) /\ (forced \/ force[q])}

Start(p, forced) ==
    /\ pc[p] = "idle"
    /\ Goto(p, "prepare")
    /\ force' = [force EXCEPT ![p] = forced]
    /\ outcome' = [outcome EXCEPT ![p] = "none"]
    /\ alone' = [q \in Procs |->
                    IF q = p THEN Overlaps(p, forced) = {}
                             ELSE alone[q] /\ q \notin Overlaps(p, forced)]
    /\ raced' = (raced \/ Overlaps(p, forced) # {})
    /\ UNCHANGED <<slot, exists, files, answer, todo, open>>

(* Mutant: --force is forgotten. *)
Prepare_Unforced(p) ==
    /\ pc[p] = "prepare"
    /\ \/ /\ Proceed(p, "create")
          /\ UNCHANGED open
       \/ End(p, "refused")
    /\ UNCHANGED <<exists, files, raced>>

(* Everything before the file system is touched: the clock, the pool       *)
(* account, the factory, three updates and the addresses of the swap.  A   *)
(* failed request, an unsupported pool, a missing vault or a mint with no  *)
(* configured amount ends the invocation here.                             *)
Prepare(p) ==
    /\ pc[p] = "prepare"
    /\ \/ /\ Proceed(p, IF force[p] THEN "remove" ELSE "create")
          /\ UNCHANGED open
       \/ End(p, "refused")
    /\ UNCHANGED <<exists, files, raced>>

(* remove_dir_all: an error when there is no directory, else the files in  *)
(* any order and the directory last.                                       *)
RemoveNothing(p) ==
    /\ pc[p] = "remove"
    /\ ~exists
    /\ End(p, "fs_error")
    /\ UNCHANGED <<exists, files, raced>>

(* An invocation that has the file open writes to a file without a name. *)
RemoveFile(p) ==
    /\ pc[p] = "remove"
    /\ exists
    /\ \E a \in Addresses :
          /\ files[a] # NoFile
          /\ files' = [files EXCEPT ![a] = NoFile]
          /\ open' = [q \in Procs |-> open[q] \ {a}]
    /\ Proceed(p, "remove")
    /\ UNCHANGED <<exists, raced>>

(* Mutant: the directory is emptied and kept. *)
RemoveDir_Kept(p) ==
    /\ pc[p] = "remove"
    /\ exists
    /\ \A a \in Addresses : files[a] = NoFile
    /\ Proceed(p, "create")
    /\ UNCHANGED <<exists, files, open, raced>>

RemoveDir(p) ==
    /\ pc[p] = "remove"
    /\ exists
    /\ \A a \in Addresses : files[a] = NoFile
    /\ exists' = FALSE
    /\ Proceed(p, "create")
    /\ UNCHANGED <<files, open, raced>>

(* What others do to the directory meanwhile may make the removal fail, or *)
(* count the directory that is gone as removed.                            *)
RemoveDisturbed(p) ==
    /\ pc[p] = "remove"
    /\ ~alone[p]
    /\ \/ End(p, "fs_error")
       \/ ~exists /\ Proceed(p, "create") /\ UNCHANGED open
    /\ UNCHANGED <<exists, files, raced>>

(* Mutant: create_dir_all, content with a directory that exists. *)
CreateDir_All(p) ==
    /\ pc[p] = "create"
    /\ Proceed(p, "fetch")
    /\ exists' = TRUE
    /\ raced' = (\E q \in Procs \ {p} : Running(q) /\ ~alone[q])
    /\ UNCHANGED <<files, open>>

(* create_dir: an error when the directory exists, or its parent does not. *)
CreateDir(p) ==
    /\ pc[p] = "create"
    /\ IF exists \/ ~Fixtures
       THEN End(p, "fs_error") /\ UNCHANGED <<exists, raced>>
       ELSE /\ Proceed(p, "fetch")
            /\ exists' = TRUE
            /\ raced' = (\E q \in Procs \ {p} : Running(q) /\ ~alone[q])
            /\ UNCHANGED open
    /\ UNCHANGED files

(* Mutant: programs are saved too. *)
FetchAll_Programs(p) ==
    /\ pc[p] = "fetch"
    /\ \/ /\ Goto(p, "write")
          /\ answer' = [answer EXCEPT ![p] = slot]
          /\ todo' = [todo EXCEPT ![p] = {a \in Addresses : Kind[a] # "missing"}]
          /\ UNCHANGED <<slot, force, open, outcome, alone>>
       \/ End(p, "panicked")
    /\ UNCHANGED <<exists, files, raced>>

(* get_multiple_accounts(..).unwrap(): one answer from one slot, or a      *)
(* panic with the new directory left empty.                                *)
FetchAll(p) ==
    /\ pc[p] = "fetch"
    /\ \/ /\ Goto(p, "write")
          /\ answer' = [answer EXCEPT ![p] = slot]
          /\ todo' = [todo EXCEPT ![p] = Saved]
          /\ UNCHANGED <<slot, force, open, outcome, alone>>
       \/ End(p, "panicked")
    /\ UNCHANGED <<exists, files, raced>>

(* File::create leaves an empty file until write_all; accounts come in the *)
(* order of a hash set, and missing and executable ones are passed over.   *)
CreateFile(p) ==
    /\ pc[p] = "write"
    /\ open[p] = {}
    /\ \E a \in todo[p] :
          IF exists
          THEN /\ files' = [files EXCEPT ![a] = EmptyFile]
               /\ open' = [open EXCEPT ![p] = {a}]
               /\ todo' = [todo EXCEPT ![p] = @ \ {a}]
               /\ UNCHANGED <<slot, pc, force, answer, outcome, alone>>
          ELSE End(p, "panicked") /\ UNCHANGED files
    /\ UNCHANGED <<exists, raced>>

(* Mutant: every account is fetched when its file is written. *)
WriteFile_Refetched(p) ==
    /\ pc[p] = "write"
    /\ \E a \in open[p] : files' = [files EXCEPT ![a] = WholeFile(slot)]
    /\ open' = [open EXCEPT ![p] = {}]
    /\ UNCHANGED <<slot, exists, pc, force, answer, todo, outcome, alone, raced>>

(* Over what another invocation wrote to the same file, the text may leave *)
(* the end of the other's.                                                 *)
WriteFile(p) ==
    /\ pc[p] = "write"
    /\ \E a \in open[p] :
          \/ files' = [files EXCEPT ![a] = WholeFile(answer[p])]
          \/ files[a] # EmptyFile /\ files' = [files EXCEPT ![a] = TornFile]
    /\ open' = [open EXCEPT ![p] = {}]
    /\ UNCHANGED <<slot, exists, pc, force, answer, todo, outcome, alone, raced>>

Finish(p) ==
    /\ pc[p] = "write"
    /\ todo[p] = {}
    /\ open[p] = {}
    /\ End(p, "ok")
    /\ UNCHANGED <<exists, files, raced>>

(* The process is killed; what it has written stays. *)
Die(p) ==
    /\ Running(p)
    /\ End(p, "died")
    /\ UNCHANGED <<exists, files, raced>>

(* The steps the program takes by itself. *)
Step(p) ==
    \/ Prepare(p)
    \/ RemoveNothing(p)
    \/ RemoveFile(p)
    \/ RemoveDir(p)
    \/ RemoveDisturbed(p)
    \/ CreateDir(p)
    \/ FetchAll(p)
    \/ CreateFile(p)
    \/ WriteFile(p)
    \/ Finish(p)

Next ==
    \/ ChainMoves
    \/ \E p \in Procs :
          \/ \E forced \in BOOLEAN : Start(p, forced)
          \/ Step(p)
          \/ Die(p)

Spec == Init /\ [][Next]_vars

(* A running process is scheduled until it ends; a request is answered or  *)
(* times out.  Nothing obliges anyone to start an invocation.              *)
FairSpec == Spec /\ \A p \in Procs : WF_vars(Step(p))

--------------------------------------------------------------------------------
(* Properties.                                                             *)

(* The directory holds exactly the accounts of slot s. *)
Complete(s) ==
    /\ exists
    /\ files = [a \in Addresses |-> IF a \in Saved THEN WholeFile(s) ELSE NoFile]

(* A forced invocation is running. *)
Forced == \E p \in Procs : Running(p) /\ force[p]

(* The directory as SnapshotFolder has it. *)
FolderState ==
    CASE raced -> "unsure"
      [] ~raced /\ ~exists -> "absent"
      [] OTHER ->
           IF \E s \in 0 .. MaxSlot : Complete(s) THEN "picture"
           ELSE IF \E p \in Procs : pc[p] = "fetch" THEN "begun"
           ELSE IF \E p \in Procs : pc[p] = "write" THEN "taken"
           ELSE "broken"

FolderOf ==
    CASE FolderState = "picture" -> CHOOSE s \in 0 .. MaxSlot : Complete(s)
      [] FolderState = "taken" -> CHOOSE s \in 0 .. MaxSlot :
                                      \E p \in Procs : pc[p] = "write" /\ answer[p] = s
      [] OTHER -> 0

Folder == INSTANCE SnapshotFolder WITH
    now <- slot, state <- FolderState, of <- FolderOf, forcing <- Forced

(* Whatever invocations run, fail, die or are repeated, the directory is a *)
(* folder that is made once, filled from one look at the chain that comes  *)
(* after, and undone only while a forced invocation runs.                  *)
RefinesSnapshotFolder == Folder!Spec

(* A fixture is a picture of one moment: whatever invocations failed, died *)
(* or were repeated, the accounts in the directory stem from one slot,     *)
(* unless a forced invocation ran beside another while they were written.  *)
SingleSlot ==
    ~raced => /\ \A a \in Addresses : files[a].state # "torn"
              /\ \A a, b \in Addresses :
                    files[a].state = "whole" /\ files[b].state = "whole" =>
                        files[a].slot = files[b].slot

(* An invocation that returns Ok leaves the whole snapshot of the slot it  *)
(* fetched and nothing of an earlier one, under the same condition.        *)
OkMeansComplete ==
    [][\A p \in Procs :
          ~raced /\ Running(p) /\ outcome'[p] = "ok" =>
              \E s \in 0 .. MaxSlot : s = answer[p] /\ Complete(s)']_vars

(* A file that was written is lost to a forced invocation that removes the *)
(* directory, never to one without --force that fails, is killed or is     *)
(* repeated.  The one exception is a writer too many after a forced run    *)
(* overlapped others: with the directory removed and made anew under it,   *)
(* it writes a file it has not written yet over that of another.           *)
LostToForce(a) == \E p \in Procs : force[p] /\ pc[p] = "remove" /\ files'[a] = NoFile

LostToLateWriter(a) ==
    raced /\ \E p \in Procs : pc[p] = "write" /\ a \in todo[p] \cup open[p]

OnlyForceDestroys ==
    [][\A a \in Addresses :
          files[a].state = "whole" /\ files'[a] # files[a] =>
              LostToForce(a) \/ LostToLateWriter(a)]_vars

(* --force over whatever failed, interrupted or even concurrent runs left  *)
(* behind: run alone, it meets no error of the file system except that of  *)
(* having nothing to remove.                                               *)
ForceUnblocks ==
    [][\A p \in Procs :
          Running(p) /\ force[p] /\ alone[p] /\ outcome'[p] = "fs_error" =>
              pc[p] = "remove" /\ ~exists]_vars

(* Once a forced invocation starts to remove a directory, it goes on until *)
(* the new snapshot is there, unless its request fails or it is killed.    *)
ForcedRunReplaces ==
    \A p \in Procs :
        pc[p] = "remove" /\ exists ~>
            /\ pc[p] = "idle"
            /\ outcome[p] = "ok" => \E s \in 0 .. MaxSlot : Complete(s)
            /\ outcome[p] \in {"ok", "panicked", "died"}

(* The help text of --force, "Overwrite the output snapshot if it exists"  *)
(* (main.rs:19): when there is none to overwrite, it is an ordinary run.   *)
ForceIsOptional == \A p \in Procs : force[p] /\ alone[p] => outcome[p] # "fs_error"

(* tests/fixtures/README.md:19 of `snapshot-amm`: "You should see a new    *)
(* [...] folder being created in /tests/fixtures/accounts".  Where one     *)
(* invocation runs at a time, an ordinary one is stopped by the file       *)
(* system only if the folder is there already.                             *)
FolderIsCreated == \A p \in Procs : ~force[p] /\ outcome[p] = "fs_error" => exists

================================================================================
