------------------------------ MODULE SnapshotFolder ------------------------------
(***************************************************************************)
(* What `snapshot-amm` promises of a pool's folder, without its files and  *)
(* its processes: a folder is made, the chain is looked at once, and some  *)
(* time later the folder is a picture of that moment, or it never will be. *)
(* A picture stays until a forced invocation takes it away.                *)
(***************************************************************************)
EXTENDS Integers

CONSTANT MaxSlot    \* bound on the slots of a behaviour

VARIABLES
    now,        \* the chain's slot
    state,      \* what the folder is
    of,         \* the slot it shows, or will show
    forcing     \* a forced invocation is running

vars == <<now, state, of, forcing>>

States == {"absent", "begun", "taken", "picture", "broken", "unsure"}

Init ==
    /\ now = 0
    /\ state = "absent"
    /\ of = 0
    /\ forcing = FALSE

Become(s, slot) == state' = s /\ of' = slot /\ UNCHANGED now

Move ==
    /\ now < MaxSlot
    /\ now' = now + 1
    /\ UNCHANGED <<state, of>>

(* Only where there is no folder; after a race, whoever makes the folder   *)
(* may have it to himself again.                                           *)
Make == state \in {"absent", "unsure"} /\ Become("begun", 0)

(* The one look at the chain, after the folder was made. *)
Look == state = "begun" /\ Become("taken", now)

Fill == state = "taken" /\ Become("picture", of)

Abandon == state \in {"begun", "taken"} /\ Become("broken", 0)

Undo == forcing /\ state = "picture" /\ Become("broken", 0)

Vanish == forcing /\ state = "broken" /\ Become("absent", 0)

(* A forced invocation runs beside another. *)
Spoil == forcing' /\ Become("unsure", 0)

Rest == UNCHANGED <<now, state, of>>

Next ==
    /\ forcing' \in BOOLEAN
    /\ \/ Move \/ Make \/ Look \/ Fill \/ Abandon \/ Undo \/ Vanish \/ Spoil \/ Rest

Spec == Init /\ [][Next]_vars

================================================================================
