---------------------------- MODULE MCSnapshotReplay ----------------------------
(***************************************************************************)
(* One invocation at a time beside one test of two pairs.  The pool, one   *)
(* vault and the clock have data; a program is passed over.                *)
(***************************************************************************)
EXTENDS SnapshotReplay, TLC

CONSTANTS pool, vault, clock, program, p1, p2

MCAddresses == {pool, vault, clock, program}
MCVaults == {vault}

MCKind ==
    (pool :> "data") @@ (vault :> "data") @@ (clock :> "data")
        @@ (program :> "executable")

OneProc == {p1}
TwoProcs == {p1, p2}

================================================================================
