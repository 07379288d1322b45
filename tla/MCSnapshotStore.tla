----------------------------- MODULE MCSnapshotStore -----------------------------
(***************************************************************************)
(* The addresses of one pool for TLC: the pool, one vault and the clock    *)
(* have data, the program is executable and the authority does not exist.  *)
(***************************************************************************)
EXTENDS SnapshotStore, TLC

CONSTANTS pool, vault, clock, program, authority, p1, p2

MCAddresses == {pool, vault, clock, program, authority}

MCKind ==
    (pool :> "data") @@ (vault :> "data") @@ (clock :> "data")
        @@ (program :> "executable") @@ (authority :> "missing")

OneProc == {p1}
TwoProcs == {p1, p2}

Symmetry == Permutations(TwoProcs)
================================================================================
