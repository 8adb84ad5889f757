----------------------------- MODULE MCRunLeases -----------------------------
(* Small instances of RunLeases for TLC.                                    *)
EXTENDS RunLeases, TLC

(* Runs and replicas differ in name only.                                   *)
Symmetry == Permutations(Runs) \cup Permutations(Replicas)
=============================================================================
