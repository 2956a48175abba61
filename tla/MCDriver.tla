------------------------------ MODULE MCDriver ------------------------------
(* Driver for TLC: two instances of one version and one of another.        *)
EXTENDS Driver, TLC

CONSTANTS old1, old2, new

Builds == [p \in Procs |-> IF p = new THEN "v2" ELSE "v1"]
Symmetry == Permutations({old1, old2})
=============================================================================
