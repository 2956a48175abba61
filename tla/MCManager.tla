----------------------------- MODULE MCManager -----------------------------
(* Manager for TLC: the symmetry of its sets of model values.              *)
EXTENDS Manager, TLC
Symmetry == Permutations(Callers) \cup Permutations(Sources) \cup Permutations(Handles)
            \cup Permutations(Packets)
=============================================================================
