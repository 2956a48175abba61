------------------------------ MODULE MCTray ------------------------------
(* Tray for TLC.                                                           *)
EXTENDS Tray, TLC
Symmetry == Permutations(Sweeps)
=============================================================================
