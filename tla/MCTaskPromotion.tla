-------------------------- MODULE MCTaskPromotion --------------------------
(* TLC instances of TaskPromotion.                                         *)
EXTENDS TaskPromotion, TLC

Symmetry == Permutations(Runs)
=============================================================================
