------------------------------ MODULE MCKnowledge ------------------------------
(* Small instances of Knowledge. *)
EXTENDS Knowledge

CONSTANTS text, twice, scan, everyone, workspace, h1, h2

Symmetry == Permutations({h1, h2})
=============================================================================
