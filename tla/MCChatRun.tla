----------------------------- MODULE MCChatRun -----------------------------
(* TLC instances of ChatRun.                                               *)
EXTENDS ChatRun, TLC

Symmetry == Permutations(Requests)
=============================================================================
