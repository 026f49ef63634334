------------------------------ MODULE GuardMC -------------------------------
EXTENDS Guard, TLC

(* The callers are interchangeable. *)
CallerSymmetry == Permutations(Callers)
=============================================================================
