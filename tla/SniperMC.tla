------------------------------ MODULE SniperMC ------------------------------
EXTENDS SniperHistory, TLC

(* The workers are interchangeable; no run with symmetry checks liveness.   *)
WorkerSymmetry == Permutations(Workers)
=============================================================================
