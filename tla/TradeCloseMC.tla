---------------------------- MODULE TradeCloseMC ----------------------------
(* Sellers are interchangeable. *)
EXTENDS TradeClose, TLC

Symmetry == Permutations(Writers)

(* Bound: the sellers record, with every fault, reset and midnight; where   *)
(* none of these has overtaken them, they then report beside a reset.  The  *)
(* record and the report of a seller share only the length of the list.     *)
Focus ==
  \/ now = 1 /\ \A s \in Sellers : call[s] = "none"
  \/ /\ \A w \in Writers : pc[w] = "done"
     /\ faults = 0 /\ straddled = {} /\ overnight = {} /\ older = 0
=============================================================================
