----------------------------- MODULE MintMutex -----------------------------
(***************************************************************************)
(* What the mint lock and the sell guard promise: every mint has at most   *)
(* one owner, and it passes from one owner to the next only through a      *)
(* state in which it has none.  One step may take and free several mints:  *)
(* the process that owned them died.                                       *)
(***************************************************************************)
CONSTANTS Mints, Owners, NoOwner
VARIABLE owner

Init == owner = [m \in Mints |-> NoOwner]

Next ==
  /\ owner' \in [Mints -> Owners \cup {NoOwner}]
  /\ \A m \in Mints : \/ owner'[m] = owner[m]
                      \/ owner[m] = NoOwner
                      \/ owner'[m] = NoOwner

Spec == Init /\ [][Next]_owner
=============================================================================
