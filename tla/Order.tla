------------------------------- MODULE Order -------------------------------
(***************************************************************************)
(* What BuyAndValidate and SafeSellWithValidation promise about each call. *)
(* A call asks the providers until one returns a signature, and then only  *)
(* waits for that transaction: it never asks again.  It returns true only  *)
(* if the chain has processed the transaction.  Transactions nobody waits  *)
(* for come from lost answers while it asks, and from giving up on its own *)
(* while it is undecided; never afterwards.  Several calls may take a step *)
(* at once: the process that made them died.                               *)
(***************************************************************************)
CONSTANT Calls
VARIABLES stage,   \* of each call: "off", "asking", "waiting", "true"
          tx,      \* the transaction it waits for
          stray    \* calls with a transaction on its way that nobody waits for

Init == /\ stage = [c \in Calls |-> "off"]
        /\ tx = [c \in Calls |-> "none"]
        /\ stray = {}

Strays(c) == c \in stray' => c \in stray

(* No call, or it begins. *)
Off(c) == /\ stage[c] = "off" /\ stage'[c] \in {"off", "asking"}
          /\ tx'[c] = "none" /\ Strays(c)

(* It gets a signature, or none, or asks on; answers are lost. *)
Asking(c) == /\ stage[c] = "asking"
             /\ \/ stage'[c] = "waiting" /\ tx'[c] = "pending"
                \/ stage'[c] \in {"asking", "off"} /\ tx'[c] = "none"

(* The chain decides. *)
Waiting(c) == /\ stage[c] = "waiting" /\ stage'[c] = "waiting"
              /\ \/ tx'[c] = tx[c]
                 \/ tx[c] = "pending" /\ tx'[c] \in {"landed", "failed", "dropped"}
              /\ Strays(c)

Confirmed(c) == /\ stage[c] = "waiting" /\ stage'[c] = "true"
                /\ tx[c] \in {"landed", "failed"} /\ tx'[c] = "none"
                /\ Strays(c)

(* It returns false, or its process dies. *)
GivesUp(c) == /\ stage[c] = "waiting" /\ stage'[c] = "off" /\ tx'[c] = "none"
              /\ Strays(c) \/ tx[c] = "pending"

Returned(c) == /\ stage[c] = "true" /\ stage'[c] \in {"true", "off"}
               /\ tx'[c] = "none" /\ Strays(c)

Step(c) == Off(c) \/ Asking(c) \/ Waiting(c) \/ Confirmed(c) \/ GivesUp(c) \/ Returned(c)

Next == /\ \A c \in Calls : Step(c)
        /\ stage' = [c \in Calls |-> stage'[c]]
        /\ tx' = [c \in Calls |-> tx'[c]]
        /\ stray' \subseteq Calls

Spec == Init /\ [][Next]_<<stage, tx, stray>>
=============================================================================
