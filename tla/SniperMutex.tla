---------------------------- MODULE SniperMutex ----------------------------
(***************************************************************************)
(* What the pipeline is to those who use it: the sell guard is a mutex,    *)
(* and the BUY of a handler is an order.                                   *)
(***************************************************************************)
EXTENDS Sniper

exitOwner == [m \in Mints |->
  IF Sellers(m) = {} \/ m \in exitStolen THEN None
  ELSE CHOOSE p \in Sellers(m) : TRUE]

Exit == INSTANCE MintMutex WITH Owners <- Procs, NoOwner <- None, owner <- exitOwner

(* The use of sellguard by the monitor and by recovery: one sale of a mint  *)
(* is over, and recorded, before the next one starts, until a repeated DEL  *)
(* takes the key of a seller.                                               *)
SalesAreExclusive == Exit!Spec

buyStage == [p \in Handlers |-> CASE pc[p] = "buy"     -> "asking"
                                  [] pc[p] = "confirm" -> "waiting"
                                  [] pc[p] = "count"   -> "true"
                                  [] OTHER             -> "off"]

Buy == INSTANCE Order WITH Calls <- Handlers, stage <- buyStage

(* The BUYs of all handlers, with their crashes, panics and time-outs, are  *)
(* orders, as are the calls of Executor: what the pipeline assumes of       *)
(* BuyAndValidate is what the executor gives.                               *)
BuysAreOrders == Buy!Spec
=============================================================================
