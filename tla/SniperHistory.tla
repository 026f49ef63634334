--------------------------- MODULE SniperHistory ---------------------------
(***************************************************************************)
(* A history variable over the pipeline: the handlers that were dispatched *)
(* when their mint, or the whole day, was already ruled out.               *)
(***************************************************************************)
EXTENDS Sniper

VARIABLE refused

hvars == <<vars, refused>>

RuledOut(m) == ~CanTrade \/ m \in cooldownKey

(* Why a refusal is over: the handler has returned, the operator has opened *)
(* the day again or a new day has begun, or the handler could not read the  *)
(* blacklist.                                                               *)
Excused(p) ==
  \/ pc'[p] = "idle"
  \/ CooldownUnread(p)
  \/ (ResetDailyStats \/ Midnight) /\ p[2] \notin cooldownKey

HInit == Init /\ refused = {}

HNext ==
  /\ Next
  /\ refused' = {p \in Handlers :
       ~Excused(p) /\ IF pc[p] = "idle" THEN RuledOut(p[2]) ELSE p \in refused}

HSpec == HInit /\ [][HNext]_hvars

(* What is left of the promises of the kill switch, the quota and the       *)
(* cooldown: a handler that is dispatched after one of them has come into   *)
(* force never gets as far as the event key, let alone a BUY, however its   *)
(* steps interleave with those of the others, unless the operator opens the *)
(* day again, the UTC day ends between the dispatch and CanTrade, or Redis  *)
(* does not answer the question about the blacklist.                        *)
LateDispatchNeverBuys == \A p \in refused : pc[p] \in {"guard", "cooldown"}
=============================================================================
