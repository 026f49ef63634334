------------------------------- MODULE Guard --------------------------------
(***************************************************************************)
(* The gate of new BUYs: concurrent calls of CanTrade read the counters of *)
(* the present UTC day, each with a Redis command that may fail, and the   *)
(* local hour, while trades are recorded, hours and days pass and an       *)
(* operator resets the day.  The first refusal by the kill switch claims   *)
(* the alert of its day and sends it.                                      *)
(***************************************************************************)
EXTENDS ActiveHours, FiniteSets

CONSTANTS Callers,     \* goroutines that call CanTrade, of all workers
          Days,        \* bound: the UTC days 1..Days
          DayStart,    \* the local hour in which a UTC day begins (TZ)
          MaxLoss,     \* MAX_DAILY_LOSS, in losing trades
          MaxTrades,   \* MAX_DAILY_TRADES
          MaxResets    \* bound: uses of cmd/reset-pnl

ASSUME GuardAssumption ==
  /\ {Days, MaxLoss, MaxTrades} \subseteq Nat \ {0} /\ MaxResets \in Nat
  /\ DayStart \in Hours

VARIABLES day,
          loss, trades,   \* stats:daily_loss:<day> and stats:daily_trades:<day>; those
                          \* of an earlier day are never read again
          alertKey,    \* days whose guard:kill_switch_alert key is set
          pc, result,
          claimed,     \* the day a caller has claimed the alert of
          alerts,      \* history: alerts posted for each day
          cause,       \* history: days whose loss reached the limit, or could
                       \* not be read
          seen,        \* history: what was in order at some time of the call
          resets

stats == <<loss, trades, cause>>
calls == <<pc, result, claimed>>
clock == <<day, window, hour>>
vars  == <<clock, stats, alertKey, calls, alerts, seen, resets>>

Gates  == {"loss", "trades", "hours"}
Stages == {"idle", "loss", "reread", "claim", "send", "balance", "trades", "hours"}

TypeOK ==
  /\ day \in 1..Days
  /\ loss \in 0..MaxLoss /\ trades \in 0..MaxTrades
  /\ alertKey \subseteq 1..Days
  /\ pc \in [Callers -> Stages] /\ result \in [Callers -> BOOLEAN]
  /\ claimed \in [Callers -> 0..Days]
  /\ alerts \in [1..Days -> Nat] /\ cause \subseteq 1..Days
  /\ seen \in [Callers -> SUBSET Gates]
  /\ resets \in 0..MaxResets

Init ==
  /\ HoursInit /\ day = 1
  /\ loss = 0 /\ trades = 0
  /\ alertKey = {}
  /\ pc = [c \in Callers |-> "idle"] /\ result = [c \in Callers |-> FALSE]
  /\ claimed = [c \in Callers |-> 0]
  /\ alerts = [d \in 1..Days |-> 0] /\ cause = {}
  /\ seen = [c \in Callers |-> {}]
  /\ resets = 0

Goto(c, stage) == pc' = [pc EXCEPT ![c] = stage] /\ UNCHANGED <<result, claimed>>
Return(c, r) == /\ pc' = [pc EXCEPT ![c] = "idle"]
                /\ result' = [result EXCEPT ![c] = r]
                /\ claimed' = [claimed EXCEPT ![c] = 0]

-----------------------------------------------------------------------------
(* ENABLE_TRADING is on; the balance was read by the caller.                *)
BeginCall(c) ==
  /\ pc[c] = "idle"
  /\ pc' = [pc EXCEPT ![c] = "loss"]
  /\ result' = [result EXCEPT ![c] = FALSE]
  /\ UNCHANGED <<clock, stats, alertKey, claimed, alerts, resets>>

(* Faulty variant: a Redis error lets the BUY through. *)
RedisErrorOpens(c) ==
  /\ pc[c] \in {"reread", "claim", "trades"}
  /\ Return(c, TRUE)
  /\ UNCHANGED <<clock, stats, alertKey, alerts, resets>>

(* DailyLossSOL fails: taken for a kill switch that has triggered, alert    *)
(* included.                                                                *)
LossUnknown(c) ==
  /\ pc[c] = "loss"
  /\ Goto(c, "reread")
  /\ cause' = cause \cup {day}
  /\ UNCHANGED <<clock, loss, trades, alertKey, alerts, resets>>

(* Any later Redis command fails: the call returns false.  A claim may have *)
(* taken effect, and is lost, when only its answer did not arrive.          *)
RedisError(c) ==
  /\ pc[c] \in {"reread", "claim", "trades"}
  /\ Return(c, FALSE)
  /\ \/ UNCHANGED alertKey
     \/ pc[c] = "claim" /\ alertKey' = alertKey \cup {day}
  /\ UNCHANGED <<clock, stats, alerts, resets>>

IsKillSwitchTriggered(c) ==
  /\ pc[c] = "loss"
  /\ Goto(c, IF loss >= MaxLoss THEN "reread" ELSE "balance")
  /\ UNCHANGED <<clock, stats, alertKey, alerts, resets>>

(* maybeSendKillSwitchAlert reads the loss again, for the text ...          *)
RereadLoss(c) ==
  /\ pc[c] = "reread"
  /\ Goto(c, "claim")
  /\ UNCHANGED <<clock, stats, alertKey, alerts, resets>>

(* Faulty variant: a plain SET. *)
ClaimAlertUnchecked(c) ==
  /\ pc[c] = "claim"
  /\ pc' = [pc EXCEPT ![c] = "send"]
  /\ claimed' = [claimed EXCEPT ![c] = day]
  /\ alertKey' = alertKey \cup {day}
  /\ UNCHANGED <<clock, stats, result, alerts, resets>>

(* ... claims the alert of the day it is by now: SETNX ...                  *)
ClaimAlert(c) ==
  /\ pc[c] = "claim"
  /\ IF day \in alertKey
       THEN Return(c, FALSE)
       ELSE /\ pc' = [pc EXCEPT ![c] = "send"]
            /\ claimed' = [claimed EXCEPT ![c] = day]
            /\ UNCHANGED result
  /\ alertKey' = alertKey \cup {day}
  /\ UNCHANGED <<clock, stats, alerts, resets>>

(* ... and posts it to Telegram, once.                                      *)
SendPlainMessage(c) ==
  /\ pc[c] = "send"
  /\ alerts' = [alerts EXCEPT ![claimed[c]] = @ + 1]
  /\ Return(c, FALSE)
  /\ UNCHANGED <<clock, stats, alertKey, resets>>

HasEnoughBalance(c) ==
  /\ pc[c] = "balance"
  /\ Goto(c, "trades") \/ Return(c, FALSE)
  /\ UNCHANGED <<clock, stats, alertKey, alerts, resets>>

CheckQuota(c) ==
  /\ pc[c] = "trades"
  /\ IF trades >= MaxTrades THEN Return(c, FALSE) ELSE Goto(c, "hours")
  /\ UNCHANGED <<clock, stats, alertKey, alerts, resets>>

IsWithinActiveTradingHours(c) ==
  /\ pc[c] = "hours"
  /\ Return(c, Contains(startH, endH, hour))
  /\ UNCHANGED <<clock, stats, alertKey, alerts, resets>>

(* The worker of the caller dies, or its handler panics. *)
Die(c) ==
  /\ pc[c] # "idle"
  /\ Return(c, FALSE)
  /\ UNCHANGED <<clock, stats, alertKey, alerts, resets>>

-----------------------------------------------------------------------------
(* Other goroutines and the calendar. *)
UpdateDailyLoss ==
  /\ loss < MaxLoss
  /\ loss' = loss + 1
  /\ cause' = IF loss' = MaxLoss THEN cause \cup {day} ELSE cause
  /\ UNCHANGED <<clock, trades, alertKey, calls, alerts, resets>>

IncrDailyTradeCount ==
  /\ trades < MaxTrades
  /\ trades' = trades + 1
  /\ UNCHANGED <<clock, loss, cause, alertKey, calls, alerts, resets>>

ResetDailyStats ==
  /\ resets < MaxResets
  /\ resets' = resets + 1
  /\ loss' = 0 /\ trades' = 0
  /\ UNCHANGED <<clock, cause, alertKey, calls, alerts>>

(* An hour passes, with the keys of the counters at UTC midnight.  Bound:   *)
(* time stops at the end of the last day.                                   *)
Tick ==
  /\ HourPasses
  /\ IF hour' = DayStart THEN day' = day + 1 /\ loss' = 0 /\ trades' = 0
                         ELSE UNCHANGED <<day, loss, trades>>
  /\ day' <= Days
  /\ UNCHANGED <<cause, alertKey, calls, alerts, resets>>

InOrder ==
  {g \in Gates : CASE g = "loss"   -> loss < MaxLoss
                   [] g = "trades" -> trades < MaxTrades
                   [] g = "hours"  -> Contains(startH, endH, hour)}

(* What has been in order since the call began, also between its reads.     *)
Observe ==
  seen' = [c \in Callers |-> IF pc'[c] = "idle" THEN IF result'[c] THEN seen[c] ELSE {}
                             ELSE IF pc[c] = "idle" THEN InOrder'
                             ELSE seen[c] \cup InOrder']

CanTrade(c) ==
  \/ BeginCall(c) \/ LossUnknown(c) \/ RedisError(c) \/ IsKillSwitchTriggered(c) \/ RereadLoss(c)
  \/ ClaimAlert(c) \/ SendPlainMessage(c) \/ HasEnoughBalance(c) \/ CheckQuota(c)
  \/ IsWithinActiveTradingHours(c) \/ Die(c)

Next ==
  /\ \/ \E c \in Callers : CanTrade(c)
     \/ UpdateDailyLoss \/ IncrDailyTradeCount \/ ResetDailyStats \/ Tick
  /\ Observe

Spec == Init /\ [][Next]_vars

-----------------------------------------------------------------------------
(* CanTrade fails closed: when it returns true, the kill switch was off,    *)
(* the quota not used up and the hour active at some moments of this very   *)
(* call, whatever failed, was reset or rolled over meanwhile.               *)
FailClosed == \A c \in Callers : pc[c] = "idle" /\ result[c] => seen[c] = Gates

(* Who posts an alert holds the claim of its day alone, and a day has one   *)
(* alert at most, also when its loss is reset and reached again; none is    *)
(* posted unless the limit was reached, or the loss could not be read, on   *)
(* that day or before it.                                                   *)
AlertIsClaimed ==
  /\ \A c, e \in Callers : claimed[c] = claimed[e] /\ claimed[c] # 0 => c = e
  /\ \A d \in 1..Days : alerts[d] > 0 =>
       alerts[d] = 1 /\ d \in alertKey /\ \E r \in cause : r <= d

=============================================================================
