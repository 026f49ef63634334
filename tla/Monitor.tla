------------------------------ MODULE Monitor -------------------------------
(***************************************************************************)
(* MonitorPositionWithBot: the loop that watches one open position, with   *)
(* the adaptive exit rules, the confirmation of loss exits, stale and      *)
(* failed quotes, and the channel on which the stream goroutine publishes  *)
(* the events of the mint.  Profits are in whole percent.  Every timer     *)
(* stops at a bound beyond which the code treats all values alike.         *)
(*                                                                         *)
(* What follows the decision to sell (the exit key, SafeSellWithValidation *)
(* and the record of the trade) is in Sniper.tla and Executor.tla.         *)
(***************************************************************************)
EXTENDS Integers, Sequences

CONSTANTS GraceSeconds, MinHold, MaxHold, PanicLoss, StopLoss, TakeProfit,
          MomentumDrop, GraceSL, GraceTP, GraceTrailDrop,  \* the bot profile
          ConfirmSL,   \* CONFIRM_SL_MS, 0 for no confirmation
          Profits,     \* profits a fresh quote can show
          TotalLoss,   \* the profit computed from a quote that failed (q = 0)
          Stale,       \* no usable quote
          ChanCap,     \* 16, the buffer of SubscribeMint
          MaxTime      \* bound of the clock, beyond every threshold

ASSUME MonitorAssumption ==
  /\ {GraceSeconds, MinHold, MaxHold, ConfirmSL, GraceSL, GraceTrailDrop} \subseteq Nat
  /\ {PanicLoss, StopLoss, TakeProfit, MomentumDrop, GraceTP} \subseteq Nat \ {0}
  /\ Profits \subseteq Int /\ TotalLoss \in Int /\ Stale \notin Int
  /\ ChanCap \in Nat \ {0}
  /\ MaxTime \in Nat /\ MaxTime >= MaxHold /\ MaxTime >= GraceSeconds

Off  == -1           \* of a timer that does not run
None == "none"       \* the empty string, where the code has a reason
Deadline == IF GraceSeconds > MaxHold THEN GraceSeconds ELSE MaxHold
Confirmable == {"stop_loss", "grace_sl", "momentum"}
Events == {"remove", "whale", "other"}

VARIABLES pc,         \* "top", "quote", "sleep", "exit"
          elapsed,    \* seconds since the start, read at the top of the loop
          now,        \* seconds since the start
          peak, trailing,            \* exit.PositionState
          slReason, slAge,           \* slConfirmReason, time since slConfirmSince
          chan,                      \* evCh
          quote,                     \* the last quote: a profit, or Stale
          reason,                    \* the exit reason, None while watching
          late,       \* history: time since the first decision after Deadline
          sinceGood,  \* history: time since a decision held without alarm
          alarms      \* history: decisions to sell since then, at most 2

vars == <<pc, elapsed, now, peak, trailing, slReason, slAge, chan, quote,
          reason, late, sinceGood, alarms>>
timers == <<now, slAge, late, sinceGood>>

Least(a, b) == IF a < b THEN a ELSE b
Elapse(t, d, bound) == IF t = Off THEN Off ELSE Least(t + d, bound)

TypeOK ==
  /\ pc \in {"top", "quote", "sleep", "exit"}
  /\ elapsed \in 0..MaxTime /\ now \in 0..MaxTime
  /\ peak \in Int /\ trailing \in BOOLEAN
  /\ slReason \in Confirmable \cup {None} /\ slAge \in Off..ConfirmSL
  /\ slReason = None <=> slAge = Off
  /\ chan \in Seq(Events) /\ Len(chan) <= ChanCap
  /\ quote \in Profits \cup {TotalLoss, Stale}
  /\ pc = "exit" <=> reason # None
  /\ late \in Off..ConfirmSL /\ sinceGood \in 0..ConfirmSL /\ alarms \in 0..2

Init ==
  /\ pc = "top" /\ elapsed = 0 /\ now = 0
  /\ peak = 0 /\ trailing = FALSE
  /\ slReason = None /\ slAge = Off
  /\ chan = <<>> /\ quote = Stale /\ reason = None
  /\ late = Off /\ sinceGood = 0 /\ alarms = 0

-----------------------------------------------------------------------------
(* AdaptiveExitReason: trailing once the grace profit is reached inside the *)
(* grace window, and the first rule that applies.                           *)
Trails(pnl, t, trail) ==
  /\ pnl > -PanicLoss
  /\ trail \/ (t < GraceSeconds /\ GraceTrailDrop > 0 /\ pnl >= GraceTP)

AdaptiveExitReason(pnl, t, top, trail) ==
  IF pnl <= -PanicLoss THEN "panic"
  ELSE IF Trails(pnl, t, trail)
    THEN IF top - pnl >= GraceTrailDrop THEN "grace_tp" ELSE "hold"
  ELSE IF t < GraceSeconds
    THEN IF pnl >= GraceTP THEN "grace_tp"
         ELSE IF GraceSL > 0 /\ pnl <= -GraceSL THEN "grace_sl" ELSE "hold"
  ELSE IF pnl <= -StopLoss THEN "stop_loss"
  ELSE IF pnl >= TakeProfit /\ t >= MinHold THEN "take_profit"
  ELSE IF top - pnl >= MomentumDrop THEN "momentum"
  ELSE IF t >= MaxHold THEN "max_hold"
  ELSE "hold"

NeedsConfirmation(r) == r \in Confirmable

(* d seconds pass. *)
Advance(d) ==
  /\ now' = Least(now + d, MaxTime)
  /\ slAge' = Elapse(slAge, d, ConfirmSL)
  /\ late' = Elapse(late, d, ConfirmSL)
  /\ sinceGood' = Least(sinceGood + d, ConfirmSL)

-----------------------------------------------------------------------------
(* The stream goroutine: a full buffer drops the event.                     *)
PublishStreamEvent(e) ==
  /\ pc # "exit"
  /\ chan' = IF Len(chan) < ChanCap THEN Append(chan, e) ELSE chan
  /\ UNCHANGED <<pc, elapsed, peak, trailing, slReason, quote, reason, alarms, timers>>

(* Faulty variant: the transaction type of a removal is not recognised. *)
LoopTopMissesRemove ==
  /\ pc = "top"
  /\ elapsed' = now
  /\ IF chan # <<>> /\ Head(chan) = "whale"
       THEN pc' = "exit" /\ reason' = "whale_dump"
       ELSE pc' = "quote" /\ UNCHANGED reason
  /\ chan' = IF chan = <<>> THEN chan ELSE Tail(chan)
  /\ UNCHANGED <<peak, trailing, slReason, quote, alarms, timers>>

(* The top of the loop takes at most one event.                             *)
LoopTop ==
  /\ pc = "top"
  /\ elapsed' = now
  /\ IF chan # <<>> /\ Head(chan) \in {"remove", "whale"}
       THEN /\ pc' = "exit"
            /\ reason' = IF Head(chan) = "remove" THEN "rug_remove" ELSE "whale_dump"
       ELSE pc' = "quote" /\ UNCHANGED reason
  /\ chan' = IF chan = <<>> THEN chan ELSE Tail(chan)
  /\ UNCHANGED <<peak, trailing, slReason, quote, alarms, timers>>

(* A quote that is too old is passed over, with all its consequences.       *)
StaleQuote ==
  /\ pc = "quote"
  /\ \E d \in 0..1 : Advance(d)
  /\ quote' = Stale
  /\ pc' = "sleep"
  /\ UNCHANGED <<elapsed, peak, trailing, slReason, chan, reason, alarms>>

(* Faulty variant: a recovered price does not cancel the confirmation. *)
HoldKeepsConfirm ==
  /\ pc' = "sleep" /\ UNCHANGED <<slReason, slAge, reason>>

(* What the decision does with the rule r that applied: hold, begin or wait *)
(* for the confirmation, or sell, for the reason that began it.             *)
Hold ==
  /\ pc' = "sleep" /\ slReason' = None /\ slAge' = Off
  /\ UNCHANGED reason

BeginConfirm(r) ==
  /\ pc' = "sleep" /\ slReason' = r /\ slAge' = 0
  /\ UNCHANGED reason

(* Faulty variant: every tick of a confirmation starts it anew. *)
AwaitConfirmRestarts(age) ==
  /\ pc' = "sleep" /\ slAge' = 0
  /\ UNCHANGED <<slReason, reason>>

AwaitConfirm(age) ==
  /\ pc' = "sleep" /\ slAge' = age
  /\ UNCHANGED <<slReason, reason>>

Sell(r, age) ==
  /\ pc' = "exit" /\ reason' = r /\ slAge' = age
  /\ UNCHANGED slReason

(* Faulty variant: a loss rule other than the one being confirmed starts over. *)
DecideRestarts(r, age) ==
  IF r = "hold" THEN Hold
  ELSE IF ConfirmSL > 0 /\ NeedsConfirmation(r)
    THEN IF slReason # r THEN BeginConfirm(r)
         ELSE IF age < ConfirmSL THEN AwaitConfirm(age) ELSE Sell(slReason, age)
  ELSE pc' = "exit" /\ reason' = r /\ slReason' = None /\ slAge' = Off

Decide(r, age) ==
  IF r = "hold" THEN Hold
  ELSE IF ConfirmSL > 0 /\ NeedsConfirmation(r)
    THEN IF slReason = None THEN BeginConfirm(r)
         ELSE IF age < ConfirmSL THEN AwaitConfirm(age) ELSE Sell(slReason, age)
  ELSE pc' = "exit" /\ reason' = r /\ slReason' = None /\ slAge' = Off

(* A usable quote; a race lost by both providers counts as a total loss.    *)
FreshQuote ==
  /\ pc = "quote"
  /\ \E d \in 0..1, pnl \in Profits \cup {TotalLoss} :
       LET top == IF pnl > peak THEN pnl ELSE peak
           r   == AdaptiveExitReason(pnl, elapsed, top, trailing)
       IN  /\ quote' = pnl /\ peak' = top
           /\ trailing' = (trailing \/ Trails(pnl, elapsed, trailing))
           /\ Decide(r, Elapse(slAge, d, ConfirmSL))
           /\ now' = Least(now + d, MaxTime)
           /\ late' = IF late = Off /\ elapsed >= Deadline THEN 0
                      ELSE Elapse(late, d, ConfirmSL)
           /\ sinceGood' = IF r = "hold" THEN 0 ELSE Least(sinceGood + d, ConfirmSL)
           /\ alarms' = IF r = "hold" THEN 0 ELSE Least(alarms + 1, 2)
  /\ UNCHANGED <<elapsed, chan>>

Sleep ==
  /\ pc = "sleep"
  /\ pc' = "top"
  /\ Advance(1)
  /\ UNCHANGED <<elapsed, peak, trailing, slReason, chan, quote, reason, alarms>>

Loop == LoopTop \/ StaleQuote \/ FreshQuote \/ Sleep
Next == Loop \/ \E e \in Events : PublishStreamEvent(e)
Spec == Init /\ [][Next]_vars

(* The goroutine runs and every quote race ends, by its time-out at last.   *)
FairSpec == Spec /\ WF_vars(Loop)

-----------------------------------------------------------------------------
(* A decision on a fresh quote, outside grace trailing, keeps the position  *)
(* open after MaxHold (and the grace window, if that is longer) for less    *)
(* than the confirmation time, however the rules that applied alternated.   *)
HoldBounded ==
  [][pc = "quote" /\ pc' = "sleep" /\ quote' # Stale /\ ~trailing' /\ elapsed >= Deadline
       => late' < ConfirmSL]_vars

(* Anti-wick: a position is sold at a stop loss, a grace loss or a lost     *)
(* momentum only when two decisions at least saw a loss and none in the     *)
(* whole confirmation time saw the price recovered.                         *)
WickProof ==
  reason \in Confirmable /\ ConfirmSL > 0 => sinceGood >= ConfirmSL /\ alarms = 2

(* A position stays open for ever only if every quote from some time on is  *)
(* stale, or if it is trailing a profit.                                    *)
Exits == <>(pc = "exit") \/ <>[](quote = Stale) \/ <>[]trailing

(* A remove event that found room in the buffer ends the watch, whatever    *)
(* the quotes do and however many events keep coming.                       *)
RugSells == (\E i \in DOMAIN chan : chan[i] = "remove") ~> (pc = "exit")

-----------------------------------------------------------------------------
(* env contract section 3, MAX_HOLD is the absolute limit of a hold, give   *)
(* or take the confirmation of a loss.                                      *)
MaxHoldIsAbsolute ==
  [][pc = "quote" /\ pc' = "sleep" /\ quote' # Stale /\ elapsed >= MaxHold
       => late' < ConfirmSL]_vars

(* monitor.go:75, any remove event triggers an immediate exit: an iteration *)
(* that finds one in the channel does not go on to the next quote.          *)
RugExitsAtOnce ==
  [][pc = "top" /\ (\E i \in DOMAIN chan : chan[i] = "remove")
       => pc' # "quote"]_vars
=============================================================================
