---------------------------- MODULE Guard_proof -----------------------------
(***************************************************************************)
(* Proofs about the gate of new BUYs for every number of callers, days and *)
(* limits: the trading window is an arc of the clock face that opens and   *)
(* closes once a day, CanTrade fails closed, and a day has one alert.      *)
(***************************************************************************)
EXTENDS Guard, TLAPS

USE HoursAssumption, GuardAssumption

-----------------------------------------------------------------------------
(* The settings are hours or off, and the clock shows an hour.              *)
Typed == startH \in Hours \cup {Off} /\ endH \in Hours \cup {Off} /\ hour \in Hours

(* The hours keep their types.                                              *)
LEMMA TypedAlways == HoursSpec => []Typed
<1> USE DEF Typed, Hours
<1>1. HoursInit => Typed
  BY DEF HoursInit
<1>2. Typed /\ [HourPasses]_<<window, hour>> => Typed'
  BY DEF HourPasses, window, Off
<1> QED
  BY <1>1, <1>2, PTL DEF HoursSpec

(* ActiveHourWindowContains, for a window within a day or across midnight:  *)
(* the hours met on the way from the start to the end, both included.       *)
THEOREM WindowAlwaysArc == HoursSpec => []WindowIsArc
<1>1. Typed => WindowIsArc
  BY DEF Typed, WindowIsArc, Contains, Forward, Hours, Off
<1> QED
  BY <1>1, TypedAlways, PTL

(* From one hour to the next the window opens at its start only and closes  *)
(* after its end only.                                                      *)
LEMMA ClockOpensOnce == HoursSpec => OneOpening
<1>1. Typed /\ [HourPasses]_<<window, hour>>
        => [LET open == Contains(startH, endH, hour)
                next == Contains(startH, endH, hour')
            IN  /\ ~open /\ next => hour' = startH
                /\ open /\ ~next => hour = endH]_<<window, hour>>
  BY DEF Typed, HourPasses, window, Contains, Hours, Off
<1> QED
  BY <1>1, TypedAlways, PTL DEF HoursSpec, OneOpening

(* The gate of BUYs, whoever calls it and whatever the operator does, opens *)
(* at ACTIVE_START_HOUR only and closes after ACTIVE_END_HOUR only.         *)
THEOREM OpensOnce == Spec => OneOpening
<1>1. Init => HoursInit
  BY DEF Init
<1>2. [Next]_vars => [HourPasses]_<<window, hour>>
  BY DEF Next, CanTrade, BeginCall, LossUnknown, RedisError, IsKillSwitchTriggered, RereadLoss,
     ClaimAlert, SendPlainMessage, HasEnoughBalance, CheckQuota, IsWithinActiveTradingHours, Die,
     UpdateDailyLoss, IncrDailyTradeCount, ResetDailyStats, Tick, vars, clock
<1> QED
  BY <1>1, <1>2, ClockOpensOnce, PTL DEF Spec, HoursSpec

-----------------------------------------------------------------------------
(* What a call has seen: all that has been in order since it began, and     *)
(* whatever let it get as far as it is.                                     *)
SeenInv ==
  \A c \in Callers :
    /\ pc[c] # "idle" => InOrder \subseteq seen[c]
    /\ pc[c] \in {"balance", "trades", "hours"} => "loss" \in seen[c]
    /\ pc[c] = "hours" => "trades" \in seen[c]
    /\ pc[c] = "idle" /\ result[c] => seen[c] = Gates

(* Who sends an alert holds the claim of its day, which nobody else does    *)
(* and no earlier alert did; who is about to claim has seen a cause.        *)
Caused(d) == \E r \in cause : r <= d

AlertInv ==
  /\ loss >= MaxLoss => day \in cause
  /\ \A c \in Callers : pc[c] \in {"reread", "claim"} => Caused(day)
  /\ \A c \in Callers : pc[c] = "send" <=> claimed[c] # 0
  /\ \A c \in Callers : claimed[c] # 0 => /\ claimed[c] \in alertKey /\ alerts[claimed[c]] = 0
                                          /\ Caused(claimed[c])
  /\ AlertIsClaimed

IInv == TypeOK /\ SeenInv /\ AlertInv

(* Types of the counters, the keys and the calls.                           *)
LEMMA TypeInduction == TypeOK /\ [Next]_vars => TypeOK'
<1> SUFFICES ASSUME TypeOK, [Next]_vars PROVE TypeOK'
  OBVIOUS
<1>0. Days \in Nat \ {0} /\ MaxLoss \in Nat \ {0} /\ MaxTrades \in Nat \ {0} /\ MaxResets \in Nat
  OBVIOUS
<1> USE DEF TypeOK, Goto, Return, Stages, clock, stats, calls
<1>1. CASE UNCHANGED vars
  BY <1>1 DEF vars
<1>2. CASE Next
  <2>1. seen' \in [Callers -> SUBSET Gates]
    <3>1. InOrder' \subseteq Gates
      BY DEF InOrder
    <3>2. \A c \in Callers : (IF pc'[c] = "idle" THEN IF result'[c] THEN seen[c] ELSE {}
                              ELSE IF pc[c] = "idle" THEN InOrder'
                              ELSE seen[c] \cup InOrder') \subseteq Gates
      BY <3>1
    <3> QED
      BY <1>2, <3>2 DEF Next, Observe
  <2>2. ASSUME NEW c \in Callers, NEW r \in BOOLEAN, NEW s \in Stages, Return(c, r) \/ Goto(c, s)
        PROVE  /\ pc' \in [Callers -> Stages] /\ result' \in [Callers -> BOOLEAN]
               /\ claimed' \in [Callers -> 0..Days]
    <3>1. result' \in [Callers -> BOOLEAN]
      BY <2>2
    <3>2. pc' \in [Callers -> Stages]
      BY <2>2
    <3>3. 0 \in 0..Days
      BY <1>0
    <3>4. claimed' = claimed \/ claimed' = [claimed EXCEPT ![c] = 0]
      BY <2>2
    <3>5. claimed' \in [Callers -> 0..Days]
      BY <3>3, <3>4
    <3> QED
      BY <3>1, <3>2, <3>5
  <2>3. ASSUME NEW c \in Callers, CanTrade(c)
        PROVE  /\ pc' \in [Callers -> Stages] /\ result' \in [Callers -> BOOLEAN]
               /\ claimed' \in [Callers -> 0..Days]
    <3>1. CASE BeginCall(c)
      BY <3>1 DEF BeginCall
    <3>2. CASE ClaimAlert(c)
      <4>1. CASE day \in alertKey
        BY <2>2, <3>2, <4>1 DEF ClaimAlert
      <4>2. CASE day \notin alertKey
        <5>1. day \in 0..Days
          BY <1>0
        <5>2. claimed' = [claimed EXCEPT ![c] = day]
          BY <3>2, <4>2 DEF ClaimAlert
        <5>3. claimed' \in [Callers -> 0..Days]
          BY <5>1, <5>2
        <5>4. pc' \in [Callers -> Stages] /\ result' = result
          BY <3>2, <4>2 DEF ClaimAlert
        <5> QED
          BY <5>3, <5>4
      <4> QED
        BY <4>1, <4>2
    <3>3. CASE IsWithinActiveTradingHours(c)
      <4>1. Contains(startH, endH, hour) \in BOOLEAN
        BY DEF Contains
      <4> QED
        BY <2>2, <3>3, <4>1 DEF IsWithinActiveTradingHours
    <3>4. CASE ~(BeginCall(c) \/ ClaimAlert(c) \/ IsWithinActiveTradingHours(c))
      <4>1. Return(c, FALSE) \/ \E s \in Stages : Goto(c, s)
        BY <2>3, <3>4 DEF CanTrade, LossUnknown, RedisError, IsKillSwitchTriggered, RereadLoss,
           SendPlainMessage, HasEnoughBalance, CheckQuota, Die
      <4> QED
        BY <2>2, <4>1
    <3> QED
      BY <3>1, <3>2, <3>3, <3>4
  <2>4. ASSUME NEW c \in Callers, CanTrade(c)
        PROVE  /\ day' = day /\ loss' = loss /\ trades' = trades /\ resets' = resets
               /\ alertKey' \subseteq 1..Days /\ cause' \subseteq 1..Days
               /\ alerts' \in [1..Days -> Nat]
    <3>1. CASE SendPlainMessage(c)
      <4>1. alerts' = [alerts EXCEPT ![claimed[c]] = alerts[claimed[c]] + 1]
        BY <3>1 DEF SendPlainMessage
      <4>2. claimed[c] \in 1..Days => alerts[claimed[c]] + 1 \in Nat
        OBVIOUS
      <4>3. alerts' \in [1..Days -> Nat]
        BY <4>1, <4>2
      <4> QED
        BY <3>1, <4>3 DEF SendPlainMessage
    <3>2. CASE ~SendPlainMessage(c)
      BY <2>4, <3>2 DEF CanTrade, BeginCall, ClaimAlert, IsWithinActiveTradingHours,
         LossUnknown, RedisError, IsKillSwitchTriggered, RereadLoss, HasEnoughBalance,
         CheckQuota, Die
    <3> QED
      BY <3>1, <3>2
  <2>5. CASE UpdateDailyLoss \/ IncrDailyTradeCount \/ ResetDailyStats \/ Tick
    <3>1. UNCHANGED <<pc, result, claimed, alertKey, alerts>>
      BY <2>5 DEF UpdateDailyLoss, IncrDailyTradeCount, ResetDailyStats, Tick
    <3>2. /\ day' \in 1..Days /\ loss' \in 0..MaxLoss /\ trades' \in 0..MaxTrades
          /\ cause' \subseteq 1..Days /\ resets' \in 0..MaxResets
      <4>1. CASE UpdateDailyLoss
        BY <1>0, <4>1 DEF UpdateDailyLoss
      <4>2. CASE IncrDailyTradeCount
        BY <1>0, <4>2 DEF IncrDailyTradeCount
      <4>3. CASE ResetDailyStats
        BY <1>0, <4>3 DEF ResetDailyStats
      <4>4. CASE Tick
        BY <1>0, <4>4 DEF Tick
      <4> QED
        BY <2>5, <4>1, <4>2, <4>3, <4>4
    <3> QED
      BY <2>1, <3>1, <3>2
  <2> QED
    BY <1>2, <2>1, <2>3, <2>4, <2>5 DEF Next
<1> QED
  BY <1>1, <1>2

(* A call gets on only past what it saw in order just before.               *)
LEMMA SeenInduction == TypeOK /\ SeenInv /\ [Next]_vars => SeenInv'
<1> SUFFICES ASSUME TypeOK, SeenInv, [Next]_vars PROVE SeenInv'
  OBVIOUS
<1> USE DEF clock, stats, calls
<1>1. CASE UNCHANGED vars
  <2>1. InOrder' = InOrder
    BY <1>1 DEF vars, window, InOrder
  <2> QED
    BY <1>1, <2>1 DEF vars, SeenInv
<1>2. CASE Next
  <2> SUFFICES ASSUME NEW c \in Callers
               PROVE  /\ pc'[c] # "idle" => InOrder' \subseteq seen'[c]
                      /\ pc'[c] \in {"balance", "trades", "hours"} => "loss" \in seen'[c]
                      /\ pc'[c] = "hours" => "trades" \in seen'[c]
                      /\ pc'[c] = "idle" /\ result'[c] => seen'[c] = Gates
    BY DEF SeenInv
  <2>1. seen'[c] = IF pc'[c] = "idle" THEN IF result'[c] THEN seen[c] ELSE {}
                   ELSE IF pc[c] = "idle" THEN InOrder'
                   ELSE seen[c] \cup InOrder'
    BY <1>2 DEF Next, Observe
  <2>2. /\ pc[c] # "idle" => InOrder \subseteq seen[c]
        /\ pc[c] \in {"balance", "trades", "hours"} => "loss" \in seen[c]
        /\ pc[c] = "hours" => "trades" \in seen[c]
        /\ pc[c] = "idle" /\ result[c] => seen[c] = Gates
        /\ pc \in [Callers -> Stages] /\ result \in [Callers -> BOOLEAN]
    BY DEF SeenInv, TypeOK
  <2>3. /\ "loss" \in InOrder <=> loss < MaxLoss
        /\ "trades" \in InOrder <=> trades < MaxTrades
        /\ "hours" \in InOrder <=> Contains(startH, endH, hour)
        /\ "loss" \in InOrder' <=> loss' < MaxLoss
        /\ "trades" \in InOrder' <=> trades' < MaxTrades
    BY DEF InOrder, Gates
  <2>4. CASE UNCHANGED <<pc[c], result[c]>>
    BY <2>1, <2>2, <2>4
  <2>5. CASE pc'[c] = "idle" /\ ~result'[c]
    BY <2>5
  <2>6. CASE BeginCall(c)
    BY <2>1, <2>2, <2>6 DEF BeginCall
  <2>7. CASE IsKillSwitchTriggered(c)
    <3>1. pc'[c] = IF loss >= MaxLoss THEN "reread" ELSE "balance"
      BY <2>2, <2>7 DEF IsKillSwitchTriggered, Goto
    <3>2. pc'[c] = "balance" => "loss" \in InOrder'
      BY <2>3, <2>7, <3>1 DEF IsKillSwitchTriggered, TypeOK
    <3>3. pc[c] = "loss"
      BY <2>7 DEF IsKillSwitchTriggered
    <3> QED
      BY <2>1, <3>1, <3>2, <3>3
  <2>8. CASE CheckQuota(c) /\ pc'[c] = "hours"
    <3>1. pc[c] = "trades" /\ trades < MaxTrades /\ trades' = trades
      BY <2>2, <2>8 DEF CheckQuota, Return, TypeOK
    <3>2. "trades" \in InOrder'
      BY <2>3, <3>1
    <3> QED
      BY <2>1, <2>2, <2>8, <3>1, <3>2
  <2>9. CASE IsWithinActiveTradingHours(c) /\ result'[c]
    <3>1. pc[c] = "hours" /\ pc'[c] = "idle" /\ Contains(startH, endH, hour)
      BY <2>2, <2>9 DEF IsWithinActiveTradingHours, Return
    <3>2. seen[c] = Gates
      BY <2>2, <2>3, <3>1 DEF TypeOK, Gates
    <3> QED
      BY <2>1, <2>9, <3>1, <3>2
  <2>10. CASE LossUnknown(c) \/ RereadLoss(c) \/ ClaimAlert(c) \/ HasEnoughBalance(c)
    <3>1. \/ pc'[c] = "idle" /\ ~result'[c]
          \/ pc[c] # "idle" /\ pc'[c] \in {"reread", "claim", "send"}
          \/ pc[c] = "balance" /\ pc'[c] = "trades"
      BY <2>2, <2>10 DEF LossUnknown, RereadLoss, ClaimAlert, HasEnoughBalance, Goto, Return
    <3> QED
      BY <2>1, <2>2, <3>1
  <2>11. CASE RedisError(c) \/ SendPlainMessage(c) \/ Die(c) \/ (CheckQuota(c) /\ pc'[c] # "hours")
    <3>1. pc'[c] = "idle" /\ ~result'[c]
      BY <2>2, <2>11 DEF RedisError, SendPlainMessage, Die, CheckQuota, Goto, Return
    <3> QED
      BY <2>5, <3>1
  <2>12. CASE IsWithinActiveTradingHours(c) /\ ~result'[c]
    BY <2>2, <2>5, <2>12 DEF IsWithinActiveTradingHours, Return
  <2>13. ASSUME NEW e \in Callers, e # c, CanTrade(e) PROVE UNCHANGED <<pc[c], result[c]>>
    BY <2>2, <2>13 DEF CanTrade, BeginCall, LossUnknown, RedisError, IsKillSwitchTriggered,
       RereadLoss, ClaimAlert, SendPlainMessage, HasEnoughBalance, CheckQuota,
       IsWithinActiveTradingHours, Die, Goto, Return
  <2>14. CASE UpdateDailyLoss \/ IncrDailyTradeCount \/ ResetDailyStats \/ Tick
    BY <2>4, <2>14 DEF UpdateDailyLoss, IncrDailyTradeCount, ResetDailyStats, Tick
  <2> QED
    BY <1>2, <2>4, <2>5, <2>6, <2>7, <2>8, <2>9, <2>10, <2>11, <2>12, <2>13, <2>14
       DEF Next, CanTrade
<1> QED
  BY <1>1, <1>2

(* An alert is claimed by the SETNX of one caller, for a day without one,   *)
(* and posted by nobody else.                                               *)
LEMMA AlertInduction == TypeOK /\ TypeOK' /\ AlertInv /\ [Next]_vars => AlertInv'
<1> SUFFICES ASSUME TypeOK, TypeOK', AlertInv, [Next]_vars PROVE AlertInv'
  OBVIOUS
<1> USE DEF clock, stats, calls
<1>0. /\ day \in Nat \ {0} /\ MaxLoss \in Nat \ {0} /\ Days \in Nat
      /\ loss \in Nat /\ cause \subseteq 1..Days /\ alerts \in [1..Days -> Nat]
      /\ claimed \in [Callers -> 0..Days] /\ pc \in [Callers -> Stages] /\ day \in 1..Days
  BY DEF TypeOK
<1>1. CASE UNCHANGED vars
  BY <1>1 DEF vars, AlertInv, AlertIsClaimed, Caused
<1>2. ASSUME UNCHANGED <<pc, claimed, alertKey, alerts>>, cause \subseteq cause',
             day' \in Nat, day <= day', loss' >= MaxLoss => day' \in cause'
      PROVE  AlertInv'
  <2>1. \A d, e : Caused(d) /\ d \in Nat /\ e \in Nat /\ d <= e => Caused(e)'
    BY <1>0, <1>2 DEF Caused
  <2>2. \A d \in Nat : Caused(d) => Caused(d)'
    BY <1>2 DEF Caused
  <2>3. \A c \in Callers : pc'[c] \in {"reread", "claim"} => Caused(day)'
    BY <1>0, <1>2, <2>1 DEF AlertInv, Caused
  <2>4. \A c \in Callers : pc'[c] = "send" <=> claimed'[c] # 0
    BY <1>2 DEF AlertInv
  <2>5. \A c \in Callers : claimed'[c] # 0 => /\ claimed'[c] \in alertKey' /\ alerts'[claimed'[c]] = 0
                                              /\ Caused(claimed[c])'
    BY <1>0, <1>2, <2>2 DEF AlertInv, Caused
  <2>6. AlertIsClaimed'
    BY <1>2 DEF AlertInv, AlertIsClaimed
  <2> QED
    BY <1>2, <2>3, <2>4, <2>5, <2>6 DEF AlertInv
<1>3. CASE UpdateDailyLoss
  <2>1. loss' >= MaxLoss => day' \in cause'
    BY <1>0, <1>3 DEF UpdateDailyLoss, TypeOK
  <2> QED
    BY <1>0, <1>2, <1>3, <2>1 DEF UpdateDailyLoss
<1>4. CASE IncrDailyTradeCount \/ ResetDailyStats
  <2>1. loss' >= MaxLoss => day' \in cause'
    BY <1>0, <1>4 DEF IncrDailyTradeCount, ResetDailyStats, AlertInv
  <2> QED
    BY <1>0, <1>2, <1>4, <2>1 DEF IncrDailyTradeCount, ResetDailyStats
<1>5. CASE Tick
  <2>1. loss' >= MaxLoss => day' \in cause'
    BY <1>0, <1>5 DEF Tick, AlertInv
  <2> QED
    BY <1>0, <1>2, <1>5, <2>1 DEF Tick
<1>6. ASSUME NEW c \in Callers, CanTrade(c) PROVE AlertInv'
  <2>0. /\ day' = day /\ loss' = loss /\ cause \subseteq cause' /\ alertKey \subseteq alertKey'
        /\ \A e \in Callers \ {c} : pc'[e] = pc[e] /\ claimed'[e] = claimed[e]
    BY <1>0, <1>6 DEF CanTrade, BeginCall, LossUnknown, RedisError, IsKillSwitchTriggered,
       RereadLoss, ClaimAlert, SendPlainMessage, HasEnoughBalance, CheckQuota,
       IsWithinActiveTradingHours, Die, Goto, Return
  <2>1. \A d : Caused(d) => Caused(d)'
    BY <2>0 DEF Caused
  <2>2. loss' >= MaxLoss => day' \in cause'
    BY <2>0 DEF AlertInv
  (* A step of the call that neither claims nor posts. *)
  <2>3. ASSUME claimed'[c] = 0, pc'[c] # "send", UNCHANGED alerts,
               pc'[c] \in {"reread", "claim"} => Caused(day)'
        PROVE  AlertInv'
    <3>1. \A e \in Callers : pc'[e] \in {"reread", "claim"} => Caused(day)'
      BY <2>0, <2>1, <2>3 DEF AlertInv, Caused
    <3>2. \A e \in Callers : pc'[e] = "send" <=> claimed'[e] # 0
      BY <2>0, <2>3 DEF AlertInv
    <3>3. \A e \in Callers : claimed'[e] # 0 => /\ claimed'[e] \in alertKey'
                                                /\ alerts'[claimed'[e]] = 0 /\ Caused(claimed[e])'
      BY <2>0, <2>1, <2>3 DEF AlertInv, Caused
    <3>4. AlertIsClaimed'
      BY <2>0, <2>3 DEF AlertInv, AlertIsClaimed
    <3> QED
      BY <2>2, <3>1, <3>2, <3>3, <3>4 DEF AlertInv
  <2>4. CASE ClaimAlert(c) /\ day \notin alertKey
    <3>1. /\ pc'[c] = "send" /\ claimed'[c] = day /\ alertKey' = alertKey \cup {day}
          /\ UNCHANGED <<alerts, cause>> /\ pc[c] = "claim"
      BY <1>0, <2>4 DEF ClaimAlert
    <3>2. Caused(day) /\ alerts[day] = 0
      BY <1>0, <2>4, <3>1 DEF AlertInv, AlertIsClaimed
    <3>3. \A e \in Callers : claimed[e] # day
      BY <1>0, <2>4 DEF AlertInv
    <3>4. \A e \in Callers : pc'[e] \in {"reread", "claim"} => Caused(day)'
      BY <2>0, <2>1, <3>1 DEF AlertInv, Caused
    <3>5. \A e \in Callers : pc'[e] = "send" <=> claimed'[e] # 0
      BY <1>0, <2>0, <3>1 DEF AlertInv
    <3>6. \A e \in Callers : claimed'[e] # 0 => /\ claimed'[e] \in alertKey'
                                                /\ alerts'[claimed'[e]] = 0 /\ Caused(claimed[e])'
      BY <2>0, <2>1, <3>1, <3>2 DEF AlertInv, Caused
    <3>7. \A e, f \in Callers : claimed'[e] = claimed'[f] /\ claimed'[e] # 0 => e = f
      BY <2>0, <3>1, <3>3 DEF AlertInv, AlertIsClaimed
    <3>8. AlertIsClaimed'
      BY <2>0, <3>1, <3>7 DEF AlertInv, AlertIsClaimed
    <3> QED
      BY <2>2, <3>4, <3>5, <3>6, <3>8 DEF AlertInv
  <2>5. CASE SendPlainMessage(c)
    <3> DEFINE d == claimed[c]
    <3>1. /\ pc[c] = "send" /\ pc'[c] = "idle" /\ claimed'[c] = 0 /\ alertKey' = alertKey
          /\ UNCHANGED cause /\ alerts' = [alerts EXCEPT ![d] = alerts[d] + 1]
      BY <1>0, <2>5 DEF SendPlainMessage, Return
    <3>2. d \in 1..Days /\ d \in alertKey /\ alerts[d] = 0 /\ Caused(d)
      BY <1>0, <3>1 DEF AlertInv
    <3>3. alerts'[d] = 1 /\ \A f \in 1..Days \ {d} : alerts'[f] = alerts[f]
      BY <1>0, <3>1, <3>2
    <3>4. \A e \in Callers \ {c} : claimed[e] # d
      BY <1>0, <3>2 DEF AlertInv, AlertIsClaimed
    <3>5. \A e \in Callers : pc'[e] \in {"reread", "claim"} => Caused(day)'
      BY <2>0, <2>1, <3>1 DEF AlertInv, Caused
    <3>6. \A e \in Callers : pc'[e] = "send" <=> claimed'[e] # 0
      BY <2>0, <3>1 DEF AlertInv
    <3>7. \A e \in Callers \ {c} : claimed'[e] # 0 =>
             /\ claimed'[e] \in alertKey' /\ alerts'[claimed'[e]] = 0 /\ Caused(claimed[e])'
      <4> SUFFICES ASSUME NEW e \in Callers \ {c}, claimed'[e] # 0
                   PROVE  /\ claimed'[e] \in alertKey' /\ alerts'[claimed'[e]] = 0
                          /\ Caused(claimed[e])'
        OBVIOUS
      <4>1. claimed'[e] = claimed[e] /\ claimed[e] \in 1..Days \ {d}
        BY <1>0, <2>0, <3>4
      <4> QED
        BY <2>1, <3>1, <3>3, <4>1 DEF AlertInv, Caused
    <3>8. \A e, f \in Callers : claimed'[e] = claimed'[f] /\ claimed'[e] # 0 => e = f
      BY <2>0, <3>1 DEF AlertInv, AlertIsClaimed
    <3>9. AlertIsClaimed'
      <4>1. \A f \in 1..Days : alerts'[f] > 0 =>
               alerts'[f] = 1 /\ f \in alertKey' /\ \E r \in cause' : r <= f
        BY <3>1, <3>2, <3>3 DEF AlertInv, AlertIsClaimed, Caused
      <4> QED
        BY <3>8, <4>1 DEF AlertIsClaimed
    <3> QED
      BY <2>2, <3>1, <3>5, <3>6, <3>7, <3>9 DEF AlertInv
  <2>6. CASE BeginCall(c)
    <3>1. pc[c] = "idle" /\ pc'[c] = "loss" /\ claimed' = claimed /\ UNCHANGED alerts
      BY <1>0, <2>6 DEF BeginCall
    <3> QED
      BY <2>3, <3>1 DEF AlertInv
  <2>7. CASE LossUnknown(c) \/ IsKillSwitchTriggered(c) \/ RereadLoss(c) \/ HasEnoughBalance(c)
             \/ CheckQuota(c)
    <3>1. \/ /\ pc[c] # "send" /\ claimed' = claimed /\ UNCHANGED alerts
             /\ pc'[c] \in {"reread", "claim", "balance", "trades", "hours"}
          \/ pc'[c] = "idle" /\ claimed'[c] = 0 /\ UNCHANGED alerts
      BY <1>0, <2>7 DEF LossUnknown, IsKillSwitchTriggered, RereadLoss, HasEnoughBalance,
         CheckQuota, Goto, Return
    <3>2. pc'[c] \in {"reread", "claim"} => Caused(day)'
      <4>1. CASE LossUnknown(c)
        <5>1. day \in cause' /\ day <= day'
          BY <1>0, <2>0, <4>1 DEF LossUnknown
        <5> QED
          BY <5>1 DEF Caused
      <4>2. CASE IsKillSwitchTriggered(c)
        BY <1>0, <2>0, <4>2 DEF IsKillSwitchTriggered, Goto, Caused, AlertInv
      <4>3. CASE RereadLoss(c)
        BY <2>0, <2>1, <4>3 DEF RereadLoss, AlertInv, Caused
      <4>4. CASE HasEnoughBalance(c) \/ CheckQuota(c)
        BY <1>0, <4>4 DEF HasEnoughBalance, CheckQuota, Goto, Return
      <4> QED
        BY <2>7, <4>1, <4>2, <4>3, <4>4
    <3>3. claimed'[c] = 0
      BY <3>1 DEF AlertInv
    <3> QED
      BY <2>3, <3>1, <3>2, <3>3
  <2>8. CASE RedisError(c) \/ IsWithinActiveTradingHours(c) \/ Die(c)
             \/ (ClaimAlert(c) /\ day \in alertKey)
    <3>1. pc'[c] = "idle" /\ claimed'[c] = 0 /\ UNCHANGED alerts
      BY <1>0, <2>8 DEF RedisError, IsWithinActiveTradingHours, Die, ClaimAlert, Return
    <3> QED
      BY <2>3, <3>1
  <2> QED
    BY <1>6, <2>4, <2>5, <2>6, <2>7, <2>8 DEF CanTrade
<1> QED
  BY <1>1, <1>3, <1>4, <1>5, <1>6 DEF Next

(* The invariant holds initially.                                           *)
LEMMA Start == Init => IInv
<1> SUFFICES ASSUME Init PROVE IInv
  OBVIOUS
<1>1. TypeOK
  BY DEF Init, TypeOK, Stages
<1>2. SeenInv
  BY DEF Init, SeenInv
<1>3. AlertInv
  BY DEF Init, AlertInv, AlertIsClaimed
<1> QED
  BY <1>1, <1>2, <1>3 DEF IInv

(* It holds in every state.                                                 *)
LEMMA Always == Spec => []IInv
<1>1. IInv /\ [Next]_vars => IInv'
  BY TypeInduction, SeenInduction, AlertInduction DEF IInv
<1> QED
  BY Start, <1>1, PTL DEF Spec

(* CanTrade lets a BUY through only if the kill switch was off, the quota   *)
(* free and the hour active during the call, whatever Redis, the operator,  *)
(* the clock and the other callers do.                                      *)
THEOREM GateFailsClosed == Spec => []FailClosed
<1>1. IInv => FailClosed
  BY DEF IInv, SeenInv, FailClosed
<1> QED
  BY <1>1, Always, PTL

(* maybeSendKillSwitchAlert posts one alert per day at most, and none on a  *)
(* day before any cause.                                                    *)
THEOREM OneAlertPerDay == Spec => []AlertIsClaimed
<1>1. IInv => AlertIsClaimed
  BY DEF IInv, AlertInv
<1> QED
  BY <1>1, Always, PTL

=============================================================================
