--------------------------- MODULE Monitor_proof ----------------------------
(***************************************************************************)
(* Proofs about the loop that watches a position, for every bot profile,   *)
(* confirmation time, set of profits and size of the event channel: loss   *)
(* exits are no wicks, and confirmation keeps a position open for a        *)
(* bounded time only.                                                      *)
(***************************************************************************)
EXTENDS Monitor, SequenceTheorems, TLAPS

(* The ranges of the settings.                                              *)
LEMMA Thresholds ==
  /\ ConfirmSL \in Nat /\ MaxTime \in Nat /\ ChanCap \in Nat \ {0} /\ MaxHold \in Nat
  /\ GraceSeconds \in Nat /\ PanicLoss \in Nat /\ StopLoss \in Nat /\ TakeProfit \in Nat
BY MonitorAssumption

(* Every profit that is quoted is a number.                                 *)
LEMMA ProfitsAreInt == \A pnl \in Profits \cup {TotalLoss} : pnl \in Int
BY MonitorAssumption

(* The confirmation that runs began at an alarm, and no decision has seen   *)
(* the price recovered since.                                               *)
ConfirmInv ==
  /\ slReason # None => alarms >= 1 /\ sinceGood >= slAge
  /\ WickProof

(* From the first decision after the deadline on, a position that does not  *)
(* trail a profit is being confirmed for a loss, for as long at least.      *)
DeadlineInv ==
  /\ elapsed <= now
  /\ late # Off => elapsed >= Deadline
  /\ late # Off /\ ~trailing /\ pc # "exit" => slReason # None /\ late <= slAge

IInv == TypeOK /\ ConfirmInv /\ DeadlineInv

-----------------------------------------------------------------------------
(* After the deadline the rules decide for some exit, unless the position   *)
(* trails a profit.                                                         *)
LEMMA RulesEndHold ==
  ASSUME NEW pnl \in Int, NEW t \in Nat, NEW top \in Int, t >= Deadline, ~Trails(pnl, t, FALSE)
  PROVE  AdaptiveExitReason(pnl, t, top, FALSE) # "hold"
BY MonitorAssumption DEF AdaptiveExitReason, Trails, Deadline

(* The timers of a step of d seconds.                                       *)
LEMMA ElapseType ==
  ASSUME NEW t \in Off..ConfirmSL, NEW d \in 0..1
  PROVE  /\ Elapse(t, d, ConfirmSL) \in Off..ConfirmSL
         /\ Elapse(t, d, ConfirmSL) = Off <=> t = Off
BY Thresholds DEF Elapse, Least, Off

(* The timers stay in their ranges when time passes.                        *)
LEMMA AdvanceTypes ==
  ASSUME TypeOK, NEW d \in 0..1, Advance(d)
  PROVE  /\ now' \in 0..MaxTime /\ slAge' \in Off..ConfirmSL /\ (slAge' = Off <=> slAge = Off)
         /\ late' \in Off..ConfirmSL /\ sinceGood' \in 0..ConfirmSL
         /\ now' >= now
         /\ late' = Off <=> late = Off
         /\ late <= slAge => late' <= slAge'
         /\ sinceGood >= slAge => sinceGood' >= slAge'
         /\ sinceGood' >= sinceGood
<1>0. /\ now \in 0..MaxTime /\ slAge \in Off..ConfirmSL /\ late \in Off..ConfirmSL
      /\ sinceGood \in 0..ConfirmSL
  BY Zenon DEF TypeOK
<1>1. now' \in 0..MaxTime /\ now' >= now
  BY <1>0, Thresholds DEF Advance, Least
<1>2. slAge' \in Off..ConfirmSL /\ (slAge' = Off <=> slAge = Off)
  BY <1>0, ElapseType DEF Advance
<1>3. late' \in Off..ConfirmSL /\ (late' = Off <=> late = Off)
  BY <1>0, ElapseType DEF Advance
<1>4. sinceGood' \in 0..ConfirmSL /\ sinceGood' >= sinceGood
  BY <1>0, Thresholds DEF Advance, Least
<1>5. late <= slAge => late' <= slAge'
  BY <1>0, Thresholds DEF Advance, Elapse, Least, Off
<1>6. sinceGood >= slAge => sinceGood' >= slAge'
  BY <1>0, Thresholds DEF Advance, Elapse, Least, Off
<1> QED
  BY <1>1, <1>2, <1>3, <1>4, <1>5, <1>6

(* A decision holds the position, begins or awaits a confirmation, sells    *)
(* for the loss that was confirmed, or sells at once.                       *)
LEMMA DecideCases ==
  ASSUME NEW r, NEW age \in Int, Decide(r, age)
  PROVE  \/ r = "hold" /\ Hold
         \/ r # "hold" /\ r \in Confirmable /\ ConfirmSL > 0 /\ slReason = None /\ BeginConfirm(r)
         \/ r # "hold" /\ slReason # None /\ age < ConfirmSL /\ AwaitConfirm(age)
         \/ r # "hold" /\ slReason # None /\ age >= ConfirmSL /\ Sell(slReason, age)
         \/ /\ r # "hold" /\ (ConfirmSL = 0 \/ r \notin Confirmable)
            /\ pc' = "exit" /\ reason' = r /\ slReason' = None /\ slAge' = Off
<1>1. CASE r = "hold"
  BY <1>1 DEF Decide
<1>2. CASE r # "hold" /\ ConfirmSL > 0 /\ r \in Confirmable
  <2>1. CASE slReason = None
    BY <1>2, <2>1, Zenon DEF Decide, NeedsConfirmation
  <2>2. CASE slReason # None /\ age < ConfirmSL
    BY <1>2, <2>2, Zenon DEF Decide, NeedsConfirmation
  <2>3. CASE slReason # None /\ ~(age < ConfirmSL)
    <3>1. age >= ConfirmSL
      BY <2>3, Thresholds
    <3> QED
      BY <1>2, <2>3, <3>1, Zenon DEF Decide, NeedsConfirmation
  <2> QED
    BY <2>1, <2>2, <2>3
<1>3. CASE r # "hold" /\ ~(ConfirmSL > 0 /\ r \in Confirmable)
  <2>1. ConfirmSL = 0 \/ r \notin Confirmable
    BY <1>3, Thresholds
  <2> QED
    BY <1>3, <2>1 DEF Decide, NeedsConfirmation
<1> QED
  BY <1>1, <1>2, <1>3

(* The buffer of the event channel stays within its capacity.               *)
LEMMA ChannelType ==
  ASSUME TypeOK
  PROVE  /\ \A e \in Events : Len(chan) < ChanCap =>
              Append(chan, e) \in Seq(Events) /\ Len(Append(chan, e)) <= ChanCap
         /\ chan # <<>> => Tail(chan) \in Seq(Events) /\ Len(Tail(chan)) <= ChanCap
<1>1. chan \in Seq(Events) /\ Len(chan) <= ChanCap /\ ChanCap \in Nat
  BY Thresholds, Zenon DEF TypeOK
<1>2. \A e \in Events : Append(chan, e) \in Seq(Events) /\ Len(Append(chan, e)) = Len(chan) + 1
  BY <1>1
<1>3. chan # <<>> => Tail(chan) \in Seq(Events) /\ Len(Tail(chan)) = Len(chan) - 1
  BY <1>1
<1>4. Len(chan) \in Nat
  BY <1>1
<1> QED
  BY <1>1, <1>2, <1>3, <1>4

-----------------------------------------------------------------------------
(* What a fresh quote does: pnl is its profit, d the seconds it took, r the *)
(* rule that applied.                                                       *)
Fresh(d, pnl, r) ==
  LET top == IF pnl > peak THEN pnl ELSE peak
  IN  /\ pc = "quote"
      /\ r = AdaptiveExitReason(pnl, elapsed, top, trailing)
      /\ quote' = pnl /\ peak' = top
      /\ trailing' = (trailing \/ Trails(pnl, elapsed, trailing))
      /\ Decide(r, Elapse(slAge, d, ConfirmSL))
      /\ now' = Least(now + d, MaxTime)
      /\ late' = IF late = Off /\ elapsed >= Deadline THEN 0 ELSE Elapse(late, d, ConfirmSL)
      /\ sinceGood' = IF r = "hold" THEN 0 ELSE Least(sinceGood + d, ConfirmSL)
      /\ alarms' = IF r = "hold" THEN 0 ELSE Least(alarms + 1, 2)
      /\ UNCHANGED <<elapsed, chan>>

(* A fresh quote is one of them.                                            *)
LEMMA FreshQuoteIs ==
  FreshQuote => \E d \in 0..1, pnl \in Profits \cup {TotalLoss} : \E r : Fresh(d, pnl, r)
BY DEF FreshQuote, Fresh

(* A decision on a fresh quote keeps the types.                             *)
LEMMA FreshTypes ==
  ASSUME TypeOK, NEW d \in 0..1, NEW pnl \in Profits \cup {TotalLoss}, NEW r, Fresh(d, pnl, r)
  PROVE  TypeOK'
<1> DEFINE age == Elapse(slAge, d, ConfirmSL)
<1>0. /\ now \in 0..MaxTime /\ slAge \in Off..ConfirmSL /\ late \in Off..ConfirmSL
      /\ sinceGood \in 0..ConfirmSL /\ alarms \in 0..2 /\ elapsed \in 0..MaxTime
      /\ peak \in Int /\ trailing \in BOOLEAN /\ pnl \in Int
      /\ slReason \in Confirmable \cup {None} /\ (slReason = None <=> slAge = Off)
      /\ chan \in Seq(Events) /\ Len(chan) <= ChanCap /\ pc = "quote" /\ reason = None
  <2>1. pnl \in Int
    BY ProfitsAreInt
  <2>2. pc = "quote"
    BY Zenon DEF Fresh
  <2> QED
    BY <2>1, <2>2, Zenon DEF TypeOK
<1>1. age \in Off..ConfirmSL /\ (age = Off <=> slAge = Off)
  BY <1>0, ElapseType
<1>2. now' \in 0..MaxTime
  BY <1>0, Thresholds DEF Fresh, Least
<1>3. late' \in Off..ConfirmSL
  <2>1. 0 \in Off..ConfirmSL
    BY Thresholds DEF Off
  <2>2. Elapse(late, d, ConfirmSL) \in Off..ConfirmSL
    BY <1>0, ElapseType
  <2>3. late' = 0 \/ late' = Elapse(late, d, ConfirmSL)
    BY DEF Fresh
  <2> QED
    BY <2>1, <2>2, <2>3
<1>4. sinceGood' \in 0..ConfirmSL
  BY <1>0, Thresholds DEF Fresh, Least
<1>5. alarms' \in 0..2
  BY <1>0 DEF Fresh, Least
<1>6. peak' \in Int
  BY <1>0 DEF Fresh
<1>7. trailing' \in BOOLEAN
  BY <1>0, Zenon DEF Fresh
<1>8. /\ pc' \in {"sleep", "exit"} /\ (pc' = "exit" <=> reason' # None)
      /\ slReason' \in Confirmable \cup {None} /\ slAge' \in Off..ConfirmSL
      /\ (slReason' = None <=> slAge' = Off)
  <2>0. r # None
    BY DEF Fresh, AdaptiveExitReason, None
  <2>1. Decide(r, age)
    BY DEF Fresh
  <2>2. CASE Hold
    BY <1>0, <2>2, Thresholds DEF Hold, Off
  <2>3. CASE r # "hold" /\ r \in Confirmable /\ BeginConfirm(r)
    BY <1>0, <2>3, Thresholds DEF BeginConfirm, Off, Confirmable, None
  <2>4. CASE slReason # None /\ AwaitConfirm(age)
    BY <1>0, <1>1, <2>4 DEF AwaitConfirm
  <2>5. CASE slReason # None /\ Sell(slReason, age)
    BY <1>0, <1>1, <2>5 DEF Sell
  <2>6. CASE pc' = "exit" /\ reason' = r /\ slReason' = None /\ slAge' = Off
    BY <2>0, <2>6, Thresholds DEF Off
  <2> QED
    BY <1>1, <2>1, <2>2, <2>3, <2>4, <2>5, <2>6, DecideCases
<1>9. quote' \in Profits \cup {TotalLoss, Stale}
  BY Zenon DEF Fresh
<1>10. elapsed' \in 0..MaxTime /\ chan' \in Seq(Events) /\ Len(chan') <= ChanCap
  BY <1>0, Zenon DEF Fresh
<1> HIDE DEF age
<1>11. pc' \in {"top", "quote", "sleep", "exit"}
  BY <1>8
<1> QED
  BY <1>2, <1>3, <1>4, <1>5, <1>6, <1>7, <1>8, <1>9, <1>10, <1>11, Zenon DEF TypeOK

(* Every step keeps the types of the state.                                 *)
LEMMA TypeInduction == TypeOK /\ [Next]_vars => TypeOK'
<1> SUFFICES ASSUME TypeOK, [Next]_vars PROVE TypeOK'
  OBVIOUS
<1>1. CASE UNCHANGED vars
  BY <1>1, Zenon DEF TypeOK, vars
<1>2. ASSUME NEW e \in Events, PublishStreamEvent(e) PROVE TypeOK'
  <2>1. chan' \in Seq(Events) /\ Len(chan') <= ChanCap
    <3>1. chan' = chan \/ (Len(chan) < ChanCap /\ chan' = Append(chan, e))
      BY <1>2 DEF PublishStreamEvent
    <3> QED
      BY <3>1, ChannelType, Zenon DEF TypeOK
  <2> QED
    BY <1>2, <2>1, Zenon DEF PublishStreamEvent, TypeOK, timers
<1>3. CASE LoopTop
  <2>1. chan' \in Seq(Events) /\ Len(chan') <= ChanCap
    <3>1. chan' = chan \/ (chan # <<>> /\ chan' = Tail(chan))
      BY <1>3 DEF LoopTop
    <3> QED
      BY <3>1, ChannelType, Zenon DEF TypeOK
  <2>2. pc' \in {"quote", "exit"} /\ (pc' = "exit" <=> reason' # None)
    <3>1. pc = "top" /\ reason = None
      BY <1>3 DEF LoopTop, TypeOK
    <3> QED
      BY <1>3, <3>1 DEF LoopTop, None
  <2>3. pc' \in {"top", "quote", "sleep", "exit"}
    BY <2>2
  <2> QED
    BY <1>3, <2>1, <2>2, <2>3, Zenon DEF LoopTop, TypeOK, timers
<1>4. CASE StaleQuote
  <2>1. PICK d \in 0..1 : Advance(d)
    BY <1>4 DEF StaleQuote
  <2>2. pc' = "sleep" /\ reason' = reason /\ (pc' = "exit" <=> reason' # None)
    BY <1>4 DEF StaleQuote, TypeOK
  <2>3. quote' \in Profits \cup {TotalLoss, Stale}
    BY <1>4, Zenon DEF StaleQuote
  <2>4. /\ now' \in 0..MaxTime /\ slAge' \in Off..ConfirmSL /\ (slAge' = Off <=> slAge = Off)
        /\ late' \in Off..ConfirmSL /\ sinceGood' \in 0..ConfirmSL
    BY <2>1, AdvanceTypes
  <2> QED
    BY <1>4, <2>2, <2>3, <2>4, Zenon DEF StaleQuote, TypeOK
<1>5. CASE FreshQuote
  BY <1>5, FreshQuoteIs, FreshTypes
<1>6. CASE Sleep
  <2>1. Advance(1) /\ 1 \in 0..1
    BY <1>6 DEF Sleep
  <2>2. pc' = "top" /\ reason' = reason /\ (pc' = "exit" <=> reason' # None)
    BY <1>6 DEF Sleep, TypeOK
  <2>3. /\ now' \in 0..MaxTime /\ slAge' \in Off..ConfirmSL /\ (slAge' = Off <=> slAge = Off)
        /\ late' \in Off..ConfirmSL /\ sinceGood' \in 0..ConfirmSL
    BY <2>1, AdvanceTypes
  <2> QED
    BY <1>6, <2>2, <2>3, Zenon DEF Sleep, TypeOK
<1> QED
  BY <1>1, <1>2, <1>3, <1>4, <1>5, <1>6 DEF Next, Loop

-----------------------------------------------------------------------------
(* A fresh quote sells for a loss only at the end of a confirmation that    *)
(* began at another alarm and met no recovered price.                       *)
LEMMA FreshConfirms ==
  ASSUME TypeOK, ConfirmInv,
         NEW d \in 0..1, NEW pnl \in Profits \cup {TotalLoss}, NEW r, Fresh(d, pnl, r)
  PROVE  ConfirmInv'
<1> DEFINE age == Elapse(slAge, d, ConfirmSL)
<1>0. /\ slAge \in Off..ConfirmSL /\ sinceGood \in 0..ConfirmSL /\ alarms \in 0..2
      /\ slReason \in Confirmable \cup {None} /\ (slReason = None <=> slAge = Off)
      /\ reason = None
  <2>1. pc = "quote"
    BY DEF Fresh
  <2> QED
    BY <2>1, Zenon DEF TypeOK
<1>1. slReason # None => alarms >= 1 /\ sinceGood >= slAge
  BY DEF ConfirmInv
<1>2. r # "hold" => alarms' = Least(alarms + 1, 2) /\ sinceGood' = Least(sinceGood + d, ConfirmSL)
  BY DEF Fresh
<1>3. r # "hold" => alarms' >= 1 /\ sinceGood' \in 0..ConfirmSL
  BY <1>0, <1>2, Thresholds DEF Least
<1>4. r # "hold" /\ slReason # None => alarms' = 2 /\ sinceGood' >= age
  BY <1>0, <1>1, <1>2, Thresholds DEF Least, Elapse, Off
<1>5. Decide(r, age) /\ age \in Int
  BY <1>0, ElapseType DEF Fresh
<1> HIDE DEF age
<1>6. CASE r = "hold" /\ Hold
  BY <1>0, <1>6 DEF Hold, ConfirmInv, WickProof, Confirmable, None
<1>7. CASE r # "hold" /\ r \in Confirmable /\ BeginConfirm(r)
  BY <1>0, <1>3, <1>7, Thresholds DEF BeginConfirm, ConfirmInv, WickProof, Confirmable, None
<1>8. CASE r # "hold" /\ slReason # None /\ AwaitConfirm(age)
  BY <1>0, <1>4, <1>8 DEF AwaitConfirm, ConfirmInv, WickProof, Confirmable, None
<1>9. CASE r # "hold" /\ slReason # None /\ age >= ConfirmSL /\ Sell(slReason, age)
  <2>1. sinceGood' >= ConfirmSL /\ alarms' = 2 /\ sinceGood' >= slAge'
    BY <1>3, <1>4, <1>5, <1>9, Thresholds DEF Sell
  <2> QED
    BY <2>1 DEF ConfirmInv, WickProof
<1>10. CASE /\ r # "hold" /\ (ConfirmSL = 0 \/ r \notin Confirmable)
            /\ pc' = "exit" /\ reason' = r /\ slReason' = None /\ slAge' = Off
  BY <1>10 DEF ConfirmInv, WickProof
<1> QED
  BY <1>5, <1>6, <1>7, <1>8, <1>9, <1>10, DecideCases

(* Every step keeps the invariant of the confirmation.                      *)
LEMMA ConfirmInduction == TypeOK /\ ConfirmInv /\ [Next]_vars => ConfirmInv'
<1> SUFFICES ASSUME TypeOK, ConfirmInv, [Next]_vars PROVE ConfirmInv'
  OBVIOUS
<1>1. CASE UNCHANGED vars \/ \E e \in Events : PublishStreamEvent(e)
  BY <1>1 DEF ConfirmInv, WickProof, vars, PublishStreamEvent, timers
<1>2. CASE LoopTop
  <2>1. reason' \in {"rug_remove", "whale_dump"} \/ reason' = None
    BY <1>2 DEF LoopTop, TypeOK
  <2> QED
    BY <1>2, <2>1 DEF ConfirmInv, WickProof, LoopTop, timers, Confirmable, None
<1>3. CASE StaleQuote \/ Sleep
  <2>1. PICK d \in 0..1 : Advance(d)
    BY <1>3 DEF StaleQuote, Sleep
  <2>2. reason' = None /\ slReason' = slReason /\ alarms' = alarms
    BY <1>3 DEF StaleQuote, Sleep, TypeOK
  <2>3. sinceGood >= slAge => sinceGood' >= slAge'
    BY <2>1, AdvanceTypes
  <2> QED
    BY <2>2, <2>3 DEF ConfirmInv, WickProof, Confirmable, None
<1>4. CASE FreshQuote
  BY <1>4, FreshQuoteIs, FreshConfirms
<1> QED
  BY <1>1, <1>2, <1>3, <1>4 DEF Next, Loop

-----------------------------------------------------------------------------
(* A decision after the deadline sells, or the confirmation that runs is    *)
(* not younger than the deadline.                                           *)
LEMMA FreshDeadline ==
  ASSUME TypeOK, DeadlineInv,
         NEW d \in 0..1, NEW pnl \in Profits \cup {TotalLoss}, NEW r, Fresh(d, pnl, r)
  PROVE  /\ DeadlineInv'
         /\ pc' = "sleep" /\ ~trailing' /\ elapsed >= Deadline => late' < ConfirmSL
<1> DEFINE age == Elapse(slAge, d, ConfirmSL)
<1>0. /\ slAge \in Off..ConfirmSL /\ late \in Off..ConfirmSL /\ elapsed \in 0..MaxTime
      /\ now \in 0..MaxTime /\ peak \in Int /\ trailing \in BOOLEAN
      /\ slReason \in Confirmable \cup {None} /\ (slReason = None <=> slAge = Off)
      /\ pc = "quote"
  <2>1. pc = "quote"
    BY DEF Fresh
  <2> QED
    BY <2>1, Zenon DEF TypeOK
<1>1. /\ elapsed <= now /\ (late # Off => elapsed >= Deadline)
      /\ late # Off /\ ~trailing => slReason # None /\ late <= slAge
  BY <1>0 DEF DeadlineInv
<1>2. Decide(r, age) /\ age \in Off..ConfirmSL /\ (age = Off <=> slAge = Off) /\ elapsed' = elapsed
  BY <1>0, ElapseType DEF Fresh
<1>3. elapsed' <= now'
  BY <1>0, <1>1, Thresholds DEF Fresh, Least
<1>4. late' = IF late = Off /\ elapsed >= Deadline THEN 0 ELSE Elapse(late, d, ConfirmSL)
  BY DEF Fresh
<1>5. late' # Off => elapsed' >= Deadline
  <2>1. Elapse(late, d, ConfirmSL) = Off <=> late = Off
    BY <1>0, ElapseType
  <2> QED
    BY <1>1, <1>2, <1>4, <2>1
<1>6. late # Off /\ late <= slAge => late' \in Int /\ late' <= age
  BY <1>0, <1>4, Thresholds DEF Elapse, Least, Off
<1>7. late = Off /\ elapsed >= Deadline => late' = 0
  BY <1>4
<1>8. ~trailing' /\ elapsed >= Deadline => r # "hold" /\ ~trailing
  <2>1. HAVE ~trailing' /\ elapsed >= Deadline
  <2>2. trailing = FALSE /\ ~Trails(pnl, elapsed, FALSE)
    BY <1>0, <2>1, Zenon DEF Fresh
  <2>3. elapsed \in Nat /\ pnl \in Int
    BY <1>0, ProfitsAreInt
  <2>4. r = AdaptiveExitReason(pnl, elapsed, IF pnl > peak THEN pnl ELSE peak, FALSE)
    BY <2>2 DEF Fresh
  <2>5. (IF pnl > peak THEN pnl ELSE peak) \in Int
    BY <1>0, <2>3
  <2> QED
    BY <2>1, <2>2, <2>3, <2>4, <2>5, RulesEndHold
<1> HIDE DEF age
<1>9. ASSUME ~trailing', pc' # "exit", elapsed >= Deadline
      PROVE  slReason' # None /\ late' <= slAge' /\ late' < ConfirmSL
  <2>1. r # "hold" /\ ~trailing
    BY <1>8, <1>9
  <2>2. CASE r \in Confirmable /\ ConfirmSL > 0 /\ slReason = None /\ BeginConfirm(r)
    <3>1. late' = 0
      BY <1>1, <1>7, <1>9, <2>1, <2>2
    <3> QED
      BY <2>2, <3>1, Thresholds DEF BeginConfirm, Confirmable, None
  <2>3. CASE slReason # None /\ age < ConfirmSL /\ AwaitConfirm(age)
    <3>1. slReason' # None /\ slAge' = age
      BY <2>3 DEF AwaitConfirm
    <3>2. age \in 0..ConfirmSL
      BY <1>0, <1>2, <2>3, Thresholds DEF Off
    <3>3. late' \in Int /\ late' <= age
      BY <1>1, <1>6, <1>7, <1>9, <2>1, <3>2
    <3> QED
      BY <2>3, <3>1, <3>2, <3>3, Thresholds
  <2>4. CASE Sell(slReason, age) \/ pc' = "exit"
    BY <1>9, <2>4 DEF Sell
  <2> QED
    BY <1>2, <2>1, <2>2, <2>3, <2>4, DecideCases DEF Off
<1> QED
  BY <1>1, <1>2, <1>3, <1>5, <1>9 DEF DeadlineInv

(* Every step keeps the invariant of the deadline.                          *)
LEMMA DeadlineInduction == TypeOK /\ DeadlineInv /\ [Next]_vars => DeadlineInv'
<1> SUFFICES ASSUME TypeOK, DeadlineInv, [Next]_vars PROVE DeadlineInv'
  OBVIOUS
<1>0. elapsed \in 0..MaxTime /\ now \in 0..MaxTime
  BY Zenon DEF TypeOK
<1>1. CASE UNCHANGED vars \/ \E e \in Events : PublishStreamEvent(e)
  BY <1>1 DEF DeadlineInv, vars, PublishStreamEvent, timers
<1>2. CASE LoopTop
  <2>1. elapsed' = now /\ UNCHANGED <<now, late, slAge, slReason, trailing>> /\ pc = "top"
    BY <1>2 DEF LoopTop, timers
  <2>2. Deadline \in Nat
    BY Thresholds DEF Deadline
  <2> QED
    BY <1>0, <2>1, <2>2, Thresholds DEF DeadlineInv
<1>3. CASE StaleQuote \/ Sleep
  <2>1. PICK d \in 0..1 : Advance(d)
    BY <1>3 DEF StaleQuote, Sleep
  <2>2. UNCHANGED <<elapsed, trailing, slReason>> /\ pc # "exit"
    BY <1>3 DEF StaleQuote, Sleep
  <2>3. now' >= now /\ now' \in 0..MaxTime /\ (late' = Off <=> late = Off)
        /\ (late <= slAge => late' <= slAge')
    BY <2>1, AdvanceTypes
  <2> QED
    BY <1>0, <2>2, <2>3, Thresholds DEF DeadlineInv
<1>4. CASE FreshQuote
  BY <1>4, FreshQuoteIs, FreshDeadline
<1> QED
  BY <1>1, <1>2, <1>3, <1>4 DEF Next, Loop

-----------------------------------------------------------------------------
(* The invariant holds initially.                                           *)
LEMMA Start == Init => IInv
<1> SUFFICES ASSUME Init PROVE IInv
  OBVIOUS
<1>1. TypeOK
  <2>1. /\ 0 \in 0..MaxTime /\ 0 \in 0..ConfirmSL /\ Off \in Off..ConfirmSL /\ 0 \in 0..2
    BY Thresholds DEF Off
  <2>2. <<>> \in Seq(Events) /\ Len(<<>>) <= ChanCap
    BY Thresholds
  <2>3. pc \in {"top", "quote", "sleep", "exit"} /\ (pc = "exit" <=> reason # None)
    BY DEF Init
  <2>4. peak \in Int
    BY DEF Init
  <2>5. trailing \in BOOLEAN /\ quote \in Profits \cup {TotalLoss, Stale}
    BY Zenon DEF Init
  <2> QED
    BY <2>1, <2>2, <2>3, <2>4, <2>5, Zenon DEF Init, TypeOK
<1>2. ConfirmInv
  BY DEF Init, ConfirmInv, WickProof, Confirmable, None
<1>3. DeadlineInv
  BY DEF Init, DeadlineInv
<1> QED
  BY <1>1, <1>2, <1>3 DEF IInv

(* It holds in every state.                                                 *)
LEMMA Always == Spec => []IInv
<1>1. IInv /\ [Next]_vars => IInv'
  BY TypeInduction, ConfirmInduction, DeadlineInduction DEF IInv
<1> QED
  BY Start, <1>1, PTL DEF Spec

(* The confirmation of loss exits (CONFIRM_SL_MS), with rules that          *)
(* alternate, stale quotes and events in between: a position is sold for a  *)
(* stop loss, grace loss or lost momentum only if the loss lasted.          *)
THEOREM LossesAreConfirmed == Spec => []WickProof
<1>1. IInv => WickProof
  BY DEF IInv, ConfirmInv
<1> QED
  BY <1>1, Always, PTL

(* MAX_HOLD with confirmed losses: whatever the price does, a decision      *)
(* keeps a position that trails no profit for less than the confirmation    *)
(* time after the first decision past the deadline.                         *)
THEOREM ConfirmationIsBounded == Spec => HoldBounded
<1>1. IInv /\ [Next]_vars
        => [pc = "quote" /\ pc' = "sleep" /\ quote' # Stale /\ ~trailing' /\ elapsed >= Deadline
              => late' < ConfirmSL]_vars
  <2> SUFFICES ASSUME IInv, Next, pc = "quote", pc' = "sleep", quote' # Stale, ~trailing',
                      elapsed >= Deadline
               PROVE  late' < ConfirmSL
    OBVIOUS
  <2>1. FreshQuote
    BY DEF Next, Loop, LoopTop, StaleQuote, Sleep, PublishStreamEvent
  <2> QED
    BY <2>1, FreshQuoteIs, FreshDeadline DEF IInv
<1> QED
  BY <1>1, Always, PTL DEF Spec, HoldBounded

=============================================================================
