-------------------------- MODULE TradeClose_proof --------------------------
(***************************************************************************)
(* Proofs about the end of a position, for any number of sellers, payloads *)
(* and faults, with resets by the operator beside them: a payload is       *)
(* stored once, a losing mint is blacklisted, the list and the losses of   *)
(* the day agree, and summaries keep their distance.                       *)
(***************************************************************************)
EXTENDS TradeClose, FiniteSetTheorems, TLAPS

-----------------------------------------------------------------------------
(* The sellers that hold the claim of a payload, those of its sellers that  *)
(* a reset has overtaken, and the claim that a set dedupe key stands for:   *)
(* none while a reset may take it away.                                     *)
Active(x)    == {w \in Writers : payload[w] = x /\ pc[w] \in {"push", "undo"}}
Overtaken(x) == {w \in straddled : payload[w] = x /\ pc[w] # "claim"}
Claimed(x)   == IF x \in dedupe /\ ~Resetting THEN 1 ELSE 0

(* What the client's retries have added, or made possible.                  *)
Extra(x) == lostPush[x] + strayDel[x]

(* Every entry, and every one that is about to be made, is paid for.        *)
OnceInv ==
  \A x \in Payloads :
    list[x] + Cardinality(Active(x)) <= Extra(x) + Cardinality(Overtaken(x)) + Claimed(x)

(* Losing trades whose mint is not on the blacklist, nor about to be.       *)
Missing == {x \in Losing : list[x] > 0} \ cooldown
Cooling == {w \in Writers : pc[w] = "cool"}
Escaped == {x \in Missing : \A w \in Cooling : payload[w] # x}

CoolInv == IsFiniteSet(Escaped) /\ Cardinality(Escaped) <= faults

(* A call is no older than MaxCall, hence the time it writes to the key not *)
(* much older than any that was ever written.                               *)
ReportInv ==
  /\ \A s \in Sellers : InCall(s) => now - stamp[s] <= MaxCall
  /\ last # 0 => latest - last <= MaxCall

(* While a reset runs, every losing trade of the emptied list comes from a  *)
(* seller that it overtook and that has stored, or from a fault; the others *)
(* have stored nothing and are not about to.                                *)
Waiting == {w \in straddled : pc[w] \in {"claim", "push"}}

DriftInv ==
  /\ IsFiniteSet(Stored(Losing))
  /\ older <= Entries(Losing)
  /\ RecordsDrift
  /\ Resetting =>
       /\ Entries(Losing) + Cardinality(Waiting) <= Cardinality(straddled) + faults
       /\ \A w \in Writers \ straddled : pc[w] \in {"claim", "done", "dead"}

IInv == TypeOK /\ OnceInv /\ CoolInv /\ DriftInv /\ ReportInv

-----------------------------------------------------------------------------
Stages == {"claim", "push", "undo", "undoAgain", "cool", "loss", "done", "dead"}

(* Records: the types of the store.                                         *)
LEMMA RecordTypes ==
  ASSUME StoreTypeOK, NEW w \in Writers, Record(w)
  PROVE  StoreTypeOK'
<1> USE DEF StoreTypeOK, Goto, Fault
<1>0. MaxFaults \in Nat /\ payload[w] \in Payloads /\ faults \in 0..MaxFaults
  BY StoreAssumption
<1>1. pc' \in [Writers -> Stages]
  BY DEF Record, SaveTrade, Claim, ClaimAgain, ClaimFails, Push, PushAgain, PushFails, Undo,
     SetCooldown, UpdateDailyLoss, AddLossAgain, Crash, Stages
<1>2. faults' \in 0..MaxFaults
  BY <1>0 DEF Record, SaveTrade, Claim, ClaimAgain, ClaimFails, Push, PushAgain, PushFails, Undo,
     SetCooldown, UpdateDailyLoss, AddLossAgain, Crash
<1>3. dedupe' \subseteq Payloads /\ cooldown' \subseteq Payloads /\ payload' = payload
  BY <1>0 DEF Record, SaveTrade, Claim, ClaimAgain, ClaimFails, Push, PushAgain, PushFails, Undo,
     SetCooldown, UpdateDailyLoss, AddLossAgain, Crash
<1>4. dailyLoss' \in Nat
  BY DEF Record, SaveTrade, Claim, ClaimAgain, ClaimFails, Push, PushAgain, PushFails, Undo,
     SetCooldown, UpdateDailyLoss, AddLossAgain, Crash
<1>5. list' = list \/ list' = [list EXCEPT ![payload[w]] = list[payload[w]] + 1]
  BY DEF Record, SaveTrade, Claim, ClaimAgain, ClaimFails, Push, PushAgain, PushFails, Undo,
     SetCooldown, UpdateDailyLoss, AddLossAgain, Crash
<1>6. lostPush' = lostPush \/ lostPush' = [lostPush EXCEPT ![payload[w]] = lostPush[payload[w]] + 1]
  BY DEF Record, SaveTrade, Claim, ClaimAgain, ClaimFails, Push, PushAgain, PushFails, Undo,
     SetCooldown, UpdateDailyLoss, AddLossAgain, Crash
<1>7. list' \in [Payloads -> Nat] /\ lostPush' \in [Payloads -> Nat]
  BY <1>0, <1>5, <1>6
<1>8. strayDel' = strayDel \/ strayDel' = [strayDel EXCEPT ![payload[w]] = strayDel[payload[w]] + 1]
  BY DEF Record, SaveTrade, Claim, ClaimAgain, ClaimFails, Push, PushAgain, PushFails, Undo,
     SetCooldown, UpdateDailyLoss, AddLossAgain, Crash
<1>9. strayDel' \in [Payloads -> Nat]
  BY <1>0, <1>8
<1> QED
  BY <1>1, <1>2, <1>3, <1>4, <1>7, <1>9 DEF Stages

(* Reports: the times of the calls and of the key.                          *)
Reporting == \/ \E s \in Sellers, some \in BOOLEAN : Notify(s) \/ GoOn(s, some)
             \/ Tick \/ ResetReportState

(* Reports: the types, and the ages of what is written to the key.          *)
LEMMA ReportTypes ==
  ASSUME ReportTypeOK, ReportInv, Reporting
  PROVE  ReportTypeOK' /\ ReportInv'
<1>0. /\ now \in 1..MaxTime /\ last \in 0..now /\ latest \in 0..now /\ MaxTime \in Nat
      /\ MaxCall \in Nat /\ Interval \in Nat /\ now \in Nat
      /\ call \in [Sellers -> {"none", "get", "first", "send", "set", "over"}]
      /\ stamp \in [Sellers -> 0..now] /\ \A s \in Sellers : stamp[s] \in 0..now
  BY ReportAssumption DEF ReportTypeOK
<1>1. ASSUME NEW s \in Sellers, Notify(s) PROVE ReportTypeOK' /\ ReportInv'
  BY <1>0, <1>1 DEF Notify, Step, InCall, ReportTypeOK, ReportInv
<1>2. ASSUME NEW s \in Sellers, Return(s), now' = now,
             \/ last' = last /\ latest' = latest
             \/ /\ last' = stamp[s] /\ InCall(s)
                /\ latest' = IF stamp[s] > latest THEN stamp[s] ELSE latest
      PROVE  ReportTypeOK' /\ ReportInv'
  <2>1. ReportTypeOK'
    BY <1>0, <1>2 DEF Return, Step, ReportTypeOK
  <2>2. \A q \in Sellers : InCall(q)' => now' - stamp'[q] <= MaxCall
    BY <1>0, <1>2 DEF Return, Step, ReportInv, InCall
  <2>3. last' # 0 => latest' - last' <= MaxCall
    BY <1>0, <1>2 DEF ReportInv
  <2> QED
    BY <2>1, <2>2, <2>3 DEF ReportInv
<1>3. ASSUME NEW s \in Sellers, NEW stage \in {"first", "send", "set"}, InCall(s), Step(s, stage),
             UNCHANGED <<now, last, stamp, latest>>
      PROVE  ReportTypeOK' /\ ReportInv'
  BY <1>0, <1>3 DEF Step, InCall, ReportTypeOK, ReportInv
<1>4. ASSUME NEW s \in Sellers, NEW some \in BOOLEAN, GoOn(s, some)
      PROVE  ReportTypeOK' /\ ReportInv'
  <2>1. InCall(s)
    BY <1>4 DEF GoOn, GetLast, SetAgain, SetFirst, SendSummary, SetLast, Abort, InCall
  <2>2. CASE GetLast(s)
    BY <1>2, <1>3, <2>1, <2>2 DEF GetLast
  <2>3. CASE SetFirst(s) \/ SetLast(s)
    BY <1>2, <2>1, <2>3 DEF SetFirst, SetLast, Set
  <2>4. CASE SendSummary(s, some)
    BY <1>3, <2>1, <2>4 DEF SendSummary
  <2>6. CASE SetAgain(s)
    <3>1. /\ UNCHANGED <<now, call, stamp>> /\ last' = stamp[s] /\ InCall(s)
          /\ latest' = IF stamp[s] > latest THEN stamp[s] ELSE latest
      BY <2>1, <2>6 DEF SetAgain
    <3>2. ReportTypeOK'
      BY <1>0, <3>1 DEF ReportTypeOK
    <3>3. \A q \in Sellers : InCall(q)' => now' - stamp'[q] <= MaxCall
      BY <3>1 DEF ReportInv, InCall
    <3>4. last' # 0 => latest' - last' <= MaxCall
      BY <1>0, <3>1 DEF ReportInv
    <3> QED
      BY <3>2, <3>3, <3>4 DEF ReportInv
  <2>5. CASE Abort(s)
    BY <1>2, <2>5 DEF Abort
  <2> QED
    BY <1>4, <2>2, <2>3, <2>4, <2>5, <2>6 DEF GoOn
<1>5. CASE Tick
  <2>1. now' = now + 1 /\ now' \in 1..MaxTime /\ UNCHANGED <<last, call, stamp, latest>>
    BY <1>0, <1>5 DEF Tick
  <2>2. stamp' \in [Sellers -> 0..now']
    BY <1>0, <2>1
  <2>3. \A s \in Sellers : InCall(s)' => now' - stamp'[s] <= MaxCall
    BY <1>0, <1>5, <2>1 DEF Tick, InCall
  <2> QED
    BY <1>0, <2>1, <2>2, <2>3 DEF ReportTypeOK, ReportInv
<1>6. CASE ResetReportState
  BY <1>0, <1>6 DEF ResetReportState, ReportTypeOK, ReportInv, InCall
<1> QED
  BY <1>1, <1>4, <1>5, <1>6 DEF Reporting

(* Every step of the project of the report's variables.                     *)
LEMMA NextReports == [Next]_vars => Reporting \/ UNCHANGED report
<1> SUFFICES ASSUME Next PROVE Reporting \/ UNCHANGED report
  BY DEF vars
<1>1. CASE PassTime \/ Midnight
  BY <1>1 DEF PassTime, Midnight, Reporting
<1>2. CASE Reset
  BY <1>2 DEF Reset, ClearTrades, ClearDedupe, ClearReport, ResetDailyStats, ResetStops, Reporting
<1>3. ASSUME NEW w \in Writers, RecordTrade(w) PROVE UNCHANGED report
  BY <1>3 DEF RecordTrade
<1>4. ASSUME NEW s \in Sellers, NotifyTradeSaved(s) PROVE Reporting
  <2>1. Notify(s) \/ GoOn(s, TRUE)
    BY <1>4 DEF NotifyTradeSaved, GoOn, SendSummary
  <2> QED
    BY <2>1 DEF Reporting
<1> QED
  BY <1>1, <1>2, <1>3, <1>4 DEF Next

(* A step is one of a record, of a reset, or leaves the store alone.        *)
LEMMA TypeInduction ==
  TypeOK /\ ReportInv /\ IsFiniteSet(Stored(Losing)) /\ [Next]_vars => TypeOK' /\ ReportInv'
<1> SUFFICES ASSUME TypeOK, ReportInv, [Next]_vars, IsFiniteSet(Stored(Losing))
             PROVE  TypeOK' /\ ReportInv'
  OBVIOUS
<1>0. IsFiniteSet(Stored(Losing))
  OBVIOUS
<1>1. ReportTypeOK' /\ ReportInv'
  <2>1. CASE Reporting
    BY <2>1, ReportTypes DEF TypeOK
  <2>2. CASE UNCHANGED report
    BY <2>2 DEF TypeOK, ReportTypeOK, ReportInv, report, InCall
  <2> QED
    BY <2>1, <2>2, NextReports
<1>2. StoreTypeOK'
  <2>0. StoreTypeOK
    BY DEF TypeOK
  <2>1. CASE UNCHANGED store
    BY <2>0, <2>1 DEF StoreTypeOK, store
  <2>2. ASSUME NEW w \in Writers, RecordTrade(w) PROVE StoreTypeOK'
    BY <2>0, <2>2, RecordTypes DEF RecordTrade
  <2>3. CASE ClearTrades
    BY <2>0, <2>3 DEF ClearTrades, StoreTypeOK
  <2>4. ASSUME NEW x \in Payloads, ClearDedupe(x) PROVE StoreTypeOK'
    BY <2>0, <2>4 DEF ClearDedupe, StoreTypeOK
  <2>5. CASE ResetDailyStats \/ Midnight
    BY <2>0, <2>5 DEF ResetDailyStats, Midnight, StoreTypeOK
  <2>6. CASE ResetStops
    BY <2>0, <2>6, StoreAssumption DEF ResetStops, StoreTypeOK, Fault
  <2> QED
    BY <2>1, <2>2, <2>3, <2>4, <2>5, <2>6 DEF Next, Reset, PassTime, NotifyTradeSaved, ClearReport, vars
<1>3. /\ reset' \in {"none", "list", "scan", "report", "daily", "over", "failed"}
      /\ unscanned' \subseteq Payloads /\ straddled' \subseteq Writers
      /\ overnight' \subseteq Writers
  BY DEF TypeOK, Next, Reset, PassTime, Midnight, NotifyTradeSaved, RecordTrade, ClearTrades,
     ClearDedupe, ClearReport, ResetDailyStats, ResetStops, Counting, days, vars
<1>4. older' \in Nat
  <2>1. older' \in {older, 0} \/ older' = Entries(Losing)
    BY DEF Next, Reset, PassTime, Midnight, NotifyTradeSaved, RecordTrade, ClearTrades,
       ClearDedupe, ClearReport, ResetDailyStats, ResetStops, days, vars
  <2>2. Entries(Losing) \in Nat
    BY <1>0, FS_CardinalityType DEF Entries
  <2> QED
    BY <2>1, <2>2 DEF TypeOK
<1> QED
  BY <1>1, <1>2, <1>3, <1>4 DEF TypeOK

-----------------------------------------------------------------------------
(* The sets of sellers that are counted are finite.                         *)
LEMMA FiniteSellers ==
  ASSUME TypeOK, NEW x
  PROVE  /\ IsFiniteSet(Active(x)) /\ Cardinality(Active(x)) \in Nat
         /\ IsFiniteSet(Overtaken(x)) /\ Cardinality(Overtaken(x)) \in Nat
         /\ IsFiniteSet(straddled) /\ Cardinality(straddled) \in Nat
         /\ IsFiniteSet(Cooling) /\ Cardinality(Cooling) \in Nat
<1>1. Active(x) \subseteq Writers /\ straddled \subseteq Writers /\ Cooling \subseteq Writers
      /\ Overtaken(x) \subseteq straddled
  BY DEF Active, Overtaken, Cooling, TypeOK
<1> QED
  BY <1>1, FS_Subset, FS_CardinalityType, StoreAssumption

(* A step that changes no entry of x and no claim of it, and forgets no     *)
(* seller that was overtaken.                                               *)
LEMMA Keeps ==
  ASSUME TypeOK, TypeOK', OnceInv, NEW x \in Payloads,
         list'[x] = list[x], Extra(x)' = Extra(x), Active(x)' \subseteq Active(x),
         Overtaken(x) \subseteq Overtaken(x)', Claimed(x) <= Claimed(x)'
  PROVE  list'[x] + Cardinality(Active(x)')
           <= Extra(x)' + Cardinality(Overtaken(x)') + Claimed(x)'
<1>1. Cardinality(Active(x)') <= Cardinality(Active(x))
  BY FiniteSellers, FS_Subset
<1>2. Cardinality(Overtaken(x)) <= Cardinality(Overtaken(x)')
  <2>1. IsFiniteSet(Overtaken(x)')
    <3>1. Overtaken(x)' \subseteq Writers
      BY DEF Overtaken, TypeOK
    <3> QED
      BY <3>1, FS_Subset, StoreAssumption
  <2> QED
    BY <2>1, FS_Subset
<1>3. Cardinality(Active(x)') \in Nat /\ Cardinality(Overtaken(x)') \in Nat
  <2>1. Active(x)' \subseteq Writers /\ Overtaken(x)' \subseteq Writers
    BY DEF Active, Overtaken, TypeOK
  <2> QED
    BY <2>1, FS_Subset, FS_CardinalityType, StoreAssumption
<1>4. /\ list[x] \in Nat /\ Extra(x) \in Nat /\ Claimed(x) \in Nat /\ Claimed(x)' \in Nat
      /\ Cardinality(Active(x)) \in Nat /\ Cardinality(Overtaken(x)) \in Nat
  BY FiniteSellers DEF TypeOK, StoreTypeOK, Claimed, Extra
<1>5. list[x] + Cardinality(Active(x)) <= Extra(x) + Cardinality(Overtaken(x)) + Claimed(x)
  BY DEF OnceInv
<1> QED
  BY <1>1, <1>2, <1>3, <1>4, <1>5

(* What the commands of SaveTrade do to the balance of their own payload:   *)
(* a claim is paid by the key it sets, or by the reset that runs; an entry  *)
(* by the claim, or by the answer that was lost.                            *)
LEMMA RecordKinds ==
  ASSUME TypeOK, NEW w \in Writers, RecordTrade(w)
  PROVE  LET p == payload[w]
         IN  /\ payload' = payload /\ reset' = reset /\ straddled \subseteq straddled'
             /\ \A v \in Writers \ {w} : pc'[v] = pc[v]
             /\ Resetting => w \in straddled'
             /\ pc[w] # "claim" => pc'[w] # "claim"
             /\ \A x \in Payloads \ {p} : /\ list'[x] = list[x] /\ Extra(x)' = Extra(x)
                                          /\ x \in dedupe' <=> x \in dedupe
             /\ \/ /\ pc[w] = "claim" /\ pc'[w] = "push" /\ p \notin dedupe /\ p \in dedupe'
                   /\ list'[p] = list[p] /\ Extra(p)' = Extra(p)
                \/ /\ pc[w] = "push" /\ pc'[w] \in {"cool", "done"}
                   /\ list'[p] = list[p] + 1 /\ Extra(p)' = Extra(p) /\ dedupe' = dedupe
                \/ /\ pc[w] = "push" /\ pc'[w] \in {"push", "undo"}
                   /\ list'[p] = list[p] + 1 /\ Extra(p)' = Extra(p) + 1 /\ dedupe' = dedupe
                \/ /\ pc[w] = "undo" /\ pc'[w] \in {"done", "undoAgain"}
                   /\ list'[p] = list[p] /\ Extra(p)' = Extra(p)
                \/ /\ pc[w] = "undoAgain" /\ pc'[w] \in {"done", "undoAgain"} /\ list'[p] = list[p]
                   /\ \/ dedupe' = dedupe /\ Extra(p)' = Extra(p)
                      \/ Extra(p)' = Extra(p) + 1
                \/ /\ pc'[w] \in {"push", "undo"} => pc[w] \in {"push", "undo"}
                   /\ list'[p] = list[p] /\ Extra(p)' = Extra(p) /\ dedupe \subseteq dedupe'
<1> DEFINE p == payload[w]
<1>0. /\ pc \in [Writers -> {"claim", "push", "undo", "undoAgain", "cool", "loss", "done", "dead"}]
      /\ p \in Payloads /\ list \in [Payloads -> Nat] /\ lostPush \in [Payloads -> Nat]
      /\ strayDel \in [Payloads -> Nat] /\ Record(w)
  BY DEF TypeOK, StoreTypeOK, RecordTrade
<1>1. payload' = payload /\ \A v \in Writers \ {w} : pc'[v] = pc[v]
  BY <1>0 DEF Record, SaveTrade, Claim, ClaimAgain, ClaimFails, Push, PushAgain, PushFails, Undo,
     SetCooldown, UpdateDailyLoss, AddLossAgain, Crash, Goto
<1>2. reset' = reset /\ straddled \subseteq straddled' /\ (Resetting => w \in straddled')
  BY DEF RecordTrade
<1>3. pc[w] # "claim" => pc'[w] # "claim"
  BY <1>0 DEF Record, SaveTrade, Claim, ClaimAgain, ClaimFails, Push, PushAgain, PushFails, Undo,
     SetCooldown, UpdateDailyLoss, AddLossAgain, Crash, Goto
<1>4. \A x \in Payloads \ {p} : /\ list'[x] = list[x] /\ Extra(x)' = Extra(x)
                                /\ x \in dedupe' <=> x \in dedupe
  BY <1>0 DEF Record, SaveTrade, Claim, ClaimAgain, ClaimFails, Push, PushAgain, PushFails, Undo,
     SetCooldown, UpdateDailyLoss, AddLossAgain, Crash, Extra
<1>5. CASE Claim(w)
  BY <1>0, <1>1, <1>2, <1>3, <1>4, <1>5 DEF Claim, Goto, Extra
<1>6. CASE Push(w)
  <2>1. pc[w] = "push" /\ pc'[w] \in {"cool", "done"} /\ list'[p] = list[p] + 1
        /\ Extra(p)' = Extra(p) /\ dedupe' = dedupe
    BY <1>0, <1>6 DEF Push, Goto, Extra
  <2> QED
    BY <1>1, <1>2, <1>3, <1>4, <2>1
<1>7. CASE PushAgain(w)
  <2>1. pc[w] = "push" /\ pc'[w] = "push" /\ list'[p] = list[p] + 1
        /\ Extra(p)' = Extra(p) + 1 /\ dedupe' = dedupe
    BY <1>0, <1>7 DEF PushAgain, Extra
  <2> QED
    BY <1>1, <1>2, <1>3, <1>4, <2>1
<1>8. CASE PushFails(w)
  <2>1. /\ pc[w] = "push" /\ pc'[w] = "undo" /\ dedupe' = dedupe
        /\ \/ list'[p] = list[p] + 1 /\ Extra(p)' = Extra(p) + 1
           \/ list'[p] = list[p] /\ Extra(p)' = Extra(p)
    BY <1>0, <1>8 DEF PushFails, Goto, Extra
  <2> QED
    BY <1>1, <1>2, <1>3, <1>4, <2>1
<1>9. CASE Undo(w)
  <2>1. CASE pc[w] = "undo"
    <3>1. /\ pc'[w] \in {"done", "undoAgain"} /\ list' = list
          /\ UNCHANGED <<lostPush, strayDel>>
      BY <1>0, <1>9, <2>1 DEF Undo, Goto
    <3> QED
      BY <1>1, <1>2, <1>3, <1>4, <2>1, <3>1 DEF Extra
  <2>2. CASE pc[w] = "undoAgain"
    <3>1. /\ pc'[w] \in {"done", "undoAgain"} /\ list' = list /\ lostPush' = lostPush
          /\ \/ dedupe' = dedupe /\ strayDel' = strayDel
             \/ strayDel' = [strayDel EXCEPT ![p] = @ + 1]
      BY <1>0, <1>9, <2>2 DEF Undo, Goto
    <3>2. (dedupe' = dedupe /\ Extra(p)' = Extra(p)) \/ Extra(p)' = Extra(p) + 1
      BY <1>0, <1>1, <3>1 DEF Extra
    <3> QED
      BY <1>1, <1>2, <1>3, <1>4, <2>2, <3>1, <3>2
  <2> QED
    BY <1>9, <2>1, <2>2 DEF Undo
<1>10. CASE \/ ClaimAgain(w) \/ ClaimFails(w) \/ SetCooldown(w) \/ UpdateDailyLoss(w)
            \/ AddLossAgain(w) \/ Crash(w)
  <2>1. /\ pc'[w] \in {"push", "undo"} => pc[w] \in {"push", "undo"}
        /\ list'[p] = list[p] /\ Extra(p)' = Extra(p) /\ dedupe \subseteq dedupe'
    BY <1>0, <1>10 DEF ClaimAgain, ClaimFails, SetCooldown, UpdateDailyLoss, AddLossAgain, Crash, Goto, Extra
  <2> QED
    BY <1>1, <1>2, <1>3, <1>4, <2>1
<1> QED
  BY <1>0, <1>5, <1>6, <1>7, <1>8, <1>9, <1>10 DEF Record, SaveTrade

(* Recording a trade keeps every entry paid for.                            *)
LEMMA RecordOnce ==
  ASSUME TypeOK, TypeOK', OnceInv, NEW w \in Writers, RecordTrade(w)
  PROVE  OnceInv'
<1> DEFINE p == payload[w]
<1> SUFFICES ASSUME NEW x \in Payloads
             PROVE  list'[x] + Cardinality(Active(x)')
                      <= Extra(x)' + Cardinality(Overtaken(x)') + Claimed(x)'
  BY DEF OnceInv, Claimed, Resetting, Active, Overtaken, Extra
<1>0. /\ payload' = payload /\ reset' = reset /\ straddled \subseteq straddled'
      /\ \A v \in Writers \ {w} : pc'[v] = pc[v]
      /\ Resetting => w \in straddled'
      /\ pc[w] # "claim" => pc'[w] # "claim"
      /\ \A y \in Payloads \ {p} : /\ list'[y] = list[y] /\ Extra(y)' = Extra(y)
                                   /\ y \in dedupe' <=> y \in dedupe
      /\ straddled \subseteq Writers /\ straddled' \subseteq Writers /\ p \in Payloads
  BY RecordKinds DEF TypeOK, StoreTypeOK
<1>1. Overtaken(x) \subseteq Overtaken(x)'
  BY <1>0 DEF Overtaken
<1>2. CASE x # p
  <2>1. Active(x)' = Active(x) /\ Claimed(x)' = Claimed(x)
    BY <1>0, <1>2 DEF Active, Claimed, Resetting
  <2>2. Claimed(x) <= Claimed(x)'
    BY <2>1 DEF Claimed
  <2> QED
    BY <1>0, <1>1, <1>2, <2>1, <2>2, Keeps
<1>3. CASE x = p
  <2>0. /\ list[p] \in Nat /\ Extra(p) \in Nat /\ Claimed(p) \in {0, 1} /\ Claimed(p)' \in {0, 1}
        /\ IsFiniteSet(Active(p)) /\ Cardinality(Active(p)) \in Nat
        /\ IsFiniteSet(Overtaken(p)) /\ Cardinality(Overtaken(p)) \in Nat
        /\ list[p] + Cardinality(Active(p)) <= Extra(p) + Cardinality(Overtaken(p)) + Claimed(p)
    BY <1>0, FiniteSellers DEF TypeOK, StoreTypeOK, Claimed, OnceInv, Extra
  <2>01. IsFiniteSet(Overtaken(p)') /\ Cardinality(Overtaken(p)') \in Nat
         /\ Cardinality(Overtaken(p)) <= Cardinality(Overtaken(p)')
    <3>1. Overtaken(p)' \subseteq Writers
      BY <1>0 DEF Overtaken
    <3>2. IsFiniteSet(Overtaken(p)')
      BY <3>1, FS_Subset, StoreAssumption
    <3>3. Cardinality(Overtaken(p)') \in Nat
      BY <3>2, FS_CardinalityType
    <3>4. Overtaken(p) \subseteq Overtaken(p)'
      BY <1>0 DEF Overtaken
    <3>5. Cardinality(Overtaken(p)) <= Cardinality(Overtaken(p)')
      BY <3>2, <3>4, FS_Subset
    <3> QED
      BY <3>2, <3>3, <3>5
  <2>1. ASSUME pc[w] = "claim", pc'[w] = "push", p \notin dedupe, p \in dedupe',
               list'[p] = list[p], Extra(p)' = Extra(p)
        PROVE  list'[p] + Cardinality(Active(p)')
                 <= Extra(p)' + Cardinality(Overtaken(p)') + Claimed(p)'
    <3>1. Active(p)' = Active(p) \cup {w} /\ w \notin Active(p)
      BY <1>0, <2>1 DEF Active
    <3>2. Cardinality(Active(p)') = Cardinality(Active(p)) + 1
      BY <2>0, <3>1, FS_AddElement
    <3>3. CASE Resetting
      <4>1. Overtaken(p) \cup {w} \subseteq Overtaken(p)' /\ w \notin Overtaken(p)
        BY <1>0, <1>1, <1>3, <2>1, <3>3 DEF Overtaken
      <4>2. Cardinality(Overtaken(p) \cup {w}) = Cardinality(Overtaken(p)) + 1
        BY <2>0, <4>1, FS_AddElement
      <4>3. Cardinality(Overtaken(p) \cup {w}) <= Cardinality(Overtaken(p)')
        BY <2>01, <4>1, FS_Subset
      <4>4. Claimed(p) = 0
        BY <3>3 DEF Claimed
      <4> QED
        BY <2>0, <2>01, <2>1, <3>2, <4>2, <4>3, <4>4
    <3>4. CASE ~Resetting
      <4>1. Claimed(p) = 0 /\ Claimed(p)' = 1
        BY <1>0, <2>1, <3>4 DEF Claimed, Resetting
      <4> QED
        BY <2>0, <2>01, <2>1, <3>2, <4>1
    <3> QED
      BY <3>3, <3>4
  <2>2. ASSUME pc[w] = "push", pc'[w] \in {"cool", "done"}, list'[p] = list[p] + 1,
               Extra(p)' = Extra(p), dedupe' = dedupe
        PROVE  list'[p] + Cardinality(Active(p)')
                 <= Extra(p)' + Cardinality(Overtaken(p)') + Claimed(p)'
    <3>1. Active(p)' = Active(p) \ {w} /\ w \in Active(p)
      BY <1>0, <2>2 DEF Active
    <3>2. Cardinality(Active(p)') = Cardinality(Active(p)) - 1
      BY <2>0, <3>1, FS_RemoveElement
    <3>3. Claimed(p)' = Claimed(p)
      BY <1>0, <2>2 DEF Claimed, Resetting
    <3> QED
      BY <2>0, <2>01, <2>2, <3>2, <3>3
  <2>3. ASSUME pc[w] = "push", pc'[w] \in {"push", "undo"}, list'[p] = list[p] + 1,
               Extra(p)' = Extra(p) + 1, dedupe' = dedupe
        PROVE  list'[p] + Cardinality(Active(p)')
                 <= Extra(p)' + Cardinality(Overtaken(p)') + Claimed(p)'
    <3>1. Active(p)' = Active(p)
      BY <1>0, <2>3 DEF Active
    <3>3. Claimed(p)' = Claimed(p)
      BY <1>0, <2>3 DEF Claimed, Resetting
    <3> QED
      BY <2>0, <2>01, <2>3, <3>1, <3>3
  <2>4. ASSUME pc[w] = "undo", pc'[w] \in {"done", "undoAgain"}, list'[p] = list[p], Extra(p)' = Extra(p)
        PROVE  list'[p] + Cardinality(Active(p)')
                 <= Extra(p)' + Cardinality(Overtaken(p)') + Claimed(p)'
    <3>1. Active(p)' = Active(p) \ {w} /\ w \in Active(p)
      BY <1>0, <2>4 DEF Active
    <3>2. Cardinality(Active(p)') = Cardinality(Active(p)) - 1
      BY <2>0, <3>1, FS_RemoveElement
    <3> QED
      BY <2>0, <2>01, <2>4, <3>2
  <2>5. ASSUME pc'[w] \in {"push", "undo"} => pc[w] \in {"push", "undo"}, list'[p] = list[p],
               Extra(p)' = Extra(p), dedupe \subseteq dedupe'
        PROVE  list'[p] + Cardinality(Active(p)')
                 <= Extra(p)' + Cardinality(Overtaken(p)') + Claimed(p)'
    <3>1. Active(p)' \subseteq Active(p)
      BY <1>0, <2>5 DEF Active
    <3>2. Claimed(p) <= Claimed(p)'
      BY <1>0, <2>5 DEF Claimed, Resetting
    <3> QED
      BY <1>0, <1>1, <1>3, <2>5, <3>1, <3>2, Keeps
  <2>6. ASSUME pc[w] = "undoAgain", pc'[w] \in {"done", "undoAgain"}, list'[p] = list[p],
               \/ dedupe' = dedupe /\ Extra(p)' = Extra(p)
               \/ Extra(p)' = Extra(p) + 1
        PROVE  list'[p] + Cardinality(Active(p)')
                 <= Extra(p)' + Cardinality(Overtaken(p)') + Claimed(p)'
    <3>1. Active(p)' = Active(p)
      BY <1>0, <2>6 DEF Active
    <3>2. dedupe' = dedupe => Claimed(p)' = Claimed(p)
      BY <1>0 DEF Claimed, Resetting
    <3> QED
      BY <2>0, <2>01, <2>6, <3>1, <3>2
  <2> QED
    BY <1>3, <2>1, <2>2, <2>3, <2>4, <2>5, <2>6, RecordKinds
<1> QED
  BY <1>2, <1>3

(* A reset takes keys away only while no key pays for anything, and clears  *)
(* the list first.                                                          *)
LEMMA OnceInduction == TypeOK /\ TypeOK' /\ OnceInv /\ [Next]_vars => OnceInv'
<1> SUFFICES ASSUME TypeOK, TypeOK', OnceInv, [Next]_vars PROVE OnceInv'
  OBVIOUS
<1>1. ASSUME NEW w \in Writers, RecordTrade(w) PROVE OnceInv'
  BY <1>1, RecordOnce
<1>2. ASSUME UNCHANGED <<pc, payload, list, lostPush, strayDel, straddled>>,
             \A x \in Payloads : Claimed(x) <= Claimed(x)'
      PROVE  OnceInv'
  <2> SUFFICES ASSUME NEW x \in Payloads
               PROVE  list'[x] + Cardinality(Active(x)')
                        <= Extra(x)' + Cardinality(Overtaken(x)') + Claimed(x)'
    BY DEF OnceInv, Claimed, Resetting, Active, Overtaken, Extra
  <2>1. Active(x)' = Active(x) /\ Overtaken(x)' = Overtaken(x) /\ Extra(x)' = Extra(x)
    BY <1>2 DEF Active, Overtaken, Extra
  <2> QED
    BY <1>2, <2>1, Keeps
<1>3. CASE PassTime \/ Midnight \/ ClearReport \/ (\E s \in Sellers : NotifyTradeSaved(s)) \/ UNCHANGED vars
  <2>1. UNCHANGED <<pc, payload, list, lostPush, strayDel, straddled, dedupe>> /\ Resetting' = Resetting
    BY <1>3 DEF PassTime, Midnight, ClearReport, NotifyTradeSaved, vars, store, Resetting
  <2>2. \A x \in Payloads : Claimed(x) <= Claimed(x)'
    BY <2>1 DEF Claimed
  <2> QED
    BY <1>2, <2>1, <2>2
<1>4. CASE ResetDailyStats \/ ResetStops \/ \E x \in Payloads : ClearDedupe(x)
  <2>1. UNCHANGED <<pc, payload, list, lostPush, strayDel, straddled>> /\ Resetting
    BY <1>4 DEF ResetDailyStats, ResetStops, ClearDedupe, Resetting
  <2>2. \A x \in Payloads : Claimed(x) <= Claimed(x)'
    BY <2>1 DEF Claimed
  <2> QED
    BY <1>2, <2>1, <2>2
<1>5. CASE ClearTrades
  <2> SUFFICES ASSUME NEW x \in Payloads
               PROVE  list'[x] + Cardinality(Active(x)')
                        <= Extra(x)' + Cardinality(Overtaken(x)') + Claimed(x)'
    BY DEF OnceInv, Claimed, Resetting, Active, Overtaken, Extra
  <2>1. /\ list'[x] = 0 /\ lostPush' = lostPush /\ strayDel' = strayDel
        /\ pc' = pc /\ payload' = payload
        /\ straddled' = straddled
             \cup {w \in Writers : pc[w] \in {"push", "undo", "undoAgain", "cool", "loss"}}
    BY <1>5 DEF ClearTrades
  <2>2. Active(x)' \subseteq Overtaken(x)' /\ Overtaken(x)' \subseteq Writers
    BY <2>1 DEF Active, Overtaken, TypeOK
  <2>3. IsFiniteSet(Overtaken(x)')
    BY <2>2, FS_Subset, StoreAssumption
  <2>4. IsFiniteSet(Active(x)') /\ Cardinality(Active(x)') <= Cardinality(Overtaken(x)')
    BY <2>2, <2>3, FS_Subset
  <2>5. /\ Cardinality(Active(x)') \in Nat /\ Cardinality(Overtaken(x)') \in Nat
        /\ Extra(x)' \in Nat /\ Claimed(x)' \in Nat
    BY <2>3, <2>4, FS_CardinalityType DEF TypeOK, StoreTypeOK, Claimed, Extra
  <2> QED
    BY <2>1, <2>4, <2>5
<1> QED
  BY <1>1, <1>3, <1>4, <1>5 DEF Next, Reset

-----------------------------------------------------------------------------
(* A losing trade leaves the way to the blacklist at a fault only.          *)
LEMMA CoolInduction == TypeOK /\ TypeOK' /\ CoolInv /\ [Next]_vars => CoolInv'
<1> SUFFICES ASSUME TypeOK, TypeOK', CoolInv, [Next]_vars PROVE CoolInv'
  OBVIOUS
<1>0. /\ IsFiniteSet(Escaped) /\ Cardinality(Escaped) <= faults /\ Cardinality(Escaped) \in Nat
      /\ faults \in Nat /\ faults' \in Nat
      /\ pc \in [Writers -> {"claim", "push", "undo", "undoAgain", "cool", "loss", "done", "dead"}]
      /\ list \in [Payloads -> Nat]
      /\ \A v \in Writers : payload[v] \in Payloads
  BY FS_CardinalityType, StoreAssumption DEF CoolInv, TypeOK, StoreTypeOK
<1>1. ASSUME Escaped' \subseteq Escaped, faults <= faults' PROVE CoolInv'
  <2>1. IsFiniteSet(Escaped') /\ Cardinality(Escaped') <= Cardinality(Escaped)
    BY <1>0, <1>1, FS_Subset
  <2>2. Cardinality(Escaped') \in Nat
    BY <2>1, FS_CardinalityType
  <2> QED
    BY <1>0, <1>1, <2>1, <2>2 DEF CoolInv
<1>2. ASSUME NEW p, Escaped' \subseteq Escaped \cup {p}, faults' = faults + 1 PROVE CoolInv'
  <2>1. /\ IsFiniteSet(Escaped \cup {p})
        /\ Cardinality(Escaped \cup {p}) <= Cardinality(Escaped) + 1
    <3>1. /\ IsFiniteSet(Escaped \cup {p})
          /\ Cardinality(Escaped \cup {p}) =
               IF p \in Escaped THEN Cardinality(Escaped) ELSE Cardinality(Escaped) + 1
      BY <1>0, FS_AddElement
    <3>2. CASE p \in Escaped
      BY <1>0, <3>1, <3>2
    <3>3. CASE p \notin Escaped
      BY <1>0, <3>1, <3>3
    <3> QED
      BY <3>2, <3>3
  <2>2. IsFiniteSet(Escaped') /\ Cardinality(Escaped') <= Cardinality(Escaped \cup {p})
    BY <1>2, <2>1, FS_Subset
  <2>3. Cardinality(Escaped') \in Nat /\ Cardinality(Escaped \cup {p}) \in Nat
    BY <2>1, <2>2, FS_CardinalityType
  <2> QED
    BY <1>0, <1>2, <2>1, <2>2, <2>3 DEF CoolInv
<1>3. ASSUME NEW w \in Writers, RecordTrade(w) PROVE CoolInv'
  <2> DEFINE p == payload[w]
  <2>0. p \in Payloads /\ payload' = payload /\ Record(w) /\ \A v \in Writers \ {w} : pc'[v] = pc[v]
    BY <1>0, <1>3, RecordKinds DEF RecordTrade
  <2>1. CASE Push(w)
    <3>1. /\ cooldown' = cooldown /\ faults' = faults /\ list' = [list EXCEPT ![p] = @ + 1]
          /\ pc' = [pc EXCEPT ![w] = IF p \in Losing THEN "cool" ELSE "done"] /\ pc[w] = "push"
      BY <2>1 DEF Push, Goto
    <3>2. \A x \in Payloads \ {p} : list'[x] = list[x]
      BY <1>0, <3>1
    <3>3. \A v \in Cooling : v \in Cooling'
      BY <1>0, <2>0, <3>1 DEF Cooling
    <3>4. p \in Losing => w \in Cooling'
      BY <1>0, <3>1 DEF Cooling
    <3>5. Escaped' \subseteq Escaped
      BY <2>0, <3>1, <3>2, <3>3, <3>4, StoreAssumption DEF Escaped, Missing
    <3> QED
      BY <1>0, <1>1, <3>1, <3>5
  <2>2. CASE PushAgain(w) \/ PushFails(w)
    <3>1. /\ cooldown' = cooldown /\ faults' = faults + 1
          /\ list' \in {list, [list EXCEPT ![p] = list[p] + 1]}
          /\ pc[w] = "push" /\ pc'[w] \in {"push", "undo"}
      BY <1>0, <2>2 DEF PushAgain, PushFails, Goto, Fault
    <3>2. \A x \in Payloads \ {p} : list'[x] = list[x]
      BY <1>0, <3>1
    <3>3. Cooling' = Cooling
      BY <1>0, <2>0, <3>1 DEF Cooling
    <3>4. Escaped' \subseteq Escaped \cup {p}
      BY <2>0, <3>1, <3>2, <3>3, StoreAssumption DEF Escaped, Missing
    <3> QED
      BY <1>2, <3>1, <3>4
  <2>3. CASE SetCooldown(w)
    <3>1. /\ list' = list /\ pc[w] = "cool" /\ pc'[w] = "loss"
          /\ \/ cooldown' = cooldown \cup {p} /\ faults' = faults
             \/ cooldown' = cooldown /\ faults' = faults + 1
      BY <1>0, <2>3 DEF SetCooldown, Goto, Fault
    <3>2. Cooling' = Cooling \ {w}
      BY <1>0, <2>0, <3>1 DEF Cooling
    <3>3. Escaped' \subseteq Escaped \cup {p}
      BY <2>0, <3>1, <3>2 DEF Escaped, Missing
    <3>4. cooldown' = cooldown \cup {p} => p \notin Escaped'
      BY DEF Escaped, Missing
    <3> QED
      BY <1>0, <1>1, <1>2, <3>1, <3>3, <3>4
  <2>4. CASE Crash(w)
    <3>1. list' = list /\ cooldown' = cooldown /\ pc'[w] = "dead" /\ faults' = faults + 1
      BY <1>0, <2>4 DEF Crash, Goto, Fault
    <3>2. Cooling' = Cooling \ {w}
      BY <1>0, <2>0, <3>1 DEF Cooling
    <3>3. Escaped' \subseteq Escaped \cup {p}
      BY <2>0, <3>1, <3>2 DEF Escaped, Missing
    <3> QED
      BY <1>2, <3>1, <3>3
  <2>5. CASE \/ Claim(w) \/ ClaimAgain(w) \/ ClaimFails(w) \/ Undo(w)
             \/ UpdateDailyLoss(w) \/ AddLossAgain(w)
    <3>1. list' = list /\ cooldown' = cooldown /\ pc[w] # "cool" /\ pc'[w] # "cool" /\ faults <= faults'
      BY <1>0, <2>5 DEF Claim, ClaimAgain, ClaimFails, Undo, UpdateDailyLoss, AddLossAgain, Goto, Fault
    <3>2. Cooling' = Cooling
      BY <1>0, <2>0, <3>1 DEF Cooling
    <3>3. Escaped' \subseteq Escaped
      BY <2>0, <3>1, <3>2 DEF Escaped, Missing
    <3> QED
      BY <1>1, <3>1, <3>3
  <2> QED
    BY <2>0, <2>1, <2>2, <2>3, <2>4, <2>5 DEF Record, SaveTrade
<1>4. CASE ClearTrades
  <2>1. \A x \in Losing : ~(list'[x] > 0)
    BY <1>4, StoreAssumption DEF ClearTrades
  <2>2. Escaped' = {}
    BY <2>1 DEF Escaped, Missing
  <2> QED
    BY <1>0, <1>1, <1>4, <2>2 DEF ClearTrades
<1>5. CASE \/ PassTime \/ Midnight \/ ClearReport \/ (\E s \in Sellers : NotifyTradeSaved(s)) \/ UNCHANGED vars
           \/ ResetDailyStats \/ ResetStops \/ \E x \in Payloads : ClearDedupe(x)
  <2>1. UNCHANGED <<list, cooldown, pc, payload>> /\ faults <= faults'
    BY <1>0, <1>5 DEF PassTime, Midnight, ClearReport, NotifyTradeSaved, vars, store, ResetDailyStats,
       ResetStops, ClearDedupe, Fault
  <2>2. Escaped' = Escaped
    BY <2>1 DEF Escaped, Missing, Cooling
  <2> QED
    BY <1>1, <2>1, <2>2
<1> QED
  BY <1>3, <1>4, <1>5 DEF Next, Reset

-----------------------------------------------------------------------------
(* The cardinality of a set that gains or loses an element.                 *)
LEMMA Around ==
  ASSUME NEW S, IsFiniteSet(S), NEW e
  PROVE  /\ Cardinality(S) \in Nat /\ Cardinality(S \cup {e}) \in Nat /\ Cardinality(S \ {e}) \in Nat
         /\ IsFiniteSet(S \cup {e}) /\ IsFiniteSet(S \ {e})
         /\ e \notin S => Cardinality(S \cup {e}) = Cardinality(S) + 1
         /\ e \in S => Cardinality(S \ {e}) = Cardinality(S) - 1
         /\ Cardinality(S) <= Cardinality(S \cup {e}) /\ Cardinality(S \cup {e}) <= Cardinality(S) + 1
         /\ Cardinality(S \ {e}) <= Cardinality(S) /\ Cardinality(S) <= Cardinality(S \ {e}) + 1
<1>1. IsFiniteSet(S \cup {e}) /\ IsFiniteSet(S \ {e})
  BY FS_AddElement, FS_RemoveElement
<1>2. /\ Cardinality(S) \in Nat /\ Cardinality(S \cup {e}) \in Nat /\ Cardinality(S \ {e}) \in Nat
  BY <1>1, FS_CardinalityType
<1>3. CASE e \in S
  <2>1. S \cup {e} = S
    BY <1>3
  <2>2. Cardinality(S \cup {e}) = Cardinality(S) /\ Cardinality(S \ {e}) = Cardinality(S) - 1
    BY <1>3, <2>1, FS_RemoveElement
  <2> QED
    BY <1>1, <1>2, <1>3, <2>2
<1>4. CASE e \notin S
  <2>1. S \ {e} = S
    BY <1>4
  <2>2. Cardinality(S \ {e}) = Cardinality(S) /\ Cardinality(S \cup {e}) = Cardinality(S) + 1
    BY <1>4, <2>1, FS_AddElement
  <2> QED
    BY <1>1, <1>2, <1>4, <2>2
<1> QED
  BY <1>3, <1>4

(* An append adds one entry of its payload.                                 *)
LEMMA OneEntryMore ==
  ASSUME TypeOK, NEW p \in Payloads, list'[p] = list[p] + 1, IsFiniteSet(Stored(Losing)),
         \A x \in Payloads \ {p} : list'[x] = list[x]
  PROVE  /\ IsFiniteSet(Stored(Losing)') /\ Entries(Losing) \in Nat /\ Entries(Losing)' \in Nat
         /\ p \in Losing => Entries(Losing)' = Entries(Losing) + 1
         /\ p \notin Losing => Entries(Losing)' = Entries(Losing)
<1>0. list[p] \in Nat
  BY DEF TypeOK, StoreTypeOK
<1>1. \A x \in Losing \ {p} : list'[x] = list[x]
  BY StoreAssumption
<1>2. CASE p \in Losing
  <2> DEFINE e == <<p, list[p] + 1>>
  <2>1. 1..list'[p] = (1..list[p]) \cup {list[p] + 1}
    BY <1>0
  <2>2. {p} \X (1..list'[p]) = ({p} \X (1..list[p])) \cup {e}
    BY <2>1
  <2>3. Stored(Losing)' = Stored(Losing) \cup {e}
    <3>1. \A t : t \in Stored(Losing)' <=> \E x \in Losing : t \in {x} \X (1..list'[x])
      BY DEF Stored
    <3>2. \A t : t \in Stored(Losing) <=> \E x \in Losing : t \in {x} \X (1..list[x])
      BY DEF Stored
    <3>3. \A x \in Losing \ {p} : {x} \X (1..list'[x]) = {x} \X (1..list[x])
      BY <1>1
    <3> HIDE DEF e
    <3> QED
      BY <1>2, <2>2, <3>1, <3>2, <3>3
  <2>4. e \notin Stored(Losing)
    <3> SUFFICES ASSUME NEW x \in Losing, e \in {x} \X (1..list[x]) PROVE FALSE
      BY DEF Stored
    <3> QED
      BY <1>0
  <2> HIDE DEF e
  <2>5. Cardinality(Stored(Losing) \cup {e}) = Cardinality(Stored(Losing)) + 1
    BY <2>4, Around
  <2> QED
    BY <1>2, <2>3, <2>5, Around DEF Entries
<1>3. CASE p \notin Losing
  <2>1. Stored(Losing)' = Stored(Losing)
    BY <1>1, <1>3 DEF Stored
  <2> QED
    BY <1>3, <2>1, FS_CardinalityType DEF Entries
<1> QED
  BY <1>2, <1>3

(* What a step of a record does to the balance between the list, the day    *)
(* and the sellers that are counting.                                       *)
LEMMA RecordMoves ==
  ASSUME TypeOK, NEW w \in Writers, RecordTrade(w)
  PROVE  LET p == payload[w]
         IN  /\ payload' = payload /\ reset' = reset /\ UNCHANGED days
             /\ straddled' = IF Resetting THEN straddled \cup {w} ELSE straddled
             /\ \A v \in Writers \ {w} : pc'[v] = pc[v]
             /\ \A x \in Payloads \ {p} : list'[x] = list[x]
             /\ \/ /\ pc[w] = "push" /\ list'[p] = list[p] + 1
                   /\ pc'[w] = IF p \in Losing THEN "cool" ELSE "done"
                   /\ dailyLoss' = dailyLoss /\ faults' = faults
                \/ /\ pc[w] = "push" /\ (list' = list \/ list'[p] = list[p] + 1)
                   /\ pc'[w] \in {"push", "undo"}
                   /\ dailyLoss' = dailyLoss /\ faults' = faults + 1
                \/ /\ list' = list /\ dailyLoss' = dailyLoss /\ faults' \in {faults, faults + 1}
                   /\ \/ pc[w] = "claim" /\ pc'[w] \in {"claim", "push", "done"}
                      \/ pc[w] \in {"undo", "undoAgain"} /\ pc'[w] \in {"done", "undoAgain"}
                      \/ pc[w] = "cool" /\ pc'[w] = "loss"
                \/ /\ list' = list /\ pc[w] = "loss" /\ pc'[w] = "done"
                   /\ \/ dailyLoss' = dailyLoss + 1 /\ faults' = faults
                      \/ dailyLoss' = dailyLoss /\ faults' = faults + 1
                \/ /\ list' = list /\ pc[w] = "loss" /\ pc'[w] = "loss"
                   /\ dailyLoss' = dailyLoss + 1 /\ faults' = faults + 1
                \/ /\ list' = list /\ dailyLoss' = dailyLoss /\ faults' = faults + 1
                   /\ pc[w] \notin {"done", "dead"} /\ pc'[w] = "dead"
<1> DEFINE p == payload[w]
<1>0. /\ pc \in [Writers -> {"claim", "push", "undo", "undoAgain", "cool", "loss", "done", "dead"}]
      /\ list \in [Payloads -> Nat] /\ p \in Payloads
      /\ Record(w) /\ reset' = reset /\ UNCHANGED days
      /\ straddled' = IF Resetting THEN straddled \cup {w} ELSE straddled
  BY DEF TypeOK, StoreTypeOK, RecordTrade
<1>1. /\ payload' = payload /\ \A v \in Writers \ {w} : pc'[v] = pc[v]
      /\ \A x \in Payloads \ {p} : list'[x] = list[x]
  BY RecordKinds
<1>2. CASE Push(w)
  <2>1. /\ pc[w] = "push" /\ list'[p] = list[p] + 1
        /\ pc'[w] = IF p \in Losing THEN "cool" ELSE "done"
        /\ dailyLoss' = dailyLoss /\ faults' = faults
    BY <1>0, <1>2 DEF Push, Goto
  <2> QED
    BY <1>0, <1>1, <2>1
<1>3. CASE PushAgain(w) \/ PushFails(w)
  <2>1. /\ pc[w] = "push" /\ (list' = list \/ list'[p] = list[p] + 1)
        /\ pc'[w] \in {"push", "undo"} /\ dailyLoss' = dailyLoss /\ faults' = faults + 1
    BY <1>0, <1>3 DEF PushAgain, PushFails, Goto, Fault
  <2> QED
    BY <1>0, <1>1, <2>1
<1>4. CASE Claim(w) \/ ClaimAgain(w) \/ ClaimFails(w) \/ Undo(w) \/ SetCooldown(w)
  <2>1. /\ list' = list /\ dailyLoss' = dailyLoss /\ faults' \in {faults, faults + 1}
        /\ \/ pc[w] = "claim" /\ pc'[w] \in {"claim", "push", "done"}
           \/ pc[w] \in {"undo", "undoAgain"} /\ pc'[w] \in {"done", "undoAgain"}
           \/ pc[w] = "cool" /\ pc'[w] = "loss"
    BY <1>0, <1>4 DEF Claim, ClaimAgain, ClaimFails, Undo, SetCooldown, Goto, Fault
  <2> QED
    BY <1>0, <1>1, <2>1
<1>5. CASE UpdateDailyLoss(w)
  <2>1. /\ list' = list /\ pc[w] = "loss" /\ pc'[w] = "done"
        /\ \/ dailyLoss' = dailyLoss + 1 /\ faults' = faults
           \/ dailyLoss' = dailyLoss /\ faults' = faults + 1
    BY <1>0, <1>5 DEF UpdateDailyLoss, Goto, Fault
  <2> QED
    BY <1>0, <1>1, <2>1
<1>6. CASE AddLossAgain(w)
  <2>1. /\ list' = list /\ pc[w] = "loss" /\ pc'[w] = "loss"
        /\ dailyLoss' = dailyLoss + 1 /\ faults' = faults + 1
    BY <1>0, <1>6 DEF AddLossAgain, Fault
  <2> QED
    BY <1>0, <1>1, <2>1
<1>7. CASE Crash(w)
  <2>1. /\ list' = list /\ dailyLoss' = dailyLoss /\ faults' = faults + 1
        /\ pc[w] \notin {"done", "dead"} /\ pc'[w] = "dead"
    BY <1>0, <1>7 DEF Crash, Goto, Fault
  <2> QED
    BY <1>0, <1>1, <2>1
<1> QED
  BY <1>0, <1>2, <1>3, <1>4, <1>5, <1>6, <1>7 DEF Record, SaveTrade

(* The sellers that may spoil the balance.                                  *)
Exempt == straddled \cup overnight

(* The counts of the balance.                                               *)
LEMMA Counts ==
  ASSUME TypeOK, IsFiniteSet(Stored(Losing))
  PROVE  /\ IsFiniteSet(Counting) /\ Cardinality(Counting) \in Nat
         /\ IsFiniteSet(Waiting) /\ Cardinality(Waiting) \in Nat
         /\ IsFiniteSet(straddled) /\ Cardinality(straddled) \in Nat
         /\ Cardinality(Waiting) <= Cardinality(straddled)
         /\ IsFiniteSet(Exempt) /\ Cardinality(Exempt) \in Nat
         /\ Cardinality(straddled) <= Cardinality(Exempt)
         /\ Entries(Losing) \in Nat /\ dailyLoss \in Nat /\ faults \in Nat /\ older \in Nat
<1>1. /\ Counting \subseteq Writers /\ straddled \subseteq Writers /\ Waiting \subseteq straddled
      /\ Exempt \subseteq Writers /\ straddled \subseteq Exempt
  BY DEF Counting, Waiting, Exempt, TypeOK
<1>2. dailyLoss \in Nat /\ faults \in Nat /\ older \in Nat
  BY StoreAssumption DEF TypeOK, StoreTypeOK
<1> QED
  BY <1>1, <1>2, FS_Subset, FS_CardinalityType, StoreAssumption DEF Entries

(* The balance, when no reset runs: what is not yet counted is being        *)
(* counted, and every other difference is a fault or a seller that a reset  *)
(* or a midnight overtook.                                                  *)
Balanced ==
  LET drift == faults + Cardinality(Exempt)
  IN  (Entries(Losing) - older) - dailyLoss - Cardinality(Counting) \in -drift..drift

(* Recording a trade keeps the balance.                                     *)
LEMMA RecordBalance ==
  ASSUME TypeOK, TypeOK', IsFiniteSet(Stored(Losing)), NEW w \in Writers, RecordTrade(w),
         Balanced, ~Resetting
  PROVE  Balanced' /\ IsFiniteSet(Stored(Losing)')
<1> DEFINE p == payload[w]
<1>0. /\ p \in Payloads /\ Exempt' = Exempt /\ older' = older /\ \A v \in Writers \ {w} : pc'[v] = pc[v]
      /\ \A x \in Payloads \ {p} : list'[x] = list[x]
  BY RecordMoves DEF TypeOK, StoreTypeOK, Exempt, days
<1>1. /\ Entries(Losing) \in Nat /\ dailyLoss \in Nat /\ faults \in Nat
      /\ IsFiniteSet(Counting) /\ Cardinality(Counting) \in Nat /\ Cardinality(Exempt) \in Nat
      /\ older \in Nat
  BY Counts
<1>2. /\ (Entries(Losing) - older) - dailyLoss - Cardinality(Counting) <= faults + Cardinality(Exempt)
      /\ -(faults + Cardinality(Exempt)) <= (Entries(Losing) - older) - dailyLoss - Cardinality(Counting)
  BY <1>1 DEF Balanced
<1>3. ASSUME Entries(Losing)' \in Nat, dailyLoss' \in Nat, faults' \in Nat, Cardinality(Counting)' \in Nat,
             (Entries(Losing)' - older) - dailyLoss' - Cardinality(Counting)'
               <= ((Entries(Losing) - older) - dailyLoss - Cardinality(Counting)) + (faults' - faults),
             (Entries(Losing) - older) - dailyLoss - Cardinality(Counting)
               <= ((Entries(Losing)' - older) - dailyLoss' - Cardinality(Counting)') + (faults' - faults)
      PROVE  Balanced'
  BY <1>0, <1>1, <1>2, <1>3 DEF Balanced
<1>4. pc[w] \in {"cool", "loss"} /\ pc'[w] \in {"cool", "loss"} => Counting' = Counting
  BY <1>0 DEF Counting
<1>5. pc[w] \notin {"cool", "loss"} /\ pc'[w] \notin {"cool", "loss"} => Counting' = Counting
  BY <1>0 DEF Counting
<1>6. pc[w] \in {"cool", "loss"} /\ pc'[w] \notin {"cool", "loss"} =>
        Counting' = Counting \ {w} /\ w \in Counting
  BY <1>0 DEF Counting
<1>7. pc[w] \notin {"cool", "loss"} /\ pc'[w] \in {"cool", "loss"} =>
        Counting' = Counting \cup {w} /\ w \notin Counting
  BY <1>0 DEF Counting
<1>8. list' = list => Stored(Losing)' = Stored(Losing) /\ Entries(Losing)' = Entries(Losing)
  BY DEF Stored, Entries
<1>9. CASE /\ pc[w] = "push" /\ list'[p] = list[p] + 1
           /\ pc'[w] = IF p \in Losing THEN "cool" ELSE "done"
           /\ dailyLoss' = dailyLoss /\ faults' = faults
  <2>1. CASE p \in Losing
    <3>1. Entries(Losing)' = Entries(Losing) + 1 /\ IsFiniteSet(Stored(Losing)')
      BY <1>0, <1>9, <2>1, OneEntryMore
    <3>2. Cardinality(Counting') = Cardinality(Counting) + 1
      BY <1>1, <1>7, <1>9, <2>1, Around
    <3> QED
      BY <1>1, <1>3, <1>9, <3>1, <3>2
  <2>2. CASE p \notin Losing
    <3>1. Entries(Losing)' = Entries(Losing) /\ IsFiniteSet(Stored(Losing)')
      BY <1>0, <1>9, <2>2, OneEntryMore
    <3>2. Counting' = Counting
      BY <1>5, <1>9, <2>2
    <3> QED
      BY <1>1, <1>3, <1>9, <3>1, <3>2
  <2> QED
    BY <2>1, <2>2
<1>10. CASE /\ pc[w] = "push" /\ (list' = list \/ list'[p] = list[p] + 1)
            /\ pc'[w] \in {"push", "undo"}
            /\ dailyLoss' = dailyLoss /\ faults' = faults + 1
  <2>1. Counting' = Counting
    BY <1>5, <1>10
  <2>2. Entries(Losing)' \in {Entries(Losing), Entries(Losing) + 1} /\ IsFiniteSet(Stored(Losing)')
    BY <1>0, <1>8, <1>10, OneEntryMore
  <2> QED
    BY <1>1, <1>3, <1>10, <2>1, <2>2
<1>11. CASE /\ list' = list /\ dailyLoss' = dailyLoss /\ faults' \in {faults, faults + 1}
            /\ \/ pc[w] = "claim" /\ pc'[w] \in {"claim", "push", "done"}
               \/ pc[w] \in {"undo", "undoAgain"} /\ pc'[w] \in {"done", "undoAgain"}
               \/ pc[w] = "cool" /\ pc'[w] = "loss"
  <2>1. Counting' = Counting
    BY <1>4, <1>5, <1>11
  <2> QED
    BY <1>1, <1>3, <1>8, <1>11, <2>1
<1>12. CASE /\ list' = list /\ pc[w] = "loss" /\ pc'[w] = "done"
            /\ \/ dailyLoss' = dailyLoss + 1 /\ faults' = faults
               \/ dailyLoss' = dailyLoss /\ faults' = faults + 1
  <2>1. Cardinality(Counting') = Cardinality(Counting) - 1 /\ Cardinality(Counting') \in Nat
    BY <1>1, <1>6, <1>12, Around
  <2> QED
    BY <1>1, <1>3, <1>8, <1>12, <2>1
<1>13. CASE /\ list' = list /\ pc[w] = "loss" /\ pc'[w] = "loss"
            /\ dailyLoss' = dailyLoss + 1 /\ faults' = faults + 1
  BY <1>1, <1>3, <1>4, <1>8, <1>13
<1>14. CASE /\ list' = list /\ dailyLoss' = dailyLoss /\ faults' = faults + 1
            /\ pc[w] \notin {"done", "dead"} /\ pc'[w] = "dead"
  <2>1. /\ Cardinality(Counting') \in Nat /\ Cardinality(Counting') <= Cardinality(Counting)
        /\ Cardinality(Counting) <= Cardinality(Counting') + 1
    BY <1>1, <1>5, <1>6, <1>14, Around
  <2> QED
    BY <1>1, <1>3, <1>8, <1>14, <2>1
<1> QED
  BY <1>9, <1>10, <1>11, <1>12, <1>13, <1>14, RecordMoves

(* While a reset runs: a seller that stores has been overtaken.             *)
Overtook ==
  /\ Entries(Losing) + Cardinality(Waiting) <= Cardinality(straddled) + faults
  /\ \A w \in Writers \ straddled : pc[w] \in {"claim", "done", "dead"}

(* Recording a trade keeps that, while the reset goes on.                   *)
LEMMA RecordOvertaken ==
  ASSUME TypeOK, TypeOK', IsFiniteSet(Stored(Losing)), NEW w \in Writers, RecordTrade(w),
         Overtook, Resetting
  PROVE  Overtook' /\ IsFiniteSet(Stored(Losing)')
<1> DEFINE p == payload[w]
<1>0. /\ p \in Payloads /\ straddled' = straddled \cup {w} /\ \A v \in Writers \ {w} : pc'[v] = pc[v]
      /\ \A v \in Writers \ straddled : pc[v] \in {"claim", "done", "dead"}
      /\ \A x \in Payloads \ {p} : list'[x] = list[x]
  BY RecordMoves DEF TypeOK, StoreTypeOK, Overtook
<1>1. /\ Entries(Losing) \in Nat /\ faults \in Nat /\ IsFiniteSet(Waiting) /\ Cardinality(Waiting) \in Nat
      /\ IsFiniteSet(straddled) /\ Cardinality(straddled) \in Nat
      /\ Entries(Losing) + Cardinality(Waiting) <= Cardinality(straddled) + faults
  BY Counts DEF Overtook
<1>2. /\ Cardinality(straddled') \in Nat /\ Cardinality(straddled) <= Cardinality(straddled')
      /\ w \notin straddled => Cardinality(straddled') = Cardinality(straddled) + 1
  BY <1>0, <1>1, Around
<1>3. Waiting' \ {w} \subseteq Waiting
  BY <1>0 DEF Waiting, TypeOK
<1>4. /\ Waiting' = Waiting \cup {w} \/ Waiting' = Waiting \ {w}
      /\ pc'[w] \notin {"claim", "push"} => Waiting' = Waiting \ {w}
  BY <1>0 DEF Waiting, TypeOK
<1>5. \A v \in Writers \ straddled' : pc'[v] \in {"claim", "done", "dead"}
  BY <1>0
<1>6. list' = list => Stored(Losing)' = Stored(Losing) /\ Entries(Losing)' = Entries(Losing)
  BY DEF Stored, Entries
<1>7. w \notin straddled => w \notin Waiting
  BY DEF Waiting
<1>8. Cardinality(Waiting') \in Nat /\ Cardinality(Waiting') <= Cardinality(Waiting) + 1
  BY <1>1, <1>4, Around
<1>9. CASE pc[w] = "push"
  <2>1. w \in straddled /\ w \in Waiting
    BY <1>0, <1>9 DEF Waiting
  <2>2. straddled' = straddled
    BY <1>0, <2>1
  <2>3. Waiting' = Waiting \/ Waiting' = Waiting \ {w}
    BY <1>4, <2>1
  <2>4. /\ Cardinality(Waiting \ {w}) = Cardinality(Waiting) - 1
        /\ Cardinality(Waiting \ {w}) \in Nat
    BY <1>1, <2>1, Around
  <2>5. /\ IsFiniteSet(Stored(Losing)')
        /\ \/ pc'[w] \in {"cool", "done"} /\ Entries(Losing)' \in {Entries(Losing), Entries(Losing) + 1} /\ faults' = faults
           \/ Entries(Losing)' \in {Entries(Losing), Entries(Losing) + 1} /\ faults' = faults + 1
    <3>1. \/ /\ list'[p] = list[p] + 1
             /\ pc'[w] \in {"cool", "done"} /\ faults' = faults
          \/ (list' = list \/ list'[p] = list[p] + 1) /\ faults' = faults + 1
      BY <1>9, RecordMoves
    <3>2. list'[p] = list[p] + 1 =>
            IsFiniteSet(Stored(Losing)') /\ Entries(Losing)' \in {Entries(Losing), Entries(Losing) + 1}
      BY <1>0, OneEntryMore
    <3> QED
      BY <1>6, <3>1, <3>2
  <2>6. Entries(Losing)' + Cardinality(Waiting') <= Cardinality(straddled') + faults'
    <3>1. CASE pc'[w] \in {"cool", "done"} /\ faults' = faults
      BY <1>1, <1>4, <2>2, <2>4, <2>5, <3>1
    <3>2. CASE faults' = faults + 1
      BY <1>1, <2>2, <2>3, <2>4, <2>5, <3>2
    <3> QED
      BY <2>5, <3>1, <3>2
  <2> QED
    BY <1>5, <2>5, <2>6 DEF Overtook
<1>10. CASE pc[w] # "push"
  <2>1. list' = list /\ faults' \in {faults, faults + 1}
    BY <1>10, RecordMoves
  <2>2. Entries(Losing)' = Entries(Losing) /\ IsFiniteSet(Stored(Losing)')
    BY <1>6, <2>1
  <2>3. CASE w \notin straddled
    <3>1. Entries(Losing)' + Cardinality(Waiting') <= Cardinality(straddled') + faults'
      BY <1>1, <1>2, <1>8, <2>1, <2>2, <2>3
    <3> QED
      BY <1>5, <2>2, <3>1 DEF Overtook
  <2>4. CASE w \in straddled
    <3>1. straddled' = straddled
      BY <1>0, <2>4
    <3>2. pc[w] # "claim" => pc'[w] \notin {"claim", "push"}
      BY <1>10, RecordMoves
    <3>3. Waiting' \subseteq Waiting
      BY <1>0, <1>3, <2>4, <3>1, <3>2 DEF Waiting
    <3>4. Cardinality(Waiting') <= Cardinality(Waiting)
      BY <1>1, <3>3, FS_Subset
    <3>5. Entries(Losing)' + Cardinality(Waiting') <= Cardinality(straddled') + faults'
      BY <1>1, <1>8, <2>1, <2>2, <3>1, <3>4
    <3> QED
      BY <1>5, <2>2, <3>5 DEF Overtook
  <2> QED
    BY <2>3, <2>4
<1> QED
  BY <1>9, <1>10

(* Recording a trade keeps the list finite, and takes nothing from it.      *)
LEMMA RecordFinite ==
  ASSUME TypeOK, IsFiniteSet(Stored(Losing)), NEW w \in Writers, RecordTrade(w)
  PROVE  IsFiniteSet(Stored(Losing)') /\ Entries(Losing) <= Entries(Losing)'
<1> DEFINE p == payload[w]
<1>1. /\ p \in Payloads /\ \A x \in Payloads \ {p} : list'[x] = list[x]
      /\ list' = list \/ list'[p] = list[p] + 1
  BY RecordMoves DEF TypeOK, StoreTypeOK
<1>2. list' = list => Stored(Losing)' = Stored(Losing) /\ Entries(Losing)' = Entries(Losing)
  BY DEF Stored, Entries
<1>3. Entries(Losing) \in Nat
  BY FS_CardinalityType DEF Entries
<1> QED
  BY <1>1, <1>2, <1>3, OneEntryMore

(* The reset begins with an empty list and the sellers that are about to    *)
(* append, and ends with no losses of the day.                              *)
LEMMA DriftInduction == TypeOK /\ TypeOK' /\ DriftInv /\ [Next]_vars => DriftInv'
<1> SUFFICES ASSUME TypeOK, TypeOK', DriftInv, [Next]_vars PROVE DriftInv'
  OBVIOUS
<1>0. /\ IsFiniteSet(Stored(Losing)) /\ older <= Entries(Losing)
      /\ reset \in {"none", "over"} => Balanced
      /\ Resetting => Overtook
  BY DEF DriftInv, RecordsDrift, Balanced, Overtook, Exempt
<1>1. SUFFICES /\ IsFiniteSet(Stored(Losing)') /\ older' <= Entries(Losing)'
               /\ reset' \in {"none", "over"} => Balanced'
               /\ Resetting' => Overtook'
  BY <1>1 DEF DriftInv, RecordsDrift, Balanced, Overtook, Exempt
<1>2. /\ Entries(Losing) \in Nat /\ dailyLoss \in Nat /\ faults \in Nat
      /\ IsFiniteSet(Counting) /\ Cardinality(Counting) \in Nat
      /\ IsFiniteSet(straddled) /\ Cardinality(straddled) \in Nat
      /\ Cardinality(Waiting) \in Nat /\ Cardinality(Waiting) <= Cardinality(straddled)
      /\ IsFiniteSet(Exempt) /\ Cardinality(Exempt) \in Nat
      /\ Cardinality(straddled) <= Cardinality(Exempt) /\ older \in Nat
  BY <1>0, Counts
<1>3. ASSUME UNCHANGED <<list, pc, dailyLoss, faults, straddled, days>>
      PROVE  /\ Stored(Losing)' = Stored(Losing) /\ Balanced' = Balanced /\ Overtook' = Overtook
             /\ Entries(Losing)' = Entries(Losing) /\ older' = older
  BY <1>3 DEF Stored, Entries, Balanced, Overtook, Counting, Waiting, Exempt, days
<1>4. ASSUME NEW w \in Writers, RecordTrade(w)
      PROVE  /\ IsFiniteSet(Stored(Losing)') /\ older' <= Entries(Losing)'
             /\ reset' \in {"none", "over"} => Balanced'
             /\ Resetting' => Overtook'
  <2>1. reset' = reset /\ (Resetting' <=> Resetting)
    BY <1>4, RecordMoves DEF Resetting
  <2>2. older' <= Entries(Losing)'
    <3>1. /\ IsFiniteSet(Stored(Losing)') /\ Entries(Losing) <= Entries(Losing)' /\ older' = older
      BY <1>0, <1>4, RecordFinite, RecordMoves DEF days
    <3>2. Entries(Losing)' \in Nat
      BY <3>1, FS_CardinalityType DEF Entries
    <3> QED
      BY <1>0, <1>2, <3>1, <3>2
  <2>3. CASE Resetting
    <3>1. Overtook' /\ IsFiniteSet(Stored(Losing)')
      BY <1>0, <1>4, <2>3, RecordOvertaken
    <3> QED
      BY <2>1, <2>2, <2>3, <3>1 DEF Resetting
  <2>4. CASE reset \in {"none", "over"}
    <3>1. Balanced' /\ IsFiniteSet(Stored(Losing)')
      BY <1>0, <1>4, <2>4, RecordBalance DEF Resetting
    <3> QED
      BY <2>1, <2>2, <2>4, <3>1 DEF Resetting
  <2>5. CASE ~Resetting /\ reset \notin {"none", "over"}
    BY <1>0, <1>4, <2>1, <2>2, <2>5, RecordFinite
  <2> QED
    BY <2>3, <2>4, <2>5
<1>5. CASE ClearTrades
  <2>1. /\ \A x \in Losing : list'[x] = 0
        /\ pc' = pc /\ faults' = faults /\ reset' \in {"list", "scan"} /\ older' = 0
        /\ straddled' = straddled
             \cup {w \in Writers : pc[w] \in {"push", "undo", "undoAgain", "cool", "loss"}}
    BY <1>5, StoreAssumption DEF ClearTrades
  <2>2. Stored(Losing)' = {}
    BY <2>1 DEF Stored
  <2>3. Entries(Losing)' = 0 /\ IsFiniteSet(Stored(Losing)')
    BY <2>2, FS_EmptySet DEF Entries
  <2>4. Cardinality(Waiting') <= Cardinality(straddled') /\ Cardinality(Waiting') \in Nat
        /\ Cardinality(straddled') \in Nat
    <3>1. Waiting' \subseteq straddled' /\ straddled' \subseteq Writers
      BY DEF Waiting, TypeOK
    <3> QED
      BY <3>1, FS_Subset, FS_CardinalityType, StoreAssumption
  <2>5. \A w \in Writers \ straddled' : pc'[w] \in {"claim", "done", "dead"}
    BY <2>1 DEF TypeOK, StoreTypeOK
  <2>6. Overtook'
    BY <1>2, <2>1, <2>3, <2>4, <2>5 DEF Overtook
  <2> QED
    BY <2>1, <2>3, <2>6
<1>6. CASE ResetDailyStats
  <2>1. /\ Resetting /\ reset' \in {"daily", "over"} /\ dailyLoss' = 0
        /\ UNCHANGED <<list, pc, faults, straddled, days>>
    BY <1>6 DEF ResetDailyStats, Resetting
  <2>2. /\ Stored(Losing)' = Stored(Losing) /\ Entries(Losing)' = Entries(Losing) /\ Counting' = Counting
        /\ Exempt' = Exempt /\ older' = older /\ Waiting' = Waiting
    BY <2>1 DEF Stored, Entries, Counting, Exempt, days, Waiting
  <2>3. Counting \subseteq straddled /\ Entries(Losing) + Cardinality(Waiting) <= Cardinality(straddled) + faults
    BY <1>0, <2>1 DEF Overtook, Counting
  <2>4. Cardinality(Counting) <= Cardinality(straddled)
    BY <1>2, <2>3, FS_Subset
  <2>5. Balanced'
    <3> DEFINE gained == (Entries(Losing) - older) - 0 - Cardinality(Counting)
               drift  == faults + Cardinality(Exempt)
    <3>1. -drift <= gained /\ gained <= drift /\ gained \in Int /\ drift \in Nat
      BY <1>0, <1>2, <2>3, <2>4
    <3>2. gained \in -drift..drift
      BY <3>1
    <3> QED
      BY <2>1, <2>2, <3>2 DEF Balanced
  <2>6. Overtook'
    BY <1>0, <2>1, <2>2 DEF Overtook
  <2> QED
    BY <1>0, <2>1, <2>2, <2>5, <2>6
<1>7. CASE ResetStops
  <2>1. reset' = "failed" /\ UNCHANGED <<list, older>>
    BY <1>7 DEF ResetStops, days
  <2>2. Stored(Losing)' = Stored(Losing) /\ Entries(Losing)' = Entries(Losing)
    BY <2>1 DEF Stored, Entries
  <2> QED
    BY <1>0, <2>1, <2>2 DEF Resetting
<1>8. CASE (\E x \in Payloads : ClearDedupe(x)) \/ ClearReport
  <2>1. /\ Resetting /\ reset' \in {"scan", "report", "daily"}
        /\ UNCHANGED <<list, pc, dailyLoss, faults, straddled, days>>
    BY <1>8 DEF ClearDedupe, ClearReport, Resetting, store
  <2> QED
    BY <1>0, <1>3, <2>1 DEF Resetting
<1>9. CASE PassTime \/ (\E s \in Sellers : NotifyTradeSaved(s)) \/ UNCHANGED vars
  <2>1. UNCHANGED <<list, pc, dailyLoss, faults, straddled, reset, days>>
    BY <1>9 DEF PassTime, NotifyTradeSaved, vars, store
  <2> QED
    BY <1>0, <1>3, <2>1 DEF Resetting
<1>10. CASE Midnight
  <2>1. /\ dailyLoss' = 0 /\ older' = Entries(Losing) /\ overnight' = overnight \cup Counting
        /\ UNCHANGED <<list, pc, faults, straddled, reset>>
    BY <1>10 DEF Midnight
  <2>2. /\ Stored(Losing)' = Stored(Losing) /\ Entries(Losing)' = Entries(Losing)
        /\ Counting' = Counting /\ Overtook' = Overtook /\ Counting \subseteq Exempt'
    BY <2>1 DEF Stored, Entries, Counting, Overtook, Waiting, Exempt
  <2>3. Cardinality(Counting) <= Cardinality(Exempt') /\ Cardinality(Exempt') \in Nat
    <3>1. Exempt' \subseteq Writers
      BY DEF Exempt, TypeOK
    <3> QED
      BY <2>2, <3>1, FS_Subset, FS_CardinalityType, StoreAssumption
  <2>4. Balanced'
    <3> DEFINE gained == (Entries(Losing) - Entries(Losing)) - 0 - Cardinality(Counting)
               drift  == faults + Cardinality(Exempt')
    <3>1. -drift <= gained /\ gained <= drift /\ gained \in Int /\ drift \in Nat
      BY <1>2, <2>3
    <3>2. gained \in -drift..drift
      BY <3>1
    <3> QED
      BY <2>1, <2>2, <3>2 DEF Balanced
  <2> QED
    BY <1>0, <1>2, <2>1, <2>2, <2>4 DEF Resetting
<1> QED
  BY <1>4, <1>5, <1>6, <1>7, <1>8, <1>9, <1>10 DEF Next, Reset

-----------------------------------------------------------------------------
(* The invariant holds initially.                                           *)
LEMMA Start == Init => IInv
<1> SUFFICES ASSUME Init PROVE IInv
  OBVIOUS
<1>1. StoreTypeOK
  BY StoreAssumption DEF Init, StoreInit, StoreTypeOK
<1>2. ReportTypeOK /\ ReportInv
  BY ReportAssumption DEF Init, ReportInit, ReportTypeOK, ReportInv, InCall
<1>3. TypeOK
  BY <1>1, <1>2 DEF Init, TypeOK
<1>4. OnceInv
  <2> SUFFICES ASSUME NEW x \in Payloads
               PROVE  list[x] + Cardinality(Active(x))
                        <= Extra(x) + Cardinality(Overtaken(x)) + Claimed(x)
    BY DEF OnceInv
  <2>1. Active(x) = {} /\ Overtaken(x) = {} /\ list[x] = 0 /\ Extra(x) = 0
    BY DEF Init, StoreInit, Active, Overtaken, Extra
  <2>2. Cardinality(Active(x)) = 0 /\ Cardinality(Overtaken(x)) = 0 /\ Claimed(x) \in Nat
    BY <2>1, FS_EmptySet DEF Claimed
  <2> QED
    BY <2>1, <2>2
<1>5. CoolInv
  <2>1. Escaped = {}
    BY StoreAssumption DEF Init, StoreInit, Escaped, Missing
  <2> QED
    BY <2>1, FS_EmptySet DEF CoolInv, Init, StoreInit
<1>6. DriftInv
  <2>1. /\ Stored(Losing) = {} /\ Counting = {} /\ straddled \cup overnight = {} /\ reset = "none"
        /\ older = 0
    BY StoreAssumption DEF Init, StoreInit, Stored, Counting
  <2>2. Entries(Losing) = 0 /\ Cardinality(Counting) = 0 /\ Cardinality(straddled \cup overnight) = 0
        /\ IsFiniteSet(Stored(Losing)) /\ dailyLoss = 0 /\ faults = 0 /\ older = 0
    BY <2>1, FS_EmptySet DEF Entries, Init, StoreInit
  <2>3. RecordsDrift
    BY <2>2 DEF RecordsDrift
  <2> QED
    BY <2>1, <2>2, <2>3 DEF DriftInv, Resetting
<1> QED
  BY <1>2, <1>3, <1>4, <1>5, <1>6 DEF IInv

(* It holds in every state.                                                 *)
LEMMA Always == Spec => []IInv
<1>1. IInv /\ [Next]_vars => IInv'
  BY TypeInduction, OnceInduction, CoolInduction, DriftInduction DEF IInv, DriftInv
<1> QED
  BY Start, <1>1, PTL DEF Spec

(* SaveTrade's dedupe key, with retries of the Redis client, failed         *)
(* appends, crashes and resets: a payload is stored once, and once more at  *)
(* most for each append whose answer was lost, each key that a repeated DEL *)
(* took from another seller, and each seller that a reset overtook.         *)
THEOREM TradesStoredOnce == Spec => []StoredOnce
<1>1. ASSUME IInv PROVE StoredOnce
  <2> SUFFICES ASSUME NEW x \in Payloads
               PROVE  list[x] <= 1 + lostPush[x] + strayDel[x]
                                       + Cardinality({w \in straddled : payload[w] = x})
    BY DEF StoredOnce
  <2>0. TypeOK
    BY <1>1 DEF IInv
  <2> DEFINE sellers == {w \in straddled : payload[w] = x}
  <2>1. Overtaken(x) \subseteq sellers /\ sellers \subseteq straddled
    BY DEF Overtaken
  <2>2. IsFiniteSet(sellers)
    BY <2>0, <2>1, FiniteSellers, FS_Subset
  <2>3. Cardinality(Overtaken(x)) <= Cardinality(sellers) /\ Cardinality(sellers) \in Nat
    BY <2>1, <2>2, FS_Subset, FS_CardinalityType
  <2>4. /\ Cardinality(Active(x)) \in Nat /\ Cardinality(Overtaken(x)) \in Nat
        /\ list[x] \in Nat /\ lostPush[x] \in Nat /\ strayDel[x] \in Nat /\ Claimed(x) \in {0, 1}
    BY <2>0, FiniteSellers DEF TypeOK, StoreTypeOK, Claimed
  <2>5. list[x] + Cardinality(Active(x)) <= Extra(x) + Cardinality(Overtaken(x)) + Claimed(x)
    BY <1>1 DEF IInv, OnceInv
  <2>7. Extra(x) = lostPush[x] + strayDel[x]
    BY DEF Extra
  <2> HIDE DEF sellers
  <2>6. list[x] <= 1 + lostPush[x] + strayDel[x] + Cardinality(sellers)
    BY <2>3, <2>4, <2>5, <2>7
  <2> QED
    BY <2>6 DEF sellers
<1> QED
  BY <1>1, Always, PTL

(* SetCooldown after SaveTrade: every losing trade in the list has its mint *)
(* blacklisted, or a seller about to do so, or a fault to its account.      *)
THEOREM LosersAreCooled == Spec => []LosersCool
<1>1. ASSUME IInv PROVE LosersCool
  <2>0. TypeOK /\ IsFiniteSet(Escaped) /\ Cardinality(Escaped) <= faults /\ faults \in Nat
    BY <1>1, StoreAssumption DEF IInv, CoolInv, TypeOK, StoreTypeOK
  <2> DEFINE kept == Missing \ Escaped
             seller == [x \in kept |-> CHOOSE w \in Cooling : payload[w] = x]
  <2>1. \A x \in kept : \E w \in Cooling : payload[w] = x
    BY DEF Escaped
  <2>2. \A x \in kept : seller[x] \in Cooling /\ payload[seller[x]] = x
    BY <2>1
  <2>3. seller \in Injection(kept, Cooling)
    <3>1. seller \in [kept -> Cooling]
      BY <2>2
    <3>2. IsInjective(seller)
      BY <2>2 DEF IsInjective
    <3> QED
      BY <3>1, <3>2 DEF Injection
  <2>4. IsFiniteSet(Cooling) /\ Cardinality(Cooling) \in Nat
    BY <2>0, FiniteSellers
  <2>5. IsFiniteSet(kept) /\ Cardinality(kept) <= Cardinality(Cooling)
    BY <2>3, <2>4, FS_Injection
  <2>6. Missing = kept \cup Escaped /\ kept \cap Escaped = {}
    BY DEF Escaped
  <2>7. Cardinality(Missing) = Cardinality(kept) + Cardinality(Escaped)
    <3> HIDE DEF kept
    <3>1. /\ Cardinality(kept \cup Escaped)
               = Cardinality(kept) + Cardinality(Escaped) - Cardinality(kept \cap Escaped)
          /\ Cardinality(kept) \in Nat /\ Cardinality(Escaped) \in Nat
      BY <2>0, <2>5, FS_Union, FS_CardinalityType
    <3>2. Cardinality(kept \cap Escaped) = 0
      BY <2>6, FS_EmptySet
    <3> QED
      BY <2>6, <3>1, <3>2
  <2>8. Cardinality(kept) \in Nat /\ Cardinality(Escaped) \in Nat
    BY <2>0, <2>5, FS_CardinalityType
  <2>9. Cardinality(Missing) <= Cardinality(Cooling) + faults
    BY <2>0, <2>4, <2>5, <2>7, <2>8
  <2> QED
    BY <2>9 DEF LosersCool, Missing, Cooling
<1> QED
  BY <1>1, Always, PTL

(* SaveTrade and UpdateDailyLoss, four commands without a transaction, each *)
(* of which can fail, be sent again or be the last, with resets and         *)
(* midnights beside them: what the list has gained since midnight and the   *)
(* losses of the day agree up to the sellers between the two, the faults,   *)
(* and the sellers that a reset or a midnight overtook.                     *)
THEOREM RecordsAgree == Spec => []RecordsDrift
BY Always, PTL DEF IInv, DriftInv

(* NotifyTradeSavedWithTrade, with sellers that finish out of order and the *)
(* reset of the key: summaries keep their distance.                         *)
THEOREM SummariesSpaced == Spec => Spaced
<1>1. IInv /\ [Next]_vars
        => [\A s \in Sellers : call[s] = "get" /\ call'[s] = "send" /\ latest # 0
              => stamp[s] - latest >= Interval - MaxCall]_vars
  <2> SUFFICES ASSUME IInv, Next, NEW s \in Sellers, call[s] = "get", call'[s] = "send"
               PROVE  stamp[s] - latest >= Interval - MaxCall
    OBVIOUS
  <2>0. /\ call \in [Sellers -> {"none", "get", "first", "send", "set", "over"}]
        /\ stamp[s] \in Int /\ latest \in Int /\ last \in Int /\ Interval \in Int /\ MaxCall \in Int
        /\ last # 0 => latest - last <= MaxCall
    BY ReportAssumption DEF IInv, TypeOK, ReportTypeOK, ReportInv
  <2>1. PICK q \in Sellers : NotifyTradeSaved(q)
    BY DEF Next, PassTime, Tick, Reset, ClearTrades, ClearDedupe, ClearReport, ResetReportState,
       Midnight, ResetDailyStats, ResetStops, RecordTrade, report
  <2>2. GetLast(s)
    BY <2>0, <2>1 DEF NotifyTradeSaved, Notify, GoOn, GetLast, SetAgain, SetFirst, SendSummary, SetLast,
       Abort, Set, Return, Step
  <2>3. last # 0 /\ stamp[s] - last >= Interval
    BY <2>0, <2>2 DEF GetLast, Return, Step
  <2> QED
    BY <2>0, <2>3
<1> QED
  BY <1>1, Always, PTL DEF Spec, Spaced

=============================================================================
