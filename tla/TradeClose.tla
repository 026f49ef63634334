----------------------------- MODULE TradeClose -----------------------------
(***************************************************************************)
(* The end of a position: every seller records its trade (TradeStore) and  *)
(* then calls NotifyTradeSavedWithTrade (Report), whether the trade was    *)
(* saved or not, while the operator may run cmd/reset-pnl beside them: the *)
(* list, the dedupe keys one by one, the report key and the daily loss, in *)
(* this order, up to the first error.  At midnight (UTC) the daily loss    *)
(* begins anew under another key.  A seller outside Writers is one whose   *)
(* record concerns other payloads; one outside Sellers, one whose call of  *)
(* the report is not followed.                                             *)
(***************************************************************************)
EXTENDS TradeStore, Report

VARIABLES reset,      \* stage of reset-pnl
          unscanned,  \* dedupe keys that its SCAN has not come to
          straddled,  \* history: sellers that recorded while it ran
          older,      \* history: losing trades in the list at midnight
          overnight   \* history: sellers that were counting at a midnight

days == <<older, overnight>>
vars == <<store, report, reset, unscanned, straddled, days>>

TypeOK ==
  /\ StoreTypeOK /\ ReportTypeOK
  /\ reset \in {"none", "list", "scan", "report", "daily", "over", "failed"}
  /\ unscanned \subseteq Payloads /\ straddled \subseteq Writers
  /\ older \in Nat /\ overnight \subseteq Writers

Init ==
  /\ StoreInit /\ ReportInit
  /\ reset = "none" /\ unscanned = {} /\ straddled = {}
  /\ older = 0 /\ overnight = {}

Resetting == reset \in {"list", "scan", "report", "daily"}

RecordTrade(w) ==
  /\ Record(w)
  /\ straddled' = IF Resetting THEN straddled \cup {w} ELSE straddled
  /\ UNCHANGED <<report, reset, unscanned, days>>

NotifyTradeSaved(s) ==
  /\ s \in Writers => pc[s] = "done"
  /\ Notify(s) \/ GoOn(s, s \notin Writers \/ Entries(Payloads) > 0)
  /\ UNCHANGED <<store, reset, unscanned, straddled, days>>

PassTime == Tick /\ UNCHANGED <<store, reset, unscanned, straddled, days>>

(* Midnight (UTC): the key of the day's loss has a new name, and no value;  *)
(* the list of the trades goes on.                                          *)
Midnight ==
  /\ dailyLoss' = 0
  /\ older' = Entries(Losing)
  /\ overnight' = overnight \cup Counting
  /\ UNCHANGED <<report, pc, payload, dedupe, list, cooldown, lostPush, strayDel, faults,
                 reset, unscanned, straddled>>

-----------------------------------------------------------------------------
(* DEL of trades:list, once or, when the answer is lost, again.  The        *)
(* operator runs the command again after it has failed.                     *)
ClearTrades ==
  /\ reset \in {"none", "failed", "list"}
  /\ list' = [x \in Payloads |-> 0]
  /\ reset' \in {"list", "scan"} /\ unscanned' = Payloads
  /\ straddled' = straddled
       \cup {w \in Writers : pc[w] \in {"push", "undo", "undoAgain", "cool", "loss"}}
  /\ older' = 0
  /\ UNCHANGED <<report, pc, payload, dedupe, cooldown, dailyLoss, lostPush, strayDel, faults,
                 overnight>>

(* The SCAN passes every key, in any order and some of them more than once, *)
(* and deletes the ones that are there at that moment.                      *)
ClearDedupe(x) ==
  /\ reset = "scan" /\ x \in unscanned
  /\ dedupe' = dedupe \ {x}
  /\ unscanned' \in {unscanned, unscanned \ {x}}
  /\ reset' = IF unscanned' = {} THEN "report" ELSE "scan"
  /\ UNCHANGED <<report, pc, payload, list, cooldown, dailyLoss, lostPush, strayDel, faults,
                 straddled, days>>

(* DEL of the report key; it too can be sent again.                         *)
ClearReport ==
  /\ reset = "report"
  /\ ResetReportState
  /\ reset' \in {"report", "daily"}
  /\ UNCHANGED <<store, unscanned, straddled, days>>

ResetDailyStats ==
  /\ reset = "daily"
  /\ dailyLoss' = 0
  /\ reset' \in {"daily", "over"}
  /\ UNCHANGED <<report, pc, payload, dedupe, list, cooldown, lostPush, strayDel, faults,
                 unscanned, straddled, days>>

(* A command fails and the operator's process exits.                        *)
ResetStops ==
  /\ Resetting /\ Fault
  /\ reset' = "failed" /\ unscanned' = {}
  /\ UNCHANGED <<report, pc, payload, dedupe, list, cooldown, dailyLoss, lostPush, strayDel,
                 straddled, days>>

Reset == \/ ClearTrades \/ (\E x \in Payloads : ClearDedupe(x))
         \/ ClearReport \/ ResetDailyStats \/ ResetStops

Next ==
  \/ PassTime \/ Midnight \/ Reset
  \/ \E w \in Writers : RecordTrade(w)
  \/ \E s \in Sellers : NotifyTradeSaved(s)

Spec == Init /\ [][Next]_vars

-----------------------------------------------------------------------------
(* Identical payloads are stored once, whoever produced them: once more at  *)
(* most for each append that took effect although its answer was lost, for  *)
(* each key that a second DEL took from another seller, and for each seller *)
(* of the payload that a reset overtook between its claim and its append.   *)
StoredOnce ==
  \A x \in Payloads :
    list[x] <= 1 + lostPush[x] + strayDel[x] + Cardinality({w \in straddled : payload[w] = x})

(* Records without a transaction agree all the same, when no reset is under *)
(* way: the loss of the day is the losing trades that the list has gained   *)
(* since midnight, except for the sellers that are still counting, one      *)
(* trade per fault, and one per seller that recorded while a reset ran or   *)
(* was counting at a midnight.  A duplicate is not counted at all.          *)
RecordsDrift ==
  reset \in {"none", "over"} =>
    LET drift == faults + Cardinality(straddled \cup overnight)
    IN  (Entries(Losing) - older) - dailyLoss - Cardinality(Counting) \in -drift..drift

(* Whatever stands in the list as a losing trade, its mint is on the        *)
(* blacklist, except for the sellers that are about to put it there, and    *)
(* for one mint per command that failed and per crash.                      *)
LosersCool ==
  Cardinality({x \in Losing : list[x] > 0} \ cooldown)
    <= Cardinality({w \in Writers : pc[w] = "cool"}) + faults

(* Sellers that finish in another order than they began write the key of    *)
(* the last summary back, and so does one whose call a reset overtook, but  *)
(* by less than the length of a call: a summary is sent only when at least  *)
(* the interval less that length has passed since every time that was ever  *)
(* written to the key.                                                      *)
Spaced ==
  [][\A s \in Sellers : call[s] = "get" /\ call'[s] = "send" /\ latest # 0
       => stamp[s] - latest >= Interval - MaxCall]_vars
=============================================================================
