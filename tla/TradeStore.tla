----------------------------- MODULE TradeStore -----------------------------
(***************************************************************************)
(* What happens when a closed position is recorded: SaveTrade claims the   *)
(* hash of the payload, appends the trade, blacklists the mint of a losing *)
(* one; then the seller adds the loss to the day.  These are four Redis    *)
(* commands without a transaction.  Each can fail, before or after it took *)
(* effect; the Redis client sends a command again when its answer is lost  *)
(* (redisx.Init leaves the number of retries at its default); and the      *)
(* worker can die between any two.                                         *)
(***************************************************************************)
EXTENDS Integers, FiniteSets

CONSTANTS Writers,    \* sellers that record a trade
          Payloads,   \* serialised trades; two sellers may produce the same
          Losing,     \* those with a negative profit
          MaxFaults   \* bound: failed commands and crashes

ASSUME StoreAssumption ==
  IsFiniteSet(Writers) /\ Losing \subseteq Payloads /\ MaxFaults \in Nat

VARIABLES pc,
          payload,    \* of each writer
          dedupe,     \* payloads whose dedupe key is set
          list,       \* entries of trades:list, per payload
          cooldown,   \* payloads whose mint is blacklisted
          dailyLoss,  \* losing trades added to today's stats:daily_loss
          lostPush,   \* history: appends whose answer was lost, per payload
          strayDel,   \* history: keys taken away by a second DEL, per payload
          faults

store == <<pc, payload, dedupe, list, cooldown, dailyLoss, lostPush, strayDel, faults>>

StoreTypeOK ==
  /\ pc \in [Writers -> {"claim", "push", "undo", "undoAgain", "cool", "loss", "done", "dead"}]
  /\ payload \in [Writers -> Payloads]
  /\ dedupe \subseteq Payloads /\ cooldown \subseteq Payloads
  /\ list \in [Payloads -> Nat] /\ dailyLoss \in Nat
  /\ lostPush \in [Payloads -> Nat] /\ strayDel \in [Payloads -> Nat]
  /\ faults \in 0..MaxFaults

StoreInit ==
  /\ pc = [w \in Writers |-> "claim"]
  /\ payload \in [Writers -> Payloads]
  /\ dedupe = {} /\ cooldown = {} /\ dailyLoss = 0
  /\ list = [x \in Payloads |-> 0] /\ lostPush = [x \in Payloads |-> 0]
  /\ strayDel = [x \in Payloads |-> 0]
  /\ faults = 0

Goto(w, stage) == pc' = [pc EXCEPT ![w] = stage]

(* Commands that fail, answers that are lost, crashes.                      *)
Fault == faults < MaxFaults /\ faults' = faults + 1

(* The answer to an append or to the addition of a loss is lost after it    *)
(* took effect, and the client sends the command again.                     *)
PushAgain(w) ==
  /\ pc[w] = "push" /\ Fault
  /\ list' = [list EXCEPT ![payload[w]] = @ + 1]
  /\ lostPush' = [lostPush EXCEPT ![payload[w]] = @ + 1]
  /\ UNCHANGED <<pc, payload, dedupe, cooldown, dailyLoss, strayDel>>

AddLossAgain(w) ==
  /\ pc[w] = "loss" /\ Fault
  /\ dailyLoss' = dailyLoss + 1
  /\ UNCHANGED <<pc, payload, dedupe, list, cooldown, lostPush, strayDel>>

(* SETNX is sent again: it finds the key that its first copy has set, and   *)
(* the trade is taken for a duplicate of itself.                            *)
ClaimAgain(w) ==
  /\ pc[w] = "claim" /\ payload[w] \notin dedupe /\ Fault
  /\ dedupe' = dedupe \cup {payload[w]}
  /\ UNCHANGED <<pc, payload, list, cooldown, dailyLoss, lostPush, strayDel>>

(* Faulty variant: the dedupe key is set but not checked. *)
ClaimUnchecked(w) ==
  /\ pc[w] = "claim"
  /\ Goto(w, "push")
  /\ dedupe' = dedupe \cup {payload[w]}
  /\ UNCHANGED <<payload, list, cooldown, dailyLoss, lostPush, strayDel, faults>>

(* Faulty variant: a duplicate is counted as a loss. *)
ClaimCountsDuplicate(w) ==
  /\ pc[w] = "claim"
  /\ IF payload[w] \in dedupe
       THEN Goto(w, IF payload[w] \in Losing THEN "loss" ELSE "done")
       ELSE Goto(w, "push")
  /\ dedupe' = dedupe \cup {payload[w]}
  /\ UNCHANGED <<payload, list, cooldown, dailyLoss, lostPush, strayDel, faults>>

(* SETNX of the dedupe key. *)
Claim(w) ==
  /\ pc[w] = "claim"
  /\ IF payload[w] \in dedupe
       THEN Goto(w, "done")
       ELSE Goto(w, "push")
  /\ dedupe' = dedupe \cup {payload[w]}
  /\ UNCHANGED <<payload, list, cooldown, dailyLoss, lostPush, strayDel, faults>>

ClaimFails(w) ==
  /\ pc[w] = "claim" /\ Fault
  /\ dedupe' \in {dedupe, dedupe \cup {payload[w]}}
  /\ Goto(w, "done")
  /\ UNCHANGED <<payload, list, cooldown, dailyLoss, lostPush, strayDel>>

(* Faulty variant: the mint of a losing trade is not blacklisted. *)
PushSkipsCooldown(w) ==
  /\ pc[w] = "push"
  /\ list' = [list EXCEPT ![payload[w]] = @ + 1]
  /\ Goto(w, IF payload[w] \in Losing THEN "loss" ELSE "done")
  /\ UNCHANGED <<payload, dedupe, cooldown, dailyLoss, lostPush, strayDel, faults>>

(* LPUSH, after which a losing trade goes on to SetCooldown.                *)
Push(w) ==
  /\ pc[w] = "push"
  /\ list' = [list EXCEPT ![payload[w]] = @ + 1]
  /\ Goto(w, IF payload[w] \in Losing THEN "cool" ELSE "done")
  /\ UNCHANGED <<payload, dedupe, cooldown, dailyLoss, lostPush, strayDel, faults>>

PushFails(w) ==
  /\ pc[w] = "push" /\ Fault
  /\ \/ UNCHANGED <<list, lostPush, strayDel>>
     \/ /\ list' = [list EXCEPT ![payload[w]] = @ + 1]
        /\ lostPush' = [lostPush EXCEPT ![payload[w]] = @ + 1]
  /\ Goto(w, "undo")
  /\ UNCHANGED <<payload, dedupe, cooldown, dailyLoss, strayDel>>

(* DEL of the dedupe key after the failed append; its own failure is        *)
(* ignored.  When its answer is lost the client sends it again, and by then *)
(* the key may be that of another seller of the payload.                    *)
Undo(w) ==
  /\ pc[w] \in {"undo", "undoAgain"}
  /\ \/ dedupe' = dedupe \ {payload[w]} /\ Goto(w, "done") /\ UNCHANGED faults
     \/ dedupe' = dedupe \ {payload[w]} /\ Goto(w, "undoAgain") /\ Fault
     \/ UNCHANGED dedupe /\ Goto(w, "done") /\ Fault
  /\ strayDel' = IF pc[w] = "undoAgain" /\ dedupe' # dedupe
                   THEN [strayDel EXCEPT ![payload[w]] = @ + 1]
                   ELSE strayDel
  /\ UNCHANGED <<payload, list, cooldown, dailyLoss, lostPush>>

(* SetCooldown ignores its error; UpdateDailyLoss is called either way, and *)
(* its error is ignored too.  A second SET of a blacklist key, which nobody *)
(* deletes, changes nothing.                                                *)
SetCooldown(w) ==
  /\ pc[w] = "cool"
  /\ \/ cooldown' = cooldown \cup {payload[w]} /\ UNCHANGED faults
     \/ Fault /\ UNCHANGED cooldown
  /\ Goto(w, "loss")
  /\ UNCHANGED <<payload, dedupe, list, dailyLoss, lostPush, strayDel>>

(* The loss is added to the key of the day on which the command was made:   *)
(* one that arrives after midnight leaves the new day alone, just as one    *)
(* that arrives before.                                                     *)
UpdateDailyLoss(w) ==
  /\ pc[w] = "loss"
  /\ \/ dailyLoss' = dailyLoss + 1 /\ UNCHANGED faults
     \/ Fault /\ UNCHANGED dailyLoss
  /\ Goto(w, "done")
  /\ UNCHANGED <<payload, dedupe, list, cooldown, lostPush, strayDel>>

(* The worker dies; nobody takes its record up again.                       *)
Crash(w) ==
  /\ pc[w] \notin {"done", "dead"} /\ Fault
  /\ Goto(w, "dead")
  /\ UNCHANGED <<payload, dedupe, list, cooldown, dailyLoss, lostPush, strayDel>>

SaveTrade(w) == \/ Claim(w) \/ ClaimAgain(w) \/ ClaimFails(w)
                \/ Push(w) \/ PushAgain(w) \/ PushFails(w) \/ Undo(w)

Record(w) == \/ SaveTrade(w) \/ SetCooldown(w) \/ UpdateDailyLoss(w)
             \/ AddLossAgain(w) \/ Crash(w)

-----------------------------------------------------------------------------
(* The entries of the list whose payload is in S, numbered per payload.     *)
Stored(S)  == UNION {{x} \X (1..list[x]) : x \in S}
Entries(S) == Cardinality(Stored(S))

(* Sellers that have stored a losing trade and not yet counted it.          *)
Counting == {w \in Writers : pc[w] \in {"cool", "loss"}}
=============================================================================
