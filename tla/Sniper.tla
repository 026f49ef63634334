------------------------------- MODULE Sniper -------------------------------
(***************************************************************************)
(* The trading pipeline of the worker and the recovery loop, composed over *)
(* the Redis keys they share and over the wallet.                          *)
(*                                                                         *)
(* A process is a pair <<worker, role>>.  For a mint m the process         *)
(* <<w, m>> is the goroutine that runs HandleMint(m) in worker w: the      *)
(* stream gate (internal/app/stream_merge.go) admits one such goroutine    *)
(* per mint, so "m is in the gate of w" is pc[<<w, m>>] # "idle".  The     *)
(* process <<w, Recovery>> is the recovery loop of worker w.  Every step   *)
(* is one Redis command (or one Lua script), one external call or one      *)
(* local decision, so steps of all processes interleave as in the code.    *)
(*                                                                         *)
(* A Redis command can fail, and the client sends a command again whose    *)
(* answer was lost (redisx.Init leaves the retries of go-redis on), so it  *)
(* can take effect twice; a DEL that is sent again may meet the key of the *)
(* next owner.  Keys expire here only when their owner is gone: MintLock   *)
(* has the clock, and the premises EnoughTTL and EnoughExitTTL under which *)
(* that is so.                                                             *)
(***************************************************************************)
EXTENDS Integers, FiniteSets

CONSTANTS Workers,     \* worker processes that share one Redis and one wallet
          Mints,       \* token addresses seen on the stream
          Recovery,    \* the role of the recovery loop
          None,        \* no mint
          MaxOpen,     \* MAX_OPEN_POSITIONS
          MaxTrades,   \* MAX_DAILY_TRADES
          MaxLoss,     \* MAX_DAILY_LOSS, in losing trades
          Faults,      \* the kinds of disturbances that happen
          MaxFaults    \* bound: how many happen

ASSUME PipelineAssumption ==
  /\ IsFiniteSet(Workers) /\ IsFiniteSet(Mints)
  /\ Recovery \notin Mints /\ None \notin Mints
  /\ MaxOpen \in Nat \ {0} /\ MaxTrades \in Nat \ {0} /\ MaxLoss \in Nat \ {0}
  /\ MaxFaults \in Nat
  /\ Faults \subseteq {"crash",   \* a worker stops, a handler panics
                       "error",   \* a Redis command fails and has no effect
                       "again",   \* its answer is lost: it fails, or is sent again
                       "rpc",     \* a provider or the RPC node does not answer
                       "reset",   \* the operator resets
                       "midnight"} \* the UTC day ends

VARIABLES pc,           \* the stage of each process
          tx,           \* the BUY whose confirmation a handler awaits, on the chain
          stray,        \* handlers with a BUY on its way that nobody waits for
          todo,         \* the wallet snapshot a recovery loop is working through
          cur,          \* the mint a recovery loop is selling
          booted,       \* workers whose start-up RecoverAll has returned
          operator,     \* the next command of cmd/reset-pnl
          mintKey,      \* Redis mint:<m>              (lock.LockMint)
          eventKey,     \* Redis event:<m>             (idempotency, 10 s)
          cooldownKey,  \* Redis cooldown:<m>          (idempotency, no expiry)
          exitKey,      \* Redis position:exiting:<m>  (sellguard)
          openCount,    \* Redis rlangga:pos:open_count
          openMints,    \* Redis rlangga:pos:mints
          dailyTrades,  \* Redis stats:daily_trades:<day>
          dailyLoss,    \* Redis stats:daily_loss:<day>, saturating at MaxLoss
          held,         \* mints with a balance in the wallet
          faults,       \* disturbances so far
          leaked,       \* history: slots counted that no handler holds
          forgotten,    \* history: slots the counter may have lost
          bought,       \* history: confirmed BUYs of the day
          uncounted,    \* history: those whose INCR failed
          lockStolen,   \* history: mints whose key a repeated DEL took from its owner
          exitStolen    \* history: the same for the exit key

buying  == <<tx, stray>>
loop    == <<todo, cur, booted>>
slots   == <<openCount, openMints>>
daily   == <<dailyTrades, dailyLoss>>
keys    == <<mintKey, eventKey, cooldownKey, exitKey>>
drift   == <<leaked, forgotten>>
tally   == <<bought, uncounted>>
stolen  == <<lockStolen, exitStolen>>
history == <<drift, tally, stolen>>
vars    == <<pc, buying, loop, operator, keys, slots, daily, held, faults, history>>

Handlers   == Workers \X Mints
Recoveries == Workers \X {Recovery}
Procs      == Handlers \cup Recoveries

(* The mint a process works on. *)
Target(p) == IF p[2] = Recovery THEN cur[p[1]] ELSE p[2]

SellStages  == {"sell", "save", "cool", "loss", "letgo"}
OpenStages  == {"buy", "confirm", "count", "size", "monitor", "unlock"} \cup SellStages
SlotStages  == OpenStages \cup {"letgoAgain", "unlockAgain", "release"}
LockStages  == OpenStages \cup {"letgoAgain", "reserve", "giveup"}
EntryStages == {"cooldown", "event", "lock", "reserve", "buy", "confirm", "count"}
HandlerStages  == {"idle", "guard", "cooldown", "event", "lock", "giveupAgain"}
                    \cup LockStages \cup SlotStages
RecoveryStages == {"off", "scan", "next", "letgoAgain"} \cup SellStages

(* Handlers inside LockMint .. UnlockMint, those that hold a position slot, *)
(* those past CanTrade that have not counted their BUY, and the sellers.    *)
LockHolders(m) == {p \in Handlers : p[2] = m /\ pc[p] \in LockStages}
SlotHolders    == {p \in Handlers : pc[p] \in SlotStages}
Entering       == {p \in Handlers : pc[p] \in EntryStages}
Sellers(m)     == {p \in Procs : Target(p) = m /\ pc[p] \in SellStages}

Goto(p, stage) == pc' = [pc EXCEPT ![p] = stage]

Fault(kind) == kind \in Faults /\ faults < MaxFaults /\ faults' = faults + 1

TypeOK ==
  /\ pc \in [Procs -> HandlerStages \cup RecoveryStages]
  /\ \A p \in Handlers : pc[p] \in HandlerStages
  /\ \A p \in Recoveries : pc[p] \in RecoveryStages
  /\ tx \in [Handlers -> {"none", "pending", "landed", "failed", "dropped"}]
  /\ stray \subseteq Handlers
  /\ todo \in [Workers -> SUBSET Mints]
  /\ cur \in [Workers -> Mints \cup {None}]
  /\ booted \subseteq Workers
  /\ operator \in {"idle", "stats", "slots"}
  /\ mintKey \subseteq Mints /\ eventKey \subseteq Mints
  /\ cooldownKey \subseteq Mints /\ exitKey \subseteq Mints
  /\ openCount \in Nat /\ openMints \subseteq Mints
  /\ dailyTrades \in Nat /\ dailyLoss \in 0..MaxLoss
  /\ held \subseteq Mints
  /\ faults \in 0..MaxFaults /\ leaked \in Nat /\ forgotten \in Nat
  /\ bought \in Nat /\ uncounted \in Nat
  /\ lockStolen \subseteq Mints /\ exitStolen \subseteq Mints

Init ==
  /\ pc = [p \in Procs |-> IF p[2] = Recovery THEN "scan" ELSE "idle"]
  /\ tx = [p \in Handlers |-> "none"] /\ stray = {}
  /\ todo = [w \in Workers |-> {}]
  /\ cur = [w \in Workers |-> None]
  /\ booted = {} /\ operator = "idle"
  /\ mintKey = {} /\ eventKey = {} /\ cooldownKey = {} /\ exitKey = {}
  /\ openCount = 0 /\ openMints = {}
  /\ dailyTrades = 0 /\ dailyLoss = 0
  /\ held \in SUBSET Mints      \* what an earlier run left in the wallet
  /\ faults = 0 /\ leaked = 0 /\ forgotten = 0 /\ bought = 0 /\ uncounted = 0
  /\ lockStolen = {} /\ exitStolen = {}

-----------------------------------------------------------------------------
(* Before the lock: stream gate, CanTrade and the filters, idempotency.     *)

(* dispatchStreamMintWithEntry: the gate is free, a goroutine starts.       *)
Dispatch(p) ==
  /\ pc[p] = "idle" /\ p[1] \in booted
  /\ Goto(p, "guard")
  /\ UNCHANGED <<buying, loop, operator, keys, slots, daily, held, faults, history>>

(* Faulty variant: the daily quota is forgotten. *)
CanTradeNoQuota == dailyLoss < MaxLoss

CanTrade == dailyLoss < MaxLoss /\ dailyTrades < MaxTrades

(* CanTrade, the entry filters and the activity filter all pass.            *)
PassGuard(p) ==
  /\ pc[p] = "guard" /\ CanTrade
  /\ Goto(p, "cooldown")
  /\ UNCHANGED <<buying, loop, operator, keys, slots, daily, held, faults, history>>

(* Kill switch, quota, balance, active hours or a filter refuses the mint.  *)
Reject(p) ==
  /\ pc[p] = "guard"
  /\ Goto(p, "idle")
  /\ UNCHANGED <<buying, loop, operator, keys, slots, daily, held, faults, history>>

(* Faulty variant: IsDuplicate looks at the event key only. *)
CheckCooldownIgnored(p) ==
  /\ pc[p] = "cooldown"
  /\ Goto(p, "event")
  /\ UNCHANGED <<buying, loop, operator, keys, slots, daily, held, faults, history>>

(* IsDuplicate, first command: EXISTS cooldown:<m>.                         *)
CheckCooldown(p) ==
  /\ pc[p] = "cooldown"
  /\ Goto(p, IF p[2] \in cooldownKey THEN "idle" ELSE "event")
  /\ UNCHANGED <<buying, loop, operator, keys, slots, daily, held, faults, history>>

(* An error of EXISTS is passed over.                                       *)
CooldownUnread(p) ==
  /\ pc[p] = "cooldown" /\ Fault("error")
  /\ Goto(p, "event")
  /\ UNCHANGED <<buying, loop, operator, keys, slots, daily, held, history>>

(* IsDuplicate, second command: SETNX event:<m>.                            *)
CheckEvent(p) ==
  /\ pc[p] = "event"
  /\ Goto(p, IF p[2] \in eventKey THEN "idle" ELSE "lock")
  /\ eventKey' = eventKey \cup {p[2]}
  /\ UNCHANGED <<buying, loop, operator, mintKey, cooldownKey, exitKey, slots,
                 daily, held, faults, history>>

(* An error, or the second copy of the command finds the key of the first.  *)
EventFails(p) ==
  /\ pc[p] = "event"
  /\ Goto(p, "idle")
  /\ \/ Fault("error") /\ UNCHANGED eventKey
     \/ Fault("again") /\ eventKey' = eventKey \cup {p[2]}
  /\ UNCHANGED <<buying, loop, operator, mintKey, cooldownKey, exitKey, slots,
                 daily, held, history>>

(* Faulty variant: a plain SET, which does not see that the key is taken. *)
LockMintUnchecked(p) ==
  /\ pc[p] = "lock"
  /\ Goto(p, "reserve")
  /\ mintKey' = mintKey \cup {p[2]}
  /\ UNCHANGED <<buying, loop, operator, eventKey, cooldownKey, exitKey, slots,
                 daily, held, faults, history>>

(* LockMint: SETNX mint:<m>.                                                *)
LockMint(p) ==
  /\ pc[p] = "lock"
  /\ Goto(p, IF p[2] \in mintKey THEN "idle" ELSE "reserve")
  /\ mintKey' = mintKey \cup {p[2]}
  /\ UNCHANGED <<buying, loop, operator, eventKey, cooldownKey, exitKey, slots,
                 daily, held, faults, history>>

(* An error, or the second copy of the command finds the key of the first:  *)
(* the mint is locked with nobody to unlock it.                             *)
LockFails(p) ==
  /\ pc[p] = "lock"
  /\ Goto(p, "idle")
  /\ \/ Fault("error") /\ UNCHANGED mintKey
     \/ Fault("again") /\ mintKey' = mintKey \cup {p[2]}
  /\ UNCHANGED <<buying, loop, operator, eventKey, cooldownKey, exitKey, slots,
                 daily, held, history>>

(* Faulty variant: one slot too many. *)
TryReserveOffByOne(p) ==
  /\ pc[p] = "reserve"
  /\ IF openCount > MaxOpen
       THEN Goto(p, "giveup") /\ UNCHANGED slots
       ELSE /\ Goto(p, "buy")
            /\ openCount' = openCount + 1
            /\ openMints' = openMints \cup {p[2]}
  /\ UNCHANGED <<buying, loop, operator, keys, daily, held, faults, history>>

(* TryReserve: one Lua script; on success Release is deferred.              *)
TryReserve(p) ==
  /\ pc[p] = "reserve"
  /\ IF openCount >= MaxOpen
       THEN Goto(p, "giveup") /\ UNCHANGED slots
       ELSE /\ Goto(p, "buy")
            /\ openCount' = openCount + 1
            /\ openMints' = openMints \cup {p[2]}
  /\ UNCHANGED <<buying, loop, operator, keys, daily, held, faults, history>>

(* An error is taken for "no slot".  A slot that the script has counted     *)
(* before its answer was lost stays counted, whether the call ends with an  *)
(* error or the client sends the script again.                              *)
ReserveFails(p) ==
  /\ pc[p] = "reserve"
  /\ \/ Fault("error") /\ Goto(p, "giveup") /\ UNCHANGED <<slots, leaked>>
     \/ /\ Fault("again") /\ openCount < MaxOpen
        /\ Goto(p, "giveup") \/ UNCHANGED pc
        /\ openCount' = openCount + 1
        /\ openMints' = openMints \cup {p[2]}
        /\ leaked' = leaked + 1
  /\ UNCHANGED <<buying, loop, operator, keys, daily, held, forgotten, tally, stolen>>

(* UnlockMint: DEL mint:<m>, executed, or lost, or executed and sent again. *)
DeleteKey(p, next, again) ==
  \/ Goto(p, next) /\ mintKey' = mintKey \ {p[2]} /\ UNCHANGED faults
  \/ Goto(p, next) /\ Fault("error") /\ UNCHANGED mintKey
  \/ Goto(p, again) /\ Fault("again") /\ mintKey' = mintKey \ {p[2]}

(* No slot: UnlockMint and return.                                          *)
GiveUp(p) ==
  /\ pc[p] = "giveup" /\ DeleteKey(p, "idle", "giveupAgain")
  /\ UNCHANGED <<buying, loop, operator, eventKey, cooldownKey, exitKey, slots,
                 daily, held, history>>

-----------------------------------------------------------------------------
(* BuyAndValidate.  The chain decides what happens to a submitted BUY.  A   *)
(* provider whose answer was lost may have sent a BUY that nobody waits     *)
(* for; those of one handler count as one.                                  *)

(* The call had no answer, or one was lost. *)
LostBuy(p) == \/ UNCHANGED <<stray, faults>>
              \/ stray' = stray \cup {p} /\ Fault("rpc")

(* A provider returned a signature, the one before it perhaps lost one.     *)
SubmitBuy(p) ==
  /\ pc[p] = "buy"
  /\ Goto(p, "confirm")
  /\ tx' = [tx EXCEPT ![p] = "pending"]
  /\ LostBuy(p)
  /\ UNCHANGED <<loop, operator, keys, slots, daily, held, history>>

(* Every provider call ended in an error.                                   *)
BuyRefused(p) ==
  /\ pc[p] = "buy"
  /\ Goto(p, "unlock")
  /\ LostBuy(p)
  /\ UNCHANGED <<tx, loop, operator, keys, slots, daily, held, history>>

(* The chain executes the BUY, with or without success, or drops it.        *)
Settle(p) ==
  /\ tx[p] = "pending"
  /\ \E s \in {"landed", "failed", "dropped"} :
       /\ tx' = [tx EXCEPT ![p] = s]
       /\ held' = IF s = "landed" THEN held \cup {p[2]} ELSE held
  /\ UNCHANGED <<pc, stray, loop, operator, keys, slots, daily, faults, history>>

(* A BUY that nobody waits for lands or not; another may be left.           *)
SettleStray(p) ==
  /\ p \in stray
  /\ stray' \in {stray, stray \ {p}}
  /\ held' \in {held, held \cup {p[2]}}
  /\ UNCHANGED <<pc, tx, loop, operator, keys, slots, daily, faults, history>>

(* ConfirmTransaction sees a confirmation status.  getSignatureStatuses     *)
(* reports one for a transaction that failed on chain as well, and the      *)
(* error field beside it is not read.                                       *)
ConfirmBuy(p) ==
  /\ pc[p] = "confirm" /\ tx[p] \in {"landed", "failed"}
  /\ Goto(p, "count")
  /\ tx' = [tx EXCEPT ![p] = "none"]
  /\ UNCHANGED <<stray, loop, operator, keys, slots, daily, held, faults, history>>

(* Nobody waits for the BUYs of these handlers any more.                    *)
Abandon(P) ==
  /\ tx' = [p \in Handlers |-> IF p \in P THEN "none" ELSE tx[p]]
  /\ stray' = stray \cup {p \in P : tx[p] = "pending"}

(* Faulty variant: a BUY that is not confirmed is sent again. *)
BuyTimeoutRetries(p) ==
  /\ pc[p] = "confirm"
  /\ Goto(p, "buy") \/ Goto(p, "unlock")
  /\ Abandon({p})
  /\ UNCHANGED <<loop, operator, keys, slots, daily, held, faults, history>>

(* ConfirmTransaction gives up; the transaction may still land later.       *)
BuyTimeout(p) ==
  /\ pc[p] = "confirm"
  /\ Goto(p, "unlock")
  /\ Abandon({p})
  /\ UNCHANGED <<loop, operator, keys, slots, daily, held, faults, history>>

(* IncrDailyTradeCount: INCR, whose error is only logged, or which is sent  *)
(* again and counts twice.                                                  *)
CountTrade(p) ==
  /\ pc[p] = "count"
  /\ Goto(p, "size")
  /\ bought' = bought + 1
  /\ \/ dailyTrades' = dailyTrades + 1 /\ UNCHANGED <<faults, uncounted>>
     \/ dailyTrades' = dailyTrades + 2 /\ Fault("again") /\ UNCHANGED uncounted
     \/ uncounted' = uncounted + 1 /\ Fault("error") /\ UNCHANGED dailyTrades
  /\ UNCHANGED <<buying, loop, operator, keys, slots, dailyLoss, held, drift, stolen>>

(* GetTradeSize after the BUY: a size of zero leaves the position to        *)
(* recovery, anything else starts the monitor.                              *)
SizeTrade(p) ==
  /\ pc[p] = "size"
  /\ Goto(p, "monitor") \/ Goto(p, "unlock")
  /\ UNCHANGED <<buying, loop, operator, keys, slots, daily, held, faults, history>>

(* MonitorPositionWithBot reaches an exit: TryAcquireSellExit decides       *)
(* whether it sells or returns because somebody else is selling.            *)
MonitorExit(p) ==
  /\ pc[p] = "monitor"
  /\ Goto(p, IF p[2] \in exitKey THEN "unlock" ELSE "sell")
  /\ exitKey' = exitKey \cup {p[2]}
  /\ UNCHANGED <<buying, loop, operator, mintKey, eventKey, cooldownKey, slots,
                 daily, held, faults, history>>

(* An error, or a SETNX that finds its own key, is taken for "somebody      *)
(* else": the monitor returns with the position unsold.                     *)
ExitFails(p) ==
  /\ pc[p] = "monitor"
  /\ Goto(p, "unlock")
  /\ \/ Fault("error") /\ UNCHANGED exitKey
     \/ Fault("again") /\ exitKey' = exitKey \cup {p[2]}
  /\ UNCHANGED <<buying, loop, operator, mintKey, eventKey, cooldownKey, slots,
                 daily, held, history>>

-----------------------------------------------------------------------------
(* Selling, the same code path for the monitor and for recovery.            *)

(* SafeSellWithValidation returns true: the SELL was executed, or it failed *)
(* on chain and its confirmation status was taken for success.              *)
SellConfirmed(p) ==
  /\ pc[p] = "sell"
  /\ Goto(p, "save")
  /\ held' \in {held, held \ {Target(p)}}
  /\ UNCHANGED <<buying, loop, operator, keys, slots, daily, faults, history>>

(* It returns false: nothing was sold, or the confirmation came too late.   *)
SellFailed(p) ==
  /\ pc[p] = "sell"
  /\ Goto(p, "letgo")
  /\ held' \in {held, held \ {Target(p)}}
  /\ UNCHANGED <<buying, loop, operator, keys, slots, daily, faults, history>>

(* SaveTrade appends the trade, or not (TradeStore.tla has its errors); a   *)
(* losing one goes on to SetCooldown.                                       *)
SaveTrade(p) ==
  /\ pc[p] = "save"
  /\ Goto(p, "letgo") \/ Goto(p, "cool")
  /\ UNCHANGED <<buying, loop, operator, keys, slots, daily, held, faults, history>>

(* An error of SetCooldown and of UpdateDailyLoss is ignored.               *)
SetCooldown(p) ==
  /\ pc[p] = "cool"
  /\ Goto(p, "loss")
  /\ \/ cooldownKey' = cooldownKey \cup {Target(p)} /\ UNCHANGED faults
     \/ Fault("error") /\ UNCHANGED cooldownKey
  /\ UNCHANGED <<buying, loop, operator, mintKey, eventKey, exitKey, slots,
                 daily, held, history>>

Losses(n) == dailyLoss' = IF dailyLoss + n < MaxLoss THEN dailyLoss + n ELSE MaxLoss

UpdateDailyLoss(p) ==
  /\ pc[p] = "loss"
  /\ Goto(p, "letgo")
  /\ \/ Losses(1) /\ UNCHANGED faults
     \/ Losses(0) /\ Fault("error")
     \/ Losses(2) /\ Fault("again")
  /\ UNCHANGED <<buying, loop, operator, keys, slots, dailyTrades, held, history>>

(* What follows ReleaseSellExit: the rest of HandleMint, or the next token. *)
AfterSale(p) ==
  /\ Goto(p, IF p[2] = Recovery THEN "next" ELSE "unlock")
  /\ cur' = IF p[2] = Recovery THEN [cur EXCEPT ![p[1]] = None] ELSE cur

(* ReleaseSellExit: deferred in the monitor, last statement in recovery.    *)
(* DEL position:exiting:<m>, executed, or lost, or executed and sent again. *)
ReleaseSellExit(p) ==
  /\ pc[p] = "letgo"
  /\ \/ AfterSale(p) /\ exitKey' = exitKey \ {Target(p)} /\ UNCHANGED faults
     \/ AfterSale(p) /\ Fault("error") /\ UNCHANGED exitKey
     \/ Goto(p, "letgoAgain") /\ Fault("again") /\ exitKey' = exitKey \ {Target(p)} /\ UNCHANGED cur
  /\ UNCHANGED <<buying, todo, booted, operator, mintKey, eventKey, cooldownKey,
                 slots, daily, held, history>>

(* The second copy deletes the key of whoever sells the mint by now.        *)
ReleaseExitAgain(p) ==
  /\ pc[p] = "letgoAgain" /\ AfterSale(p)
  /\ exitKey' = exitKey \ {Target(p)}
  /\ exitStolen' = IF Sellers(Target(p)) = {} THEN exitStolen
                   ELSE exitStolen \cup {Target(p)}
  /\ UNCHANGED <<buying, todo, booted, operator, mintKey, eventKey, cooldownKey,
                 slots, daily, held, faults, drift, tally, lockStolen>>

(* UnlockMint runs before HandleMint returns ...                            *)
UnlockMint(p) ==
  /\ pc[p] = "unlock" /\ DeleteKey(p, "release", "unlockAgain")
  /\ UNCHANGED <<buying, loop, operator, eventKey, cooldownKey, exitKey, slots,
                 daily, held, history>>

(* The second copy deletes the key of whoever has locked the mint by now.   *)
UnlockAgain(p) ==
  /\ \/ pc[p] = "unlockAgain" /\ Goto(p, "release")
     \/ pc[p] = "giveupAgain" /\ Goto(p, "idle")
  /\ mintKey' = mintKey \ {p[2]}
  /\ lockStolen' = IF LockHolders(p[2]) = {} THEN lockStolen
                   ELSE lockStolen \cup {p[2]}
  /\ UNCHANGED <<buying, loop, operator, eventKey, cooldownKey, exitKey, slots,
                 daily, held, faults, drift, tally, exitStolen>>

(* The Lua script of Release. *)
FreeSlot(m) == /\ openCount' = IF openCount > 0 THEN openCount - 1 ELSE openCount
               /\ openMints' = openMints \ {m}

(* ... and the deferred positionlimit.Release after it.                     *)
Release(p) ==
  /\ pc[p] = "release"
  /\ Goto(p, "idle") /\ FreeSlot(p[2])
  /\ UNCHANGED <<buying, loop, operator, keys, daily, held, faults, history>>

(* An error leaves the slot counted; a script that is sent again frees a    *)
(* slot of somebody else.                                                   *)
ReleaseFails(p) ==
  /\ pc[p] = "release"
  /\ \/ /\ Fault("error") /\ Goto(p, "idle")
        /\ leaked' = leaked + 1 /\ UNCHANGED <<slots, forgotten>>
     \/ /\ Fault("again") /\ FreeSlot(p[2]) /\ UNCHANGED <<pc, leaked>>
        /\ forgotten' = forgotten + 1
  /\ UNCHANGED <<buying, loop, operator, keys, daily, held, tally, stolen>>

-----------------------------------------------------------------------------
(* RecoverAll and its loop.                                                 *)

(* GetWalletTokens: one snapshot for the whole pass.  What the RPC does not *)
(* answer for is missing from it.                                           *)
Scan(p) ==
  /\ pc[p] = "scan"
  /\ Goto(p, "next")
  /\ \/ todo' = [todo EXCEPT ![p[1]] = held] /\ UNCHANGED faults
     \/ \E part \in SUBSET held : todo' = [todo EXCEPT ![p[1]] = part] /\ Fault("rpc")
  /\ UNCHANGED <<buying, cur, booted, operator, keys, slots, daily, held, history>>

(* Faulty variant: recovery sells without asking the sell guard. *)
TakeTokenUnguarded(p) ==
  /\ pc[p] = "next"
  /\ \E m \in todo[p[1]] :
       /\ todo' = [todo EXCEPT ![p[1]] = @ \ {m}]
       /\ Goto(p, "sell")
       /\ cur' = [cur EXCEPT ![p[1]] = m]
       /\ exitKey' = exitKey \cup {m}
  /\ UNCHANGED <<buying, booted, operator, mintKey, eventKey, cooldownKey, slots,
                 daily, held, faults, history>>

(* The next token of the snapshot: sell it unless its exit key is taken.    *)
(* Neither the mint lock nor the present balance is looked at.              *)
TakeToken(p) ==
  /\ pc[p] = "next"
  /\ \E m \in todo[p[1]] :
       /\ todo' = [todo EXCEPT ![p[1]] = @ \ {m}]
       /\ IF m \in exitKey
            THEN UNCHANGED <<pc, cur, exitKey>>
            ELSE /\ Goto(p, "sell")
                 /\ cur' = [cur EXCEPT ![p[1]] = m]
                 /\ exitKey' = exitKey \cup {m}
  /\ UNCHANGED <<buying, booted, operator, mintKey, eventKey, cooldownKey, slots,
                 daily, held, faults, history>>

(* An error, or a SETNX that finds its own key: the token is skipped.       *)
TakeTokenFails(p) ==
  /\ pc[p] = "next"
  /\ \E m \in todo[p[1]] :
       /\ todo' = [todo EXCEPT ![p[1]] = @ \ {m}]
       /\ \/ Fault("error") /\ UNCHANGED exitKey
          \/ Fault("again") /\ exitKey' = exitKey \cup {m}
  /\ UNCHANGED <<pc, buying, cur, booted, operator, mintKey, eventKey, cooldownKey,
                 slots, daily, held, history>>

(* The pass ends; the first one is synchronous, StartWorker comes after it. *)
EndPass(p) ==
  /\ pc[p] = "next" /\ todo[p[1]] = {}
  /\ Goto(p, "scan")
  /\ booted' = booted \cup {p[1]}
  /\ UNCHANGED <<buying, todo, cur, operator, keys, slots, daily, held, faults, history>>

-----------------------------------------------------------------------------
(* cmd/reset-pnl, at any moment: the day's counters, then the slots, each   *)
(* by one pipeline of two commands, taken as one step here.  TradeStore.tla *)
(* has what it does before.                                                 *)

StartReset ==
  /\ operator = "idle" /\ Fault("reset")
  /\ operator' = "stats"
  /\ UNCHANGED <<pc, buying, loop, keys, slots, daily, held, history>>

ResetDailyStats ==
  /\ operator = "stats" /\ operator' = "slots"
  /\ dailyLoss' = 0 /\ dailyTrades' = 0
  /\ bought' = 0 /\ uncounted' = 0
  /\ UNCHANGED <<pc, buying, loop, keys, slots, held, faults, drift, stolen>>

ResetRedisState ==
  /\ operator = "slots" /\ operator' = "idle"
  /\ openCount' = 0 /\ openMints' = {}
  /\ leaked' = 0 /\ forgotten' = Cardinality(SlotHolders)
  /\ UNCHANGED <<pc, buying, loop, keys, daily, held, faults, tally, stolen>>

(* It exits at its first error. *)
ResetStops ==
  /\ operator # "idle" /\ operator' = "idle"
  /\ UNCHANGED <<pc, buying, loop, keys, slots, daily, held, faults, history>>

-----------------------------------------------------------------------------
(* Midnight, expiry, panics, crashes, restarts.                             *)

(* The names of the day's keys carry the UTC date: at midnight the guard    *)
(* goes on with two keys that do not exist yet.  A command whose key was    *)
(* named before midnight counts as sent before it.                          *)
Midnight ==
  /\ Fault("midnight")
  /\ dailyLoss' = 0 /\ dailyTrades' = 0
  /\ bought' = 0 /\ uncounted' = 0
  /\ UNCHANGED <<pc, buying, loop, operator, keys, slots, held, drift, stolen>>

ExpireEvent(m) ==
  /\ m \in eventKey
  /\ eventKey' = eventKey \ {m}
  /\ UNCHANGED <<pc, buying, loop, operator, mintKey, cooldownKey, exitKey, slots,
                 daily, held, faults, history>>

(* The two keys below expire only when nobody needs them any more: this is  *)
(* what MintLock shows, on its premises about TTLs, the lengths of phases   *)
(* and refreshes that fail.                                                 *)

(* Faulty variant: LockMint without a TTL. *)
LockWithoutTTL(m) == m \notin Mints /\ UNCHANGED vars

ExpireLock(m) ==
  /\ m \in mintKey /\ LockHolders(m) = {}
  /\ mintKey' = mintKey \ {m}
  /\ UNCHANGED <<pc, buying, loop, operator, eventKey, cooldownKey, exitKey, slots,
                 daily, held, faults, history>>

(* Faulty variant: TryAcquireSellExit without a TTL. *)
ExitKeyWithoutTTL(m) == m \notin Mints /\ UNCHANGED vars

ExpireExit(m) ==
  /\ m \in exitKey /\ Sellers(m) = {}
  /\ exitKey' = exitKey \ {m}
  /\ UNCHANGED <<pc, buying, loop, operator, mintKey, eventKey, cooldownKey, slots,
                 daily, held, faults, history>>

(* A panic in the monitor is recovered there, its defers run and HandleMint *)
(* goes on to UnlockMint.  Anywhere else safego.Recover catches it outside  *)
(* HandleMint: the deferred Release runs, UnlockMint does not.              *)
Panic(p) ==
  /\ Fault("crash")
  /\ pc[p] \in LockStages
  /\ Goto(p, CASE pc[p] \in {"monitor", "letgoAgain"} -> "unlock"
               [] pc[p] \in SellStages                 -> "letgo"
               [] pc[p] \in {"reserve", "giveup"}      -> "idle"
               [] OTHER                                -> "release")
  /\ Abandon({p})
  /\ UNCHANGED <<loop, operator, keys, slots, daily, held, history>>

(* The process of worker w stops, by a crash or by a shutdown signal (main  *)
(* does not wait for its HandleMint goroutines).                            *)
Crash(w) ==
  /\ Fault("crash") /\ pc[<<w, Recovery>>] # "off"
  /\ pc' = [p \in Procs |-> IF p[1] # w THEN pc[p]
                            ELSE IF p[2] = Recovery THEN "off" ELSE "idle"]
  /\ Abandon({p \in Handlers : p[1] = w})
  /\ todo' = [todo EXCEPT ![w] = {}]
  /\ cur' = [cur EXCEPT ![w] = None]
  /\ booted' = booted \ {w}
  /\ leaked' = leaked + Cardinality({p \in SlotHolders : p[1] = w})
  /\ UNCHANGED <<operator, keys, slots, daily, held, forgotten, tally, stolen>>

(* main: Init, then the synchronous RecoverAll.  Nothing resets the slots.  *)
Restart(w) ==
  /\ pc[<<w, Recovery>>] = "off"
  /\ Goto(<<w, Recovery>>, "scan")
  /\ UNCHANGED <<buying, loop, operator, keys, slots, daily, held, faults, history>>

-----------------------------------------------------------------------------
Sell(p) == SellConfirmed(p) \/ SellFailed(p)

SellPath(p) == \/ Sell(p) \/ SaveTrade(p) \/ SetCooldown(p) \/ UpdateDailyLoss(p)
               \/ ReleaseSellExit(p) \/ ReleaseExitAgain(p)

BuyAndValidate(p) == SubmitBuy(p) \/ BuyRefused(p) \/ ConfirmBuy(p) \/ BuyTimeout(p)

HandleMint(p) ==
  \/ PassGuard(p) \/ Reject(p) \/ CheckCooldown(p) \/ CheckEvent(p)
  \/ LockMint(p) \/ TryReserve(p) \/ GiveUp(p) \/ BuyAndValidate(p)
  \/ CountTrade(p) \/ SizeTrade(p) \/ MonitorExit(p)
  \/ SellPath(p) \/ UnlockMint(p) \/ UnlockAgain(p) \/ Release(p)

RedisFails(p) == \/ CooldownUnread(p) \/ EventFails(p) \/ LockFails(p)
                 \/ ReserveFails(p) \/ ExitFails(p) \/ ReleaseFails(p)

RecoverAll(p) == Scan(p) \/ TakeToken(p) \/ EndPass(p) \/ SellPath(p)

Reset == StartReset \/ ResetDailyStats \/ ResetRedisState \/ ResetStops

Next ==
  \/ \E p \in Handlers : \/ Dispatch(p) \/ HandleMint(p) \/ RedisFails(p) \/ Panic(p)
                         \/ Settle(p) \/ SettleStray(p)
  \/ \E p \in Recoveries : RecoverAll(p) \/ TakeTokenFails(p)
  \/ \E m \in Mints : ExpireEvent(m) \/ ExpireLock(m) \/ ExpireExit(m)
  \/ \E w \in Workers : Crash(w) \/ Restart(w)
  \/ Reset \/ Midnight

Spec == Init /\ [][Next]_vars

(* Some SELL of mint m is executed by the chain. *)
SellLands(m) == m \in held /\ \E p \in Procs : Target(p) = m /\ Sell(p) /\ m \notin held'

(* Goroutines keep running, the supervisor restarts a stopped worker, TTLs  *)
(* elapse, the chain decides the BUYs that are awaited, and a SELL that is  *)
(* retried for ever is executed at last.                                    *)
Fairness ==
  /\ \A p \in Handlers : WF_vars(HandleMint(p)) /\ WF_vars(Settle(p))
  /\ \A p \in Recoveries : WF_vars(RecoverAll(p))
  /\ \A m \in Mints : WF_vars(ExpireLock(m)) /\ WF_vars(ExpireExit(m))
                      /\ SF_vars(SellLands(m))
  /\ \A w \in Workers : WF_vars(Restart(w))

FairSpec == Spec /\ Fairness

-----------------------------------------------------------------------------
(* Safety *)

(* LockMint .. UnlockMint is a critical section: two goroutines, of one or  *)
(* of several workers, never trade the same mint at the same time, also     *)
(* when a worker dies, a handler panics inside the section or a command     *)
(* fails, until a DEL that was sent again meets the key of another owner.   *)
OneHandlerPerMint ==
  \A m \in Mints \ lockStolen : \A p, q \in LockHolders(m) : p = q

(* sellguard: the monitor and the recovery loops of all workers never run   *)
(* SafeSellWithValidation, or record its result, for one mint concurrently, *)
(* with the same exception.                                                 *)
OneSellerPerMint == \A m \in Mints \ exitStolen : \A p, q \in Sellers(m) : p = q

(* positionlimit: the Redis counter never exceeds MAX_OPEN_POSITIONS, and   *)
(* it is the slots held by live handlers, plus those whose holder died or   *)
(* could not release, less at most those that were open when the operator   *)
(* reset it and those that a repeated Release has freed for another.        *)
SlotAccounting ==
  /\ openCount <= MaxOpen
  /\ openCount <= Cardinality(SlotHolders) + leaked
  /\ openCount >= Cardinality(SlotHolders) + leaked - forgotten

(* guard quota: CanTrade reads the counter that IncrDailyTradeCount raises  *)
(* after the BUY, so concurrent handlers overshoot MAX_DAILY_TRADES, but    *)
(* the confirmed BUYs since the last reset or midnight do so by less than   *)
(* the number of handlers that can run at once, and those that could not be *)
(* counted.                                                                 *)
QuotaOvershootBounded ==
  bought + Cardinality(Entering) <= MaxTrades - 1 + Cardinality(Handlers) + uncounted

-----------------------------------------------------------------------------
(* Liveness *)

(* No mint stays locked: the handler unlocks it or its TTL elapses.         *)
LockFreed == \A m \in Mints : m \in mintKey ~> m \notin mintKey

(* blueprint section 11, no position is left behind: whatever BUY landed,   *)
(* confirmed or not, monitored or not, is sold in the end.                  *)
Liquidated == \A m \in Mints : m \in held ~> m \notin held

-----------------------------------------------------------------------------
(* What comments and documents say and the code does not do. *)

(* idempotency.go:38, a mint that lost money is never traded again.         *)
NeverTradeAgain ==
  [][\A p \in Handlers : pc[p] = "buy" /\ pc'[p] = "confirm" => p[2] \notin cooldownKey]_vars

(* PR-005, no new BUY after the kill switch has triggered.                  *)
NoBuyAfterKill ==
  [][\A p \in Handlers : pc[p] = "buy" /\ pc'[p] = "confirm" => dailyLoss < MaxLoss]_vars

(* blueprint section 7, BUY stops when the daily quota is used up.          *)
QuotaKept == dailyTrades <= MaxTrades

(* limit.go:45, a mint has one slot at a time because of the mint lock.     *)
OneSlotPerMint == \A p, q \in SlotHolders : p[2] = q[2] => p = q

(* sellguard.go:14, monitor and recovery cannot sell a mint concurrently.   *)
NeverTwoSellers == \A m \in Mints : \A p, q \in Sellers(m) : p = q
=============================================================================
