---------------------------- MODULE Sniper_proof ----------------------------
(***************************************************************************)
(* Proofs about the pipeline for every number of workers, mints, slots and *)
(* faults: types, the two critical sections, the slot accounting and the   *)
(* bound on the quota overshoot.                                           *)
(***************************************************************************)
EXTENDS SniperHistory, SniperMutex, FiniteSetTheorems, TLAPS

(* A handler between LockMint and UnlockMint owns the key of its mint, as   *)
(* long as no repeated DEL took it.                                         *)
LockInv ==
  /\ \A p \in Handlers : pc[p] \in LockStages => p[2] \in mintKey \cup lockStolen
  /\ \A p, q \in Handlers :
       p[2] = q[2] /\ pc[p] \in LockStages /\ pc[q] \in LockStages
         => p = q \/ p[2] \in lockStolen

(* A seller, monitor or recovery, owns the exit key of the mint it sells.   *)
SellInv ==
  /\ \A p \in Procs : pc[p] \in SellStages => Target(p) \in exitKey \cup exitStolen
  /\ \A p, q \in Procs :
       Target(p) = Target(q) /\ pc[p] \in SellStages /\ pc[q] \in SellStages
         => p = q \/ Target(p) \in exitStolen

(* A handler past CanTrade found the quota open, and every confirmed BUY    *)
(* raised the counter that CanTrade reads or failed to.                     *)
QuotaInv == bought <= dailyTrades + uncounted /\ QuotaOvershootBounded

USE PipelineAssumption

(* Handlers and recovery loops are different processes.                     *)
LEMMA ProcFacts ==
  /\ IsFiniteSet(Handlers)
  /\ \A p \in Handlers : p[1] \in Workers /\ p[2] \in Mints /\ p[2] # Recovery
                         /\ p \in Procs
  /\ \A p \in Recoveries : p[1] \in Workers /\ p[2] = Recovery /\ p \in Procs
  /\ \A w \in Workers : <<w, Recovery>> \in Recoveries
  /\ \A p, q \in Recoveries : p[1] = q[1] => p = q
  /\ \A p \in Procs : p = <<p[1], p[2]>>
<1>1. IsFiniteSet(Handlers)
  BY FS_Product DEF Handlers
<1> QED
  BY <1>1 DEF Handlers, Recoveries, Procs

(* Where the stages of the two kinds of process overlap, and whom a seller  *)
(* works on.                                                                *)
LEMMA StageFacts ==
  /\ HandlerStages = {"idle", "guard", "cooldown", "event", "lock", "reserve", "giveup",
                      "buy", "confirm", "count", "size", "monitor", "unlock", "release",
                      "sell", "save", "cool", "loss", "letgo",
                      "letgoAgain", "unlockAgain", "giveupAgain"}
  /\ RecoveryStages = {"off", "scan", "next", "sell", "save", "cool", "loss", "letgo",
                       "letgoAgain"}
  BY DEF HandlerStages, RecoveryStages, LockStages, SlotStages, OpenStages, SellStages

(* A recovery loop that sells is selling a mint.                            *)
TypeInv ==
  /\ TypeOK
  /\ \A p \in Procs : pc[p] \in SellStages \/ pc[p] = "letgoAgain" => Target(p) \in Mints

(* Every action keeps the types and that a seller has a mint.               *)
LEMMA TypeInduction == TypeInv /\ [Next]_vars => TypeInv'
<1> SUFFICES ASSUME TypeInv, [Next]_vars PROVE TypeInv'
  OBVIOUS
<1> USE ProcFacts, StageFacts
    DEF TypeInv, TypeOK, Target, Goto, SellStages, Fault, vars, buying, loop, slots, daily,
        keys, drift, tally, stolen, history
<1>1. ASSUME NEW p \in Handlers, Dispatch(p) PROVE TypeInv'
  BY <1>1 DEF Dispatch
<1>2. ASSUME NEW p \in Handlers, PassGuard(p) PROVE TypeInv'
  BY <1>2 DEF PassGuard
<1>3. ASSUME NEW p \in Handlers, Reject(p) PROVE TypeInv'
  BY <1>3 DEF Reject
<1>4. ASSUME NEW p \in Handlers, CheckCooldown(p) PROVE TypeInv'
  BY <1>4 DEF CheckCooldown
<1>5. ASSUME NEW p \in Handlers, CooldownUnread(p) PROVE TypeInv'
  BY <1>5 DEF CooldownUnread
<1>6. ASSUME NEW p \in Handlers, CheckEvent(p) PROVE TypeInv'
  BY <1>6 DEF CheckEvent
<1>7. ASSUME NEW p \in Handlers, EventFails(p) PROVE TypeInv'
  BY <1>7 DEF EventFails
<1>8. ASSUME NEW p \in Handlers, LockMint(p) PROVE TypeInv'
  BY <1>8 DEF LockMint
<1>9. ASSUME NEW p \in Handlers, LockFails(p) PROVE TypeInv'
  BY <1>9 DEF LockFails
<1>10. ASSUME NEW p \in Handlers, TryReserve(p) PROVE TypeInv'
  BY <1>10 DEF TryReserve
<1>11. ASSUME NEW p \in Handlers, ReserveFails(p) PROVE TypeInv'
  BY <1>11 DEF ReserveFails
<1>12. ASSUME NEW p \in Handlers, GiveUp(p) PROVE TypeInv'
  BY <1>12 DEF GiveUp, DeleteKey
<1>13. ASSUME NEW p \in Handlers, SubmitBuy(p) PROVE TypeInv'
  BY <1>13 DEF SubmitBuy, LostBuy
<1>14. ASSUME NEW p \in Handlers, BuyRefused(p) PROVE TypeInv'
  BY <1>14 DEF BuyRefused, LostBuy
<1>15. ASSUME NEW p \in Handlers, Settle(p) PROVE TypeInv'
  BY <1>15 DEF Settle
<1>16. ASSUME NEW p \in Handlers, SettleStray(p) PROVE TypeInv'
  BY <1>16 DEF SettleStray
<1>17. ASSUME NEW p \in Handlers, ConfirmBuy(p) PROVE TypeInv'
  BY <1>17 DEF ConfirmBuy
<1>18. ASSUME NEW p \in Handlers, BuyTimeout(p) PROVE TypeInv'
  BY <1>18 DEF BuyTimeout, Abandon
<1>19. ASSUME NEW p \in Handlers, CountTrade(p) PROVE TypeInv'
  BY <1>19 DEF CountTrade
<1>20. ASSUME NEW p \in Handlers, SizeTrade(p) PROVE TypeInv'
  BY <1>20 DEF SizeTrade
<1>21. ASSUME NEW p \in Handlers, MonitorExit(p) PROVE TypeInv'
  BY <1>21 DEF MonitorExit
<1>22. ASSUME NEW p \in Handlers, ExitFails(p) PROVE TypeInv'
  BY <1>22 DEF ExitFails
<1>23. ASSUME NEW p \in Handlers, UnlockMint(p) PROVE TypeInv'
  BY <1>23 DEF UnlockMint, DeleteKey
<1>24. ASSUME NEW p \in Handlers, UnlockAgain(p) PROVE TypeInv'
  BY <1>24 DEF UnlockAgain
<1>25. ASSUME NEW p \in Handlers, Release(p) PROVE TypeInv'
  BY <1>25 DEF Release, FreeSlot
<1>26. ASSUME NEW p \in Handlers, ReleaseFails(p) PROVE TypeInv'
  BY <1>26 DEF ReleaseFails, FreeSlot
<1>27. ASSUME NEW p \in Handlers, Panic(p) PROVE TypeInv'
  BY <1>27 DEF Panic, Abandon
<1>28. ASSUME NEW p \in Procs, SellConfirmed(p) PROVE TypeInv'
  BY <1>28 DEF SellConfirmed
<1>29. ASSUME NEW p \in Procs, SellFailed(p) PROVE TypeInv'
  BY <1>29 DEF SellFailed
<1>30. ASSUME NEW p \in Procs, SaveTrade(p) PROVE TypeInv'
  BY <1>30 DEF SaveTrade
<1>31. ASSUME NEW p \in Procs, SetCooldown(p) PROVE TypeInv'
  BY <1>31 DEF SetCooldown
<1>32. ASSUME NEW p \in Procs, UpdateDailyLoss(p) PROVE TypeInv'
  BY <1>32 DEF UpdateDailyLoss, Losses
<1>33. ASSUME NEW p \in Procs, ReleaseSellExit(p) \/ ReleaseExitAgain(p) PROVE TypeInv'
  <2> USE DEF ReleaseSellExit, ReleaseExitAgain, AfterSale
  <2>1. CASE p \in Handlers
    BY <1>33, <2>1
  <2>2. CASE p \in Recoveries
    <3>1. \A q \in Procs : q # p => pc'[q] = pc[q] /\ Target(q)' = Target(q)
      BY <1>33, <2>2 DEF Procs
    <3>2. pc'[p] = "next" \/ (pc'[p] = "letgoAgain" /\ cur' = cur)
      BY <1>33, <2>2
    <3>3. pc[p] \in {"letgo", "letgoAgain"} /\ Target(p) \in Mints
      BY <1>33
    <3>4. exitKey' \subseteq Mints /\ exitStolen' \subseteq Mints
      BY <1>33, <3>3
    <3>5. faults' \in 0..MaxFaults
      BY <1>33
    <3>6. cur' \in [Workers -> Mints \cup {None}]
      BY <1>33, <2>2
    <3>7. pc' \in [Procs -> HandlerStages \cup RecoveryStages]
      BY <1>33, <2>2
    <3>8. /\ \A q \in Handlers : pc'[q] \in HandlerStages
          /\ \A q \in Recoveries : pc'[q] \in RecoveryStages
      BY <1>33, <2>2, <3>1, <3>2
    <3>9. TypeOK'
      BY <1>33, <3>4, <3>5, <3>6, <3>7, <3>8
    <3> QED
      BY <3>1, <3>2, <3>3, <3>9
  <2> QED
    BY <2>1, <2>2 DEF Procs
<1>34. ASSUME NEW p \in Recoveries, Scan(p) PROVE TypeInv'
  <2>1. PICK part \in SUBSET held : todo' = [todo EXCEPT ![p[1]] = part]
    BY <1>34 DEF Scan
  <2>2. todo' \in [Workers -> SUBSET Mints]
    BY <2>1
  <2>3. faults' \in 0..MaxFaults
    BY <1>34 DEF Scan
  <2> QED
    BY <1>34, <2>2, <2>3 DEF Scan
<1>35. ASSUME NEW p \in Recoveries, TakeToken(p) PROVE TypeInv'
  <2>1. \A q \in Procs : q # p => pc'[q] = pc[q] /\ Target(q)' = Target(q)
    BY <1>35 DEF TakeToken, Procs
  <2>2. PICK m \in todo[p[1]] :
          /\ todo' = [todo EXCEPT ![p[1]] = @ \ {m}]
          /\ \/ UNCHANGED <<pc, cur, exitKey>>
             \/ /\ Goto(p, "sell")
                /\ cur' = [cur EXCEPT ![p[1]] = m]
                /\ exitKey' = exitKey \cup {m}
    BY <1>35 DEF TakeToken
  <2>3. m \in Mints /\ p[1] \in Workers
    BY <2>2
  <2>4. todo' \in [Workers -> SUBSET Mints] /\ cur' \in [Workers -> Mints \cup {None}]
        /\ exitKey' \subseteq Mints
    BY <2>2, <2>3
  <2>5. TypeOK'
    BY <1>35, <2>2, <2>4 DEF TakeToken
  <2>6. pc'[p] \in SellStages \/ pc'[p] = "letgoAgain" => Target(p)' \in Mints
    BY <1>35 DEF TakeToken
  <2> QED
    BY <2>1, <2>5, <2>6
<1>36. ASSUME NEW p \in Recoveries, TakeTokenFails(p) PROVE TypeInv'
  BY <1>36 DEF TakeTokenFails
<1>37. ASSUME NEW p \in Recoveries, EndPass(p) PROVE TypeInv'
  BY <1>37 DEF EndPass
<1>38. ASSUME NEW m \in Mints, ExpireEvent(m) PROVE TypeInv'
  BY <1>38 DEF ExpireEvent
<1>39. ASSUME NEW m \in Mints, ExpireLock(m) PROVE TypeInv'
  BY <1>39 DEF ExpireLock
<1>40. ASSUME NEW m \in Mints, ExpireExit(m) PROVE TypeInv'
  BY <1>40 DEF ExpireExit
<1>41. ASSUME NEW w \in Workers, Crash(w) PROVE TypeInv'
  <2>1. Cardinality({p \in SlotHolders : p[1] = w}) \in Nat
    BY FS_Subset, FS_CardinalityType DEF SlotHolders
  <2> QED
    BY <1>41, <2>1 DEF Crash, Abandon
<1>42. ASSUME NEW w \in Workers, Restart(w) PROVE TypeInv'
  BY <1>42 DEF Restart
<1>43. CASE Reset \/ Midnight
  <2>1. Cardinality(SlotHolders) \in Nat
    BY FS_Subset, FS_CardinalityType DEF SlotHolders
  <2> QED
    BY <1>43, <2>1 DEF Reset, StartReset, ResetDailyStats, ResetRedisState, ResetStops, Midnight
<1>44. CASE UNCHANGED vars
  BY <1>44
<1> QED
  BY <1>1, <1>2, <1>3, <1>4, <1>5, <1>6, <1>7, <1>8, <1>9, <1>10, <1>11, <1>12, <1>13, <1>14,
     <1>15, <1>16, <1>17, <1>18, <1>19, <1>20, <1>21, <1>22, <1>23, <1>24, <1>25, <1>26, <1>27,
     <1>28, <1>29, <1>30, <1>31, <1>32, <1>33, <1>34, <1>35, <1>36, <1>37, <1>38, <1>39, <1>40,
     <1>41, <1>42, <1>43, <1>44 DEF Next, HandleMint, BuyAndValidate, RedisFails, RecoverAll, SellPath, Sell, Procs

(* The stages, keys, counters and wallet of the pipeline keep their types,  *)
(* for any number of workers and mints.                                     *)
THEOREM TypeCorrect == Spec => []TypeOK
<1>1. Init => TypeInv
  BY ProcFacts, StageFacts DEF Init, TypeInv, TypeOK, Procs, SellStages
<1>2. TypeInv => TypeOK
  BY DEF TypeInv
<1> QED
  BY <1>1, <1>2, TypeInduction, PTL DEF Spec

(* Every action keeps that a handler inside the critical section has the key*)
(* and is alone.                                                            *)
LEMMA LockInduction == TypeInv /\ LockInv /\ [Next]_vars => LockInv'
<1> SUFFICES ASSUME TypeInv, LockInv, [Next]_vars PROVE LockInv'
  OBVIOUS
<1> USE ProcFacts
    DEF TypeInv, TypeOK, LockInv, LockStages, OpenStages, SellStages, Goto, Fault, vars, buying, loop, slots, daily,
        keys, drift, tally, stolen, history
<1>1. ASSUME NEW p \in Handlers, Dispatch(p) \/ Settle(p) \/ SettleStray(p) \/ Panic(p)
      PROVE  LockInv'
  BY <1>1 DEF Dispatch, Settle, SettleStray, Panic, Abandon
<1>2. ASSUME NEW p \in Handlers, HandleMint(p) PROVE LockInv'
  <2>1. CASE UnlockAgain(p)
    BY <2>1 DEF UnlockAgain, LockHolders
  <2>2. CASE ReleaseExitAgain(p) \/ ReleaseSellExit(p) \/ UnlockMint(p) \/ GiveUp(p)
    BY <2>2 DEF ReleaseExitAgain, ReleaseSellExit, AfterSale, UnlockMint, GiveUp, DeleteKey
  <2>3. CASE LockMint(p)
    BY <2>3 DEF LockMint
  <2>4. CASE ~(UnlockAgain(p) \/ ReleaseExitAgain(p) \/ ReleaseSellExit(p)
               \/ UnlockMint(p) \/ GiveUp(p) \/ LockMint(p))
    <3>1. /\ mintKey' = mintKey /\ lockStolen' = lockStolen
          /\ \A q \in Handlers : pc'[q] \in LockStages => pc[q] \in LockStages
      BY <1>2, <2>4, SMTT(60) DEF HandleMint, PassGuard, Reject, CheckCooldown, CheckEvent, LockMint,
     TryReserve, GiveUp, DeleteKey, BuyAndValidate, SubmitBuy, BuyRefused, LostBuy, ConfirmBuy,
     BuyTimeout, Abandon, CountTrade, SizeTrade, MonitorExit, UnlockMint, UnlockAgain, Release,
     FreeSlot, SellPath, Sell, SellConfirmed, SellFailed, SaveTrade, SetCooldown,
     UpdateDailyLoss, ReleaseSellExit, ReleaseExitAgain, AfterSale
    <3> QED
      BY <3>1
  <2> QED
    BY <2>1, <2>2, <2>3, <2>4
<1>3. ASSUME NEW p \in Handlers, RedisFails(p) PROVE LockInv'
  BY <1>3 DEF RedisFails, CooldownUnread, EventFails, LockFails, ReserveFails, ExitFails, ReleaseFails,
     FreeSlot
<1>4. ASSUME NEW p \in Recoveries, RecoverAll(p) \/ TakeTokenFails(p) PROVE LockInv'
  BY <1>4 DEF RecoverAll, Scan, TakeToken, TakeTokenFails, EndPass, SellPath, Sell, SellConfirmed,
     SellFailed, SaveTrade, SetCooldown, UpdateDailyLoss, ReleaseSellExit, ReleaseExitAgain,
     AfterSale
<1>5. ASSUME NEW m \in Mints, ExpireEvent(m) \/ ExpireLock(m) \/ ExpireExit(m) PROVE LockInv'
  BY <1>5 DEF ExpireEvent, ExpireLock, ExpireExit, LockHolders
<1>6. ASSUME NEW w \in Workers, Crash(w) \/ Restart(w) PROVE LockInv'
  BY <1>6 DEF Crash, Restart
<1>7. CASE Reset \/ Midnight
  BY <1>7 DEF Reset, StartReset, ResetDailyStats, ResetRedisState, ResetStops, Midnight
<1>8. CASE UNCHANGED vars
  BY <1>8
<1> QED
  BY <1>1, <1>2, <1>3, <1>4, <1>5, <1>6, <1>7, <1>8 DEF Next

(* Every action keeps that a seller has the exit key and is alone.          *)
LEMMA SellInduction == TypeInv /\ SellInv /\ [Next]_vars => SellInv'
<1> SUFFICES ASSUME TypeInv, SellInv, [Next]_vars PROVE SellInv'
  OBVIOUS
<1> USE ProcFacts
    DEF TypeInv, TypeOK, SellInv, SellStages, Target, Goto, Fault, vars, buying, loop, slots, daily,
        keys, drift, tally, stolen, history
<1>1. ASSUME NEW p \in Handlers, Dispatch(p) \/ Settle(p) \/ SettleStray(p) \/ Panic(p)
      PROVE  SellInv'
  BY <1>1 DEF Dispatch, Settle, SettleStray, Panic, Abandon
<1>2. ASSUME NEW p \in Procs, ReleaseSellExit(p) \/ ReleaseExitAgain(p) PROVE SellInv'
  <2>1. \A q \in Procs : q # p => pc'[q] = pc[q] /\ Target(q)' = Target(q)
    BY <1>2 DEF ReleaseSellExit, ReleaseExitAgain, AfterSale, Procs
  <2>2. pc'[p] \notin SellStages
    BY <1>2 DEF ReleaseSellExit, ReleaseExitAgain, AfterSale
  <2>3. CASE ReleaseSellExit(p)
    BY <2>1, <2>2, <2>3 DEF ReleaseSellExit
  <2>4. CASE ReleaseExitAgain(p)
    BY <2>1, <2>2, <2>4 DEF ReleaseExitAgain, Sellers
  <2> QED
    BY <1>2, <2>3, <2>4
<1>3. ASSUME NEW p \in Handlers, HandleMint(p),
             ~(ReleaseSellExit(p) \/ ReleaseExitAgain(p)) PROVE SellInv'
  <2>1. CASE MonitorExit(p)
    BY <2>1 DEF MonitorExit
  <2>2. CASE ~MonitorExit(p)
    <3>1. /\ exitKey' = exitKey /\ exitStolen' = exitStolen /\ cur' = cur
          /\ \A q \in Procs : pc'[q] \in SellStages => pc[q] \in SellStages
      BY <1>3, <2>2, SMTT(60) DEF HandleMint, PassGuard, Reject, CheckCooldown, CheckEvent, LockMint,
     TryReserve, GiveUp, DeleteKey, BuyAndValidate, SubmitBuy, BuyRefused, LostBuy, ConfirmBuy,
     BuyTimeout, Abandon, CountTrade, SizeTrade, MonitorExit, UnlockMint, UnlockAgain, Release,
     FreeSlot, SellPath, Sell, SellConfirmed, SellFailed, SaveTrade, SetCooldown,
     UpdateDailyLoss, ReleaseSellExit, ReleaseExitAgain, AfterSale
    <3> QED
      BY <3>1
  <2> QED
    BY <2>1, <2>2
<1>4. ASSUME NEW p \in Handlers, RedisFails(p) PROVE SellInv'
  BY <1>4 DEF RedisFails, CooldownUnread, EventFails, LockFails, ReserveFails, ExitFails, ReleaseFails,
     FreeSlot
<1>5. ASSUME NEW p \in Recoveries, RecoverAll(p) \/ TakeTokenFails(p),
             ~(ReleaseSellExit(p) \/ ReleaseExitAgain(p)) PROVE SellInv'
  <2>1. \A q \in Procs : q # p => pc'[q] = pc[q] /\ Target(q)' = Target(q)
    BY <1>5 DEF RecoverAll, Scan, TakeToken, TakeTokenFails, EndPass, SellPath, Sell, SellConfirmed,
     SellFailed, SaveTrade, SetCooldown, UpdateDailyLoss, ReleaseSellExit, ReleaseExitAgain,
     AfterSale, Procs
  <2>2. CASE TakeToken(p)
    BY <2>1, <2>2 DEF TakeToken
  <2>3. CASE TakeTokenFails(p)
    BY <2>1, <2>3 DEF TakeTokenFails
  <2>4. CASE Scan(p) \/ EndPass(p) \/ Sell(p) \/ SaveTrade(p) \/ SetCooldown(p) \/ UpdateDailyLoss(p)
    <3>1. exitKey' = exitKey /\ exitStolen' = exitStolen /\ Target(p)' = Target(p)
          /\ (pc'[p] \in SellStages => pc[p] \in SellStages)
      BY <2>4 DEF Scan, EndPass, Sell, SellConfirmed, SellFailed, SaveTrade, SetCooldown,
         UpdateDailyLoss
    <3> QED
      BY <2>1, <3>1
  <2> QED
    BY <1>5, <2>2, <2>3, <2>4 DEF RecoverAll, SellPath
<1>6. ASSUME NEW m \in Mints, ExpireEvent(m) \/ ExpireLock(m) \/ ExpireExit(m) PROVE SellInv'
  BY <1>6 DEF ExpireEvent, ExpireLock, ExpireExit, Sellers
<1>7. ASSUME NEW w \in Workers, Crash(w) \/ Restart(w) PROVE SellInv'
  <2>1. exitKey' = exitKey /\ exitStolen' = exitStolen
    BY <1>7 DEF Crash, Restart
  <2>2. \A q \in Procs : pc'[q] \in SellStages => pc[q] \in SellStages /\ Target(q)' = Target(q)
    BY <1>7 DEF Crash, Restart, Procs
  <2> QED
    BY <2>1, <2>2
<1>8. CASE Reset \/ Midnight
  BY <1>8 DEF Reset, StartReset, ResetDailyStats, ResetRedisState, ResetStops, Midnight
<1>9. CASE UNCHANGED vars
  BY <1>9
<1> QED
  BY <1>1, <1>2, <1>3, <1>4, <1>5, <1>6, <1>7, <1>8, <1>9 DEF Next, HandleMint, RecoverAll, SellPath, Procs

(* What every action but six leaves alone: who holds a slot, and the count. *)
LEMMA SlotFrame ==
  ASSUME TypeInv, [Next]_vars,
         ~\E p \in Handlers : TryReserve(p) \/ ReserveFails(p) \/ Release(p) \/ ReleaseFails(p),
         ~\E w \in Workers : Crash(w),
         ~ResetRedisState
  PROVE  SlotHolders' = SlotHolders /\ openCount' = openCount /\ drift' = drift
<1> USE ProcFacts
    DEF TypeInv, TypeOK, SlotHolders, SlotStages, OpenStages, SellStages, Goto, Fault, vars,
        buying, loop, slots, daily, keys, drift, tally, stolen, history
<1> DEFINE Frame == SlotHolders' = SlotHolders /\ openCount' = openCount /\ drift' = drift
<1>1. ASSUME NEW p \in Handlers, Dispatch(p) \/ Settle(p) \/ SettleStray(p) \/ Panic(p)
      PROVE  Frame
  BY <1>1 DEF Dispatch, Settle, SettleStray, Panic, Abandon, LockStages
<1>2. ASSUME NEW p \in Handlers, HandleMint(p) PROVE Frame
  BY <1>2, SMTT(60) DEF HandleMint, PassGuard, Reject, CheckCooldown, CheckEvent, LockMint,
     GiveUp, DeleteKey, BuyAndValidate, SubmitBuy, BuyRefused, LostBuy, ConfirmBuy,
     BuyTimeout, Abandon, CountTrade, SizeTrade, MonitorExit, UnlockMint, UnlockAgain,
     SellPath, Sell, SellConfirmed, SellFailed, SaveTrade, SetCooldown,
     UpdateDailyLoss, Losses, ReleaseSellExit, ReleaseExitAgain, AfterSale
<1>3. ASSUME NEW p \in Handlers, RedisFails(p) PROVE Frame
  BY <1>3 DEF RedisFails, CooldownUnread, EventFails, LockFails, ExitFails
<1>4. ASSUME NEW p \in Recoveries, RecoverAll(p) \/ TakeTokenFails(p) PROVE Frame
  BY <1>4 DEF RecoverAll, Scan, TakeToken, TakeTokenFails, EndPass, SellPath, Sell, SellConfirmed,
     SellFailed, SaveTrade, SetCooldown, UpdateDailyLoss, ReleaseSellExit, ReleaseExitAgain,
     AfterSale
<1>5. ASSUME NEW m \in Mints, ExpireEvent(m) \/ ExpireLock(m) \/ ExpireExit(m) PROVE Frame
  BY <1>5 DEF ExpireEvent, ExpireLock, ExpireExit
<1>6. ASSUME NEW w \in Workers, Restart(w) PROVE Frame
  BY <1>6 DEF Restart
<1>7. CASE StartReset \/ ResetDailyStats \/ ResetStops \/ Midnight
  BY <1>7 DEF StartReset, ResetDailyStats, ResetStops, Midnight
<1>8. CASE UNCHANGED vars
  BY <1>8
<1> QED
  BY <1>1, <1>2, <1>3, <1>4, <1>5, <1>6, <1>7, <1>8 DEF Next, Reset

(* Every action keeps the count of slots.                                   *)
LEMMA SlotInduction == TypeInv /\ SlotAccounting /\ [Next]_vars => SlotAccounting'
<1> SUFFICES ASSUME TypeInv, SlotAccounting, [Next]_vars PROVE SlotAccounting'
  OBVIOUS
<1>1. IsFiniteSet(SlotHolders) /\ Cardinality(SlotHolders) \in Nat
  BY ProcFacts, FS_Subset, FS_CardinalityType DEF SlotHolders
<1>2. openCount \in Nat /\ leaked \in Nat /\ forgotten \in Nat
  BY DEF TypeInv, TypeOK
<1>3. ASSUME NEW p \in Handlers, TryReserve(p) PROVE SlotAccounting'
  <2>1. CASE openCount >= MaxOpen
    <3>1. SlotHolders' = SlotHolders
      BY <1>3, <2>1, ProcFacts DEF TypeInv, TypeOK, TryReserve, SlotHolders, SlotStages, OpenStages, SellStages, Goto
    <3> QED
      BY <1>3, <2>1, <3>1 DEF TryReserve, slots, drift, history, SlotAccounting
  <2>2. CASE openCount < MaxOpen
    <3>1. SlotHolders' = SlotHolders \cup {p} /\ p \notin SlotHolders
      BY <1>2, <1>3, <2>2, ProcFacts DEF TypeInv, TypeOK, TryReserve, SlotHolders, SlotStages, OpenStages, SellStages, Goto
    <3>2. Cardinality(SlotHolders') = Cardinality(SlotHolders) + 1
      BY <1>1, <3>1, FS_AddElement
    <3> QED
      BY <1>1, <1>2, <1>3, <2>2, <3>2 DEF TryReserve, drift, history, SlotAccounting
  <2> QED
    BY <1>2, <2>1, <2>2
<1>4. ASSUME NEW p \in Handlers, ReserveFails(p) PROVE SlotAccounting'
  <2>1. SlotHolders' = SlotHolders
    BY <1>4, ProcFacts DEF TypeInv, TypeOK, ReserveFails, SlotHolders, SlotStages, OpenStages, SellStages, Goto
  <2> QED
    BY <1>1, <1>2, <1>4, <2>1 DEF ReserveFails, slots, SlotAccounting
<1>5. ASSUME NEW p \in Handlers, pc[p] = "release", pc'[p] = "idle",
             \A q \in Handlers : q # p => pc'[q] = pc[q]
      PROVE  Cardinality(SlotHolders') = Cardinality(SlotHolders) - 1
             /\ Cardinality(SlotHolders') \in Nat
  <2>1. SlotHolders' = SlotHolders \ {p} /\ p \in SlotHolders
    BY <1>5 DEF SlotHolders, SlotStages, OpenStages, SellStages
  <2> QED
    BY <1>1, <2>1, FS_RemoveElement, FS_Subset, FS_CardinalityType
<1>6. ASSUME NEW p \in Handlers, Release(p) PROVE SlotAccounting'
  <2>1. Cardinality(SlotHolders') = Cardinality(SlotHolders) - 1
        /\ Cardinality(SlotHolders') \in Nat
    BY <1>5, <1>6, ProcFacts DEF TypeInv, TypeOK, Release, Goto
  <2> QED
    BY <1>1, <1>2, <1>6, <2>1 DEF Release, FreeSlot, drift, history, SlotAccounting
<1>7. ASSUME NEW p \in Handlers, ReleaseFails(p) PROVE SlotAccounting'
  <2>1. CASE Goto(p, "idle") /\ leaked' = leaked + 1 /\ UNCHANGED <<slots, forgotten>>
    <3>1. Cardinality(SlotHolders') = Cardinality(SlotHolders) - 1
          /\ Cardinality(SlotHolders') \in Nat
      BY <1>5, <1>7, <2>1, ProcFacts DEF TypeInv, TypeOK, ReleaseFails, Goto
    <3> QED
      BY <1>1, <1>2, <2>1, <3>1 DEF slots, SlotAccounting
  <2>2. CASE FreeSlot(p[2]) /\ UNCHANGED <<pc, leaked>> /\ forgotten' = forgotten + 1
    <3>1. SlotHolders' = SlotHolders
      BY <2>2 DEF SlotHolders
    <3> QED
      BY <1>1, <1>2, <2>2, <3>1 DEF FreeSlot, SlotAccounting
  <2> QED
    BY <1>7, <2>1, <2>2 DEF ReleaseFails
<1>8. ASSUME NEW w \in Workers, Crash(w) PROVE SlotAccounting'
  <2> DEFINE D == {p \in SlotHolders : p[1] = w}
  <2>1. SlotHolders' = SlotHolders \ D
    BY <1>8, ProcFacts DEF TypeInv, TypeOK, Crash, SlotHolders, SlotStages, OpenStages, SellStages
  <2>2. IsFiniteSet(D) /\ SlotHolders \cap D = D
    BY <1>1, FS_Subset
  <2>3. Cardinality(SlotHolders') = Cardinality(SlotHolders) - Cardinality(D)
    BY <1>1, <2>1, <2>2, FS_Difference
  <2>4. Cardinality(D) \in Nat /\ leaked' = leaked + Cardinality(D)
        /\ UNCHANGED <<openCount, forgotten>>
    BY <1>8, <2>2, FS_CardinalityType DEF Crash, slots
  <2> QED
    BY <1>1, <1>2, <2>3, <2>4 DEF SlotAccounting
<1>9. CASE ResetRedisState
  <2>1. SlotHolders' = SlotHolders
    BY <1>9 DEF ResetRedisState, SlotHolders
  <2> QED
    BY <1>1, <1>9, <2>1 DEF ResetRedisState, SlotAccounting
<1>10. CASE /\ ~\E p \in Handlers : \/ TryReserve(p) \/ ReserveFails(p)
                                    \/ Release(p) \/ ReleaseFails(p)
            /\ ~\E w \in Workers : Crash(w)
            /\ ~ResetRedisState
  BY <1>10, SlotFrame DEF drift, SlotAccounting
<1> QED
  BY <1>3, <1>4, <1>6, <1>7, <1>8, <1>9, <1>10

(* A handler past CanTrade found the quota open; only CanTrade adds one.    *)
LEMMA QuotaInduction == TypeInv /\ QuotaInv /\ [Next]_vars => QuotaInv'
<1> SUFFICES ASSUME TypeInv, QuotaInv, [Next]_vars PROVE QuotaInv'
  OBVIOUS
<1>1. /\ IsFiniteSet(Entering) /\ Cardinality(Entering) \in Nat
      /\ IsFiniteSet(Handlers) /\ Cardinality(Handlers) \in Nat
  BY ProcFacts, FS_Subset, FS_CardinalityType DEF Entering
<1>2. dailyTrades \in Nat /\ bought \in Nat /\ uncounted \in Nat /\ MaxTrades \in Nat \ {0}
  BY DEF TypeInv, TypeOK
<1>3. Cardinality(Entering') \in Nat /\ Cardinality(Entering') <= Cardinality(Handlers)
  <2>1. Entering' \subseteq Handlers
    BY DEF Entering
  <2> QED
    BY <1>1, <2>1, FS_Subset, FS_CardinalityType
<1>4. ASSUME NEW p \in Handlers, PassGuard(p) PROVE QuotaInv'
  <2>1. dailyTrades <= MaxTrades - 1 /\ UNCHANGED <<dailyTrades, bought, uncounted>>
    BY <1>2, <1>4 DEF PassGuard, CanTrade, daily, history, tally
  <2> QED
    BY <1>1, <1>2, <1>3, <2>1 DEF QuotaInv, QuotaOvershootBounded
<1>5. ASSUME NEW p \in Handlers, CountTrade(p) PROVE QuotaInv'
  <2>1. Entering' = Entering \ {p} /\ p \in Entering
    BY <1>5, ProcFacts DEF TypeInv, TypeOK, CountTrade, Entering, EntryStages, Goto
  <2>2. Cardinality(Entering') = Cardinality(Entering) - 1
    BY <1>1, <2>1, FS_RemoveElement
  <2> QED
    BY <1>1, <1>2, <1>5, <2>2 DEF CountTrade, QuotaInv, QuotaOvershootBounded
<1>6. CASE ResetDailyStats \/ Midnight
  BY <1>1, <1>2, <1>3, <1>6 DEF ResetDailyStats, Midnight, QuotaInv, QuotaOvershootBounded
<1>7. CASE ~(ResetDailyStats \/ Midnight \/ \E p \in Handlers : PassGuard(p) \/ CountTrade(p))
  <2> USE ProcFacts
      DEF TypeInv, TypeOK, Entering, EntryStages, Goto, Fault, vars, buying, loop, slots,
          daily, keys, drift, tally, stolen, history
  <2> DEFINE Frame == Entering' \subseteq Entering /\ UNCHANGED <<dailyTrades, bought, uncounted>>
  <2>1. ASSUME NEW p \in Handlers, Dispatch(p) \/ Settle(p) \/ SettleStray(p) \/ Panic(p)
        PROVE  Frame
    BY <2>1 DEF Dispatch, Settle, SettleStray, Panic, Abandon
  <2>2. ASSUME NEW p \in Handlers, HandleMint(p) PROVE Frame
    BY <1>7, <2>2, SMTT(60) DEF HandleMint, Reject, CheckCooldown, CheckEvent, LockMint,
     TryReserve, GiveUp, DeleteKey, BuyAndValidate, SubmitBuy, BuyRefused, LostBuy, ConfirmBuy,
     BuyTimeout, Abandon, SizeTrade, MonitorExit, UnlockMint, UnlockAgain, Release,
     FreeSlot, SellPath, Sell, SellConfirmed, SellFailed, SaveTrade, SetCooldown,
     UpdateDailyLoss, Losses, ReleaseSellExit, ReleaseExitAgain, AfterSale
  <2>3. ASSUME NEW p \in Handlers, RedisFails(p) PROVE Frame
    BY <2>3 DEF RedisFails, CooldownUnread, EventFails, LockFails, ReserveFails, ExitFails,
     ReleaseFails
  <2>4. ASSUME NEW p \in Recoveries, RecoverAll(p) \/ TakeTokenFails(p) PROVE Frame
    BY <2>4 DEF RecoverAll, Scan, TakeToken, TakeTokenFails, EndPass, SellPath, Sell, SellConfirmed,
     SellFailed, SaveTrade, SetCooldown, UpdateDailyLoss, ReleaseSellExit, ReleaseExitAgain,
     AfterSale
  <2>5. ASSUME NEW m \in Mints, ExpireEvent(m) \/ ExpireLock(m) \/ ExpireExit(m) PROVE Frame
    BY <2>5 DEF ExpireEvent, ExpireLock, ExpireExit
  <2>6. ASSUME NEW w \in Workers, Crash(w) \/ Restart(w) PROVE Frame
    BY <2>6 DEF Crash, Restart
  <2>7. ASSUME StartReset \/ ResetRedisState \/ ResetStops PROVE Frame
    BY <2>7 DEF StartReset, ResetRedisState, ResetStops
  <2>8. Frame
    BY <1>7, <2>1, <2>2, <2>3, <2>4, <2>5, <2>6, <2>7 DEF Next, Reset
  <2> HIDE DEF Entering
  <2>9. Cardinality(Entering') <= Cardinality(Entering)
    BY <1>1, <2>8, FS_Subset
  <2> QED
    BY <1>1, <1>2, <1>3, <2>8, <2>9 DEF QuotaInv, QuotaOvershootBounded
<1> QED
  BY <1>4, <1>5, <1>6, <1>7

-----------------------------------------------------------------------------
(* At most one goroutine of all workers is between LockMint and UnlockMint  *)
(* of a mint (lock.go), whatever crashes, panics and failed commands happen,*)
(* until a repeated DEL meets the key of another.                           *)
THEOREM LockExclusion == Spec => []OneHandlerPerMint
<1>1. Init => TypeInv /\ LockInv
  BY ProcFacts, StageFacts DEF Init, TypeInv, TypeOK, LockInv, LockStages, OpenStages, Procs, SellStages
<1>2. LockInv => OneHandlerPerMint
  BY DEF LockInv, OneHandlerPerMint, LockHolders
<1> QED
  BY <1>1, <1>2, TypeInduction, LockInduction, PTL DEF Spec

(* The monitor and the recovery loops never sell one mint concurrently      *)
(* (sellguard.go), with the same exception.                                 *)
THEOREM SellExclusion == Spec => []OneSellerPerMint
<1>1. Init => TypeInv /\ SellInv
  BY ProcFacts, StageFacts DEF Init, TypeInv, TypeOK, SellInv, Procs, SellStages
<1>2. SellInv => OneSellerPerMint
  BY DEF SellInv, OneSellerPerMint, Sellers
<1> QED
  BY <1>1, <1>2, TypeInduction, SellInduction, PTL DEF Spec

(* The Redis position counter (positionlimit) is the live holders plus the  *)
(* slots that were lost, less at most those that a reset or a repeated      *)
(* Release has freed, and stays within MAX_OPEN_POSITIONS.                  *)
THEOREM SlotsAccounted == Spec => []SlotAccounting
<1>1. Init => TypeInv
  BY ProcFacts, StageFacts DEF Init, TypeInv, TypeOK, Procs, SellStages
<1>2. Init => SlotAccounting
  <2> SUFFICES ASSUME Init PROVE SlotAccounting
    OBVIOUS
  <2>1. \A p \in Handlers : pc[p] = "idle"
    BY ProcFacts DEF Init
  <2>2. SlotHolders = {}
    BY <2>1 DEF SlotHolders, SlotStages, OpenStages, SellStages
  <2> QED
    BY <2>2, FS_EmptySet DEF Init, SlotAccounting
<1> QED
  BY <1>1, <1>2, TypeInduction, SlotInduction, PTL DEF Spec

(* The confirmed BUYs of the day exceed MAX_DAILY_TRADES by less than the   *)
(* number of handlers (guard.CanTrade before, guard.IncrDailyTradeCount     *)
(* after) and those whose INCR failed.                                      *)
THEOREM QuotaBound == Spec => []QuotaOvershootBounded
<1>1. Init => TypeInv
  BY ProcFacts, StageFacts DEF Init, TypeInv, TypeOK, Procs, SellStages
<1>2. Init => QuotaInv
  <2> SUFFICES ASSUME Init PROVE QuotaInv
    OBVIOUS
  <2>1. \A p \in Handlers : pc[p] = "idle"
    BY ProcFacts DEF Init
  <2>2. Entering = {}
    BY <2>1 DEF Entering, EntryStages
  <2>3. Cardinality(Handlers) \in Nat
    BY ProcFacts, FS_CardinalityType
  <2> QED
    BY <2>2, <2>3, FS_EmptySet DEF Init, QuotaInv, QuotaOvershootBounded
<1>3. QuotaInv => QuotaOvershootBounded
  BY DEF QuotaInv
<1> QED
  BY <1>1, <1>2, <1>3, TypeInduction, QuotaInduction, PTL DEF Spec
-----------------------------------------------------------------------------
(* A handler has a transaction exactly while it waits for the confirmation. *)
AwaitInv ==
  \A p \in Handlers : pc[p] = "confirm" <=> tx[p] # "none"

(* What every action but the BUY itself, the reservation before it and the  *)
(* count after it leaves alone.                                             *)
LEMMA BuyFrame ==
  ASSUME TypeInv, [Next]_vars,
         ~\E p \in Handlers : \/ TryReserve(p) \/ BuyAndValidate(p) \/ CountTrade(p)
                              \/ Panic(p) \/ Settle(p) \/ SettleStray(p),
         ~\E w \in Workers : Crash(w)
  PROVE  /\ UNCHANGED <<tx, stray>>
         /\ \A p \in Handlers :
              pc'[p] = pc[p] \/ {pc[p], pc'[p]} \cap {"buy", "confirm", "count"} = {}
<1> USE ProcFacts
    DEF TypeInv, TypeOK, Goto, Fault, vars, buying, loop, slots, daily, keys, drift, tally,
        stolen, history
<1> DEFINE Frame == /\ UNCHANGED <<tx, stray>>
                    /\ \A p \in Handlers :
                         pc'[p] = pc[p] \/ {pc[p], pc'[p]} \cap {"buy", "confirm", "count"} = {}
<1>1. ASSUME NEW p \in Handlers, Dispatch(p) PROVE Frame
  BY <1>1 DEF Dispatch
<1>2. ASSUME NEW p \in Handlers, HandleMint(p) PROVE Frame
  BY <1>2, SMTT(60) DEF HandleMint, PassGuard, Reject, CheckCooldown, CheckEvent, LockMint,
     GiveUp, DeleteKey, SizeTrade, MonitorExit, UnlockMint, UnlockAgain, Release,
     SellPath, Sell, SellConfirmed, SellFailed, SaveTrade, SetCooldown,
     UpdateDailyLoss, ReleaseSellExit, ReleaseExitAgain, AfterSale
<1>3. ASSUME NEW p \in Handlers, RedisFails(p) PROVE Frame
  BY <1>3 DEF RedisFails, CooldownUnread, EventFails, LockFails, ReserveFails, ExitFails, ReleaseFails
<1>4. ASSUME NEW p \in Recoveries, RecoverAll(p) \/ TakeTokenFails(p) PROVE Frame
  BY <1>4 DEF RecoverAll, Scan, TakeToken, TakeTokenFails, EndPass, SellPath, Sell, SellConfirmed,
     SellFailed, SaveTrade, SetCooldown, UpdateDailyLoss, ReleaseSellExit, ReleaseExitAgain,
     AfterSale
<1>5. ASSUME NEW m \in Mints, ExpireEvent(m) \/ ExpireLock(m) \/ ExpireExit(m) PROVE Frame
  BY <1>5 DEF ExpireEvent, ExpireLock, ExpireExit
<1>6. ASSUME NEW w \in Workers, Restart(w) PROVE Frame
  BY <1>6 DEF Restart
<1>7. CASE Reset \/ Midnight
  BY <1>7 DEF Reset, StartReset, ResetDailyStats, ResetRedisState, ResetStops, Midnight
<1>8. CASE UNCHANGED vars
  BY <1>8
<1> QED
  BY <1>1, <1>2, <1>3, <1>4, <1>5, <1>6, <1>7, <1>8 DEF Next

(* Every action keeps that a transaction belongs to a handler that waits.   *)
LEMMA AwaitInduction == TypeInv /\ AwaitInv /\ [Next]_vars => AwaitInv'
<1> SUFFICES ASSUME TypeInv, AwaitInv, [Next]_vars PROVE AwaitInv'
  OBVIOUS
<1> USE ProcFacts DEF TypeInv, TypeOK, AwaitInv, Goto
<1>1. ASSUME NEW p \in Handlers, TryReserve(p) \/ CountTrade(p) PROVE AwaitInv'
  BY <1>1 DEF TryReserve, CountTrade, buying
<1>2. ASSUME NEW p \in Handlers, BuyAndValidate(p) PROVE AwaitInv'
  BY <1>2 DEF BuyAndValidate, SubmitBuy, BuyRefused, ConfirmBuy, BuyTimeout, Abandon
<1>3. ASSUME NEW p \in Handlers, Panic(p) PROVE AwaitInv'
  BY <1>3 DEF Panic, Abandon
<1>4. ASSUME NEW p \in Handlers, Settle(p) \/ SettleStray(p) PROVE AwaitInv'
  BY <1>4 DEF Settle, SettleStray
<1>5. ASSUME NEW w \in Workers, Crash(w) PROVE AwaitInv'
  BY <1>5 DEF Crash, Abandon
<1>6. CASE /\ ~\E p \in Handlers : \/ TryReserve(p) \/ BuyAndValidate(p) \/ CountTrade(p)
                                   \/ Panic(p) \/ Settle(p) \/ SettleStray(p)
           /\ ~\E w \in Workers : Crash(w)
  BY <1>6, BuyFrame
<1> QED
  BY <1>1, <1>2, <1>3, <1>4, <1>5, <1>6

(* A handler whose call does not move makes no step of its order, or one    *)
(* that its order allows.                                                   *)
LEMMA OrderStutters ==
  ASSUME TypeInv, AwaitInv, NEW p \in Handlers, buyStage'[p] = buyStage[p], tx'[p] = tx[p],
         p \in stray' => p \in stray
  PROVE  Buy!Step(p)
<1>1. buyStage[p] \in {"off", "asking", "waiting", "true"}
  BY DEF buyStage
<1>2. buyStage[p] # "waiting" => tx[p] = "none"
  BY DEF buyStage, AwaitInv
<1> QED
  BY <1>1, <1>2 DEF Buy!Step, Buy!Off, Buy!Asking, Buy!Waiting, Buy!Returned, Buy!Strays

(* Every step of the pipeline is a step of the orders of all handlers.      *)
LEMMA OrderStep == TypeInv /\ AwaitInv /\ [Next]_vars => [Buy!Next]_<<buyStage, tx, stray>>
<1> SUFFICES ASSUME TypeInv, AwaitInv, [Next]_vars PROVE Buy!Next
  OBVIOUS
<1>1. /\ buyStage' = [p \in Handlers |-> buyStage'[p]]
      /\ tx' = [p \in Handlers |-> tx'[p]]
      /\ stray' \subseteq Handlers
  <2>1. TypeInv'
    BY TypeInduction
  <2>2. buyStage' = [p \in Handlers |-> buyStage'[p]]
    BY DEF buyStage
  <2> QED
    BY <2>1, <2>2 DEF TypeInv, TypeOK
<1>2. ASSUME NEW p \in Handlers, Buy!Step(p),
             \A q \in Handlers : q # p => /\ pc'[q] = pc[q] /\ tx'[q] = tx[q]
                                          /\ q \in stray' => q \in stray
      PROVE  Buy!Next
  <2>1. \A q \in Handlers : q # p => buyStage'[q] = buyStage[q]
    BY <1>2 DEF buyStage
  <2>2. \A q \in Handlers : Buy!Step(q)
    BY <1>2, <2>1, OrderStutters
  <2> QED
    BY <1>1, <2>2 DEF Buy!Next
<1> USE ProcFacts DEF TypeInv, TypeOK, AwaitInv, Goto
<1>3. ASSUME NEW p \in Handlers, TryReserve(p) \/ CountTrade(p) PROVE Buy!Next
  <2>1. Buy!Step(p)
    BY <1>3 DEF TryReserve, CountTrade, buying, buyStage, Buy!Step, Buy!Off, Buy!Returned,
       Buy!Strays
  <2> QED
    BY <1>2, <1>3, <2>1 DEF TryReserve, CountTrade, buying
<1>4. ASSUME NEW p \in Handlers, BuyAndValidate(p) PROVE Buy!Next
  <2>1. CASE SubmitBuy(p) \/ BuyRefused(p)
    <3>1. Buy!Asking(p)
      BY <2>1 DEF SubmitBuy, BuyRefused, buyStage, Buy!Asking
    <3> QED
      BY <1>2, <2>1, <3>1 DEF SubmitBuy, BuyRefused, LostBuy, Buy!Step
  <2>2. CASE ConfirmBuy(p)
    <3>1. Buy!Confirmed(p)
      BY <2>2 DEF ConfirmBuy, buyStage, Buy!Confirmed, Buy!Strays
    <3> QED
      BY <1>2, <2>2, <3>1 DEF ConfirmBuy, Buy!Step
  <2>3. CASE BuyTimeout(p)
    <3>1. Buy!GivesUp(p)
      BY <2>3 DEF BuyTimeout, Abandon, buyStage, Buy!GivesUp, Buy!Strays
    <3> QED
      BY <1>2, <2>3, <3>1 DEF BuyTimeout, Abandon, Buy!Step
  <2> QED
    BY <1>4, <2>1, <2>2, <2>3 DEF BuyAndValidate
<1>5. ASSUME NEW p \in Handlers, Panic(p) PROVE Buy!Next
  <2>1. Buy!Step(p)
    BY <1>5 DEF Panic, Abandon, SellStages, buyStage, Buy!Step, Buy!Off, Buy!Asking, Buy!GivesUp,
       Buy!Returned, Buy!Strays
  <2> QED
    BY <1>2, <1>5, <2>1 DEF Panic, Abandon
<1>6. ASSUME NEW p \in Handlers, Settle(p) PROVE Buy!Next
  <2>1. Buy!Waiting(p)
    BY <1>6 DEF Settle, buyStage, Buy!Waiting, Buy!Strays
  <2> QED
    BY <1>2, <1>6, <2>1 DEF Settle, Buy!Step
<1>7. ASSUME NEW p \in Handlers, SettleStray(p) PROVE Buy!Next
  <2>1. buyStage' = buyStage /\ tx' = tx /\ stray' \subseteq stray
    BY <1>7 DEF SettleStray, buyStage
  <2>2. \A q \in Handlers : Buy!Step(q)
    BY <2>1, OrderStutters
  <2> QED
    BY <1>1, <2>2 DEF Buy!Next
<1>8. ASSUME NEW w \in Workers, Crash(w) PROVE Buy!Next
  <2>1. ASSUME NEW p \in Handlers, p[1] = w PROVE Buy!Step(p)
    BY <1>8, <2>1 DEF Crash, Abandon, buyStage, Buy!Step, Buy!Off, Buy!Asking, Buy!GivesUp,
       Buy!Returned, Buy!Strays
  <2>2. ASSUME NEW p \in Handlers, p[1] # w PROVE Buy!Step(p)
    BY <1>8, <2>2, OrderStutters DEF Crash, Abandon, buyStage
  <2> QED
    BY <1>1, <2>1, <2>2 DEF Buy!Next
<1>9. CASE /\ ~\E p \in Handlers : \/ TryReserve(p) \/ BuyAndValidate(p) \/ CountTrade(p)
                                   \/ Panic(p) \/ Settle(p) \/ SettleStray(p)
           /\ ~\E w \in Workers : Crash(w)
  <2>1. tx' = tx /\ stray' = stray /\ \A p \in Handlers : buyStage'[p] = buyStage[p]
    BY <1>9, BuyFrame DEF buyStage
  <2>2. \A q \in Handlers : Buy!Step(q)
    BY <2>1, OrderStutters
  <2> QED
    BY <1>1, <2>2 DEF Buy!Next
<1> QED
  BY <1>3, <1>4, <1>5, <1>6, <1>7, <1>8, <1>9

(* BuyAndValidate as HandleMint uses it: with any number of handlers and    *)
(* faults their BUYs are orders, so that what Executor implements is what   *)
(* the pipeline relies on.                                                  *)
THEOREM BuysImplementOrders == Spec => BuysAreOrders
<1>1. Init => TypeInv /\ AwaitInv
  BY ProcFacts, StageFacts DEF Init, TypeInv, TypeOK, AwaitInv, Procs, SellStages
<1>2. Init => Buy!Init
  BY ProcFacts DEF Init, Buy!Init, buyStage
<1> QED
  BY <1>1, <1>2, TypeInduction, AwaitInduction, OrderStep, PTL DEF Spec, BuysAreOrders, Buy!Spec
-----------------------------------------------------------------------------
(* Whoever starts to sell found the exit key free; a mint whose key was     *)
(* stolen once stays so marked.                                             *)
LEMMA SellerStep ==
  ASSUME TypeInv, [Next]_vars
  PROVE  /\ exitStolen \subseteq exitStolen'
         /\ \A q \in Procs : pc'[q] \in SellStages =>
              \/ pc[q] \in SellStages /\ Target(q)' = Target(q)
              \/ Target(q)' \notin exitKey
<1> USE ProcFacts
    DEF TypeInv, TypeOK, SellStages, Target, Goto, Fault, vars, buying, loop, slots, daily,
        keys, drift, tally, stolen, history
<1> DEFINE Frame == /\ exitStolen \subseteq exitStolen'
                    /\ \A q \in Procs : pc'[q] \in SellStages =>
                         \/ pc[q] \in SellStages /\ Target(q)' = Target(q)
                         \/ Target(q)' \notin exitKey
<1>1. ASSUME NEW p \in Handlers, Dispatch(p) \/ Settle(p) \/ SettleStray(p) \/ Panic(p)
      PROVE  Frame
  BY <1>1 DEF Dispatch, Settle, SettleStray, Panic, Abandon
<1>2. ASSUME NEW p \in Procs, ReleaseSellExit(p) \/ ReleaseExitAgain(p) PROVE Frame
  <2>1. \A q \in Procs : q # p => pc'[q] = pc[q] /\ Target(q)' = Target(q)
    BY <1>2 DEF ReleaseSellExit, ReleaseExitAgain, AfterSale, Procs
  <2>2. pc'[p] \notin SellStages /\ exitStolen \subseteq exitStolen'
    BY <1>2 DEF ReleaseSellExit, ReleaseExitAgain, AfterSale
  <2> QED
    BY <2>1, <2>2
<1>3. ASSUME NEW p \in Handlers, MonitorExit(p) PROVE Frame
  BY <1>3 DEF MonitorExit
<1>4. ASSUME NEW p \in Handlers, HandleMint(p),
             ~(ReleaseSellExit(p) \/ ReleaseExitAgain(p) \/ MonitorExit(p)) PROVE Frame
  <2>1. /\ exitStolen' = exitStolen /\ cur' = cur
        /\ \A q \in Procs : pc'[q] \in SellStages => pc[q] \in SellStages
    BY <1>4, SMTT(60) DEF HandleMint, PassGuard, Reject, CheckCooldown, CheckEvent, LockMint,
     TryReserve, GiveUp, DeleteKey, BuyAndValidate, SubmitBuy, BuyRefused, LostBuy, ConfirmBuy,
     BuyTimeout, Abandon, CountTrade, SizeTrade, UnlockMint, UnlockAgain, Release,
     FreeSlot, SellPath, Sell, SellConfirmed, SellFailed, SaveTrade, SetCooldown,
     UpdateDailyLoss
  <2> QED
    BY <2>1
<1>5. ASSUME NEW p \in Handlers, RedisFails(p) PROVE Frame
  BY <1>5 DEF RedisFails, CooldownUnread, EventFails, LockFails, ReserveFails, ExitFails, ReleaseFails,
     FreeSlot
<1>6. ASSUME NEW p \in Recoveries, TakeToken(p) PROVE Frame
  <2>1. \A q \in Procs : q # p => pc'[q] = pc[q] /\ Target(q)' = Target(q)
    BY <1>6 DEF TakeToken, Procs
  <2>2. pc'[p] \in SellStages => Target(p)' \notin exitKey
    BY <1>6 DEF TakeToken
  <2>3. exitStolen' = exitStolen
    BY <1>6 DEF TakeToken
  <2> QED
    BY <2>1, <2>2, <2>3
<1>7. ASSUME NEW p \in Recoveries, RecoverAll(p) \/ TakeTokenFails(p),
             ~(ReleaseSellExit(p) \/ ReleaseExitAgain(p) \/ TakeToken(p)) PROVE Frame
  BY <1>7 DEF RecoverAll, Scan, TakeTokenFails, EndPass, SellPath, Sell, SellConfirmed,
     SellFailed, SaveTrade, SetCooldown, UpdateDailyLoss
<1>8. ASSUME NEW m \in Mints, ExpireEvent(m) \/ ExpireLock(m) \/ ExpireExit(m) PROVE Frame
  BY <1>8 DEF ExpireEvent, ExpireLock, ExpireExit
<1>9. ASSUME NEW w \in Workers, Crash(w) \/ Restart(w) PROVE Frame
  <2>1. exitStolen' = exitStolen
    BY <1>9 DEF Crash, Restart
  <2>2. \A q \in Procs : pc'[q] \in SellStages => pc[q] \in SellStages /\ Target(q)' = Target(q)
    BY <1>9 DEF Crash, Restart, Procs
  <2> QED
    BY <2>1, <2>2
<1>10. CASE Reset \/ Midnight
  BY <1>10 DEF Reset, StartReset, ResetDailyStats, ResetRedisState, ResetStops, Midnight
<1>11. CASE UNCHANGED vars
  BY <1>11
<1> QED
  BY <1>1, <1>2, <1>3, <1>4, <1>5, <1>6, <1>7, <1>8, <1>9, <1>10, <1>11
     DEF Next, HandleMint, RecoverAll, SellPath, Procs

(* A mint passes from one seller to the next only through none.             *)
LEMMA SaleStep == TypeInv /\ SellInv /\ SellInv' /\ [Next]_vars => [Exit!Next]_exitOwner
<1> SUFFICES ASSUME TypeInv, SellInv, SellInv', [Next]_vars PROVE Exit!Next
  OBVIOUS
<1>1. exitOwner' \in [Mints -> Procs \cup {None}]
  <2>1. ASSUME NEW m \in Mints, ~(Sellers(m)' = {} \/ m \in exitStolen')
        PROVE  (CHOOSE p \in Sellers(m)' : TRUE) \in Procs
    BY <2>1 DEF Sellers
  <2> QED
    BY <2>1 DEF exitOwner
<1>2. ASSUME NEW m \in Mints, exitOwner[m] # None, exitOwner'[m] # None
      PROVE  exitOwner'[m] = exitOwner[m]
  <2>1. m \notin exitStolen /\ m \notin exitStolen'
        /\ Sellers(m) # {} /\ Sellers(m)' # {}
        /\ exitOwner[m] = (CHOOSE p \in Sellers(m) : TRUE)
        /\ exitOwner'[m] = (CHOOSE p \in Sellers(m)' : TRUE)
    BY <1>2 DEF exitOwner
  <2>2. m \in exitKey
    BY <2>1 DEF SellInv, Sellers
  <2>3. \A q \in Sellers(m)' : q \in Sellers(m)
    BY <2>2, SellerStep DEF Sellers
  <2>4. \A p, q \in Sellers(m) : p = q
    BY <2>1 DEF SellInv, Sellers
  <2>5. Sellers(m)' = Sellers(m)
    BY <2>1, <2>3, <2>4
  <2> QED
    BY <2>1, <2>5
<1> QED
  BY <1>1, <1>2 DEF Exit!Next

(* The sell guard as the monitors and the recovery loops of all workers use *)
(* it (sellguard.TryAcquireSellExit .. ReleaseSellExit): whatever crashes   *)
(* and fails, one sale of a mint is over before the next one starts, until  *)
(* a repeated DEL takes the key of a seller.                                *)
THEOREM SalesImplementMutex == Spec => SalesAreExclusive
<1>1. Init => TypeInv /\ SellInv
  BY ProcFacts, StageFacts DEF Init, TypeInv, TypeOK, SellInv, Procs, SellStages
<1>2. Init => Exit!Init
  BY DEF Init, Exit!Init, exitOwner, Sellers, SellStages
<1> QED
  BY <1>1, <1>2, TypeInduction, SellInduction, SaleStep, PTL
     DEF Spec, SalesAreExclusive, Exit!Spec

-----------------------------------------------------------------------------
(* A mint that is in the cooldown stays in it, the counters of the day only *)
(* rise until the operator resets them or midnight changes their keys, and  *)
(* a handler gets past CanTrade and past the cooldown only if they let it.  *)
LEMMA EntryStep ==
  ASSUME TypeInv, [Next]_vars
  PROVE  /\ cooldownKey \subseteq cooldownKey'
         /\ ResetDailyStats \/ Midnight \/ (dailyLoss <= dailyLoss' /\ dailyTrades <= dailyTrades')
         /\ \A q \in Handlers :
              \/ pc'[q] = pc[q] \/ pc'[q] = "idle" \/ CooldownUnread(q)
              \/ pc[q] = "idle" /\ pc'[q] = "guard" /\ UNCHANGED <<cooldownKey, daily>>
              \/ pc[q] = "guard" /\ CanTrade /\ pc'[q] = "cooldown"
              \/ pc[q] = "cooldown" /\ q[2] \notin cooldownKey
              \/ pc[q] \notin {"idle", "guard", "cooldown"}
<1>0. dailyLoss \in Nat /\ dailyTrades \in Nat /\ MaxLoss \in Nat
  BY DEF TypeInv, TypeOK
<1> USE ProcFacts
    DEF TypeInv, TypeOK, Goto, Fault, vars, buying, loop, slots, daily, keys, drift, tally,
        stolen, history
<1> DEFINE
      Moves(q) == \/ pc'[q] = pc[q] \/ pc'[q] = "idle" \/ CooldownUnread(q)
                  \/ pc[q] = "idle" /\ pc'[q] = "guard" /\ UNCHANGED <<cooldownKey, daily>>
                  \/ pc[q] = "guard" /\ CanTrade /\ pc'[q] = "cooldown"
                  \/ pc[q] = "cooldown" /\ q[2] \notin cooldownKey
                  \/ pc[q] \notin {"idle", "guard", "cooldown"}
      Rises == dailyLoss <= dailyLoss' /\ dailyTrades <= dailyTrades'
      Good  == /\ cooldownKey \subseteq cooldownKey'
               /\ ResetDailyStats \/ Midnight \/ Rises
               /\ \A q \in Handlers : Moves(q)
<1>1. ASSUME NEW p \in Handlers,
             Dispatch(p) \/ Settle(p) \/ SettleStray(p) \/ Panic(p) \/ RedisFails(p)
      PROVE  Good
  <2>1. cooldownKey' = cooldownKey /\ UNCHANGED daily
    BY <1>1 DEF Dispatch, Settle, SettleStray, Panic, Abandon, RedisFails, CooldownUnread,
       EventFails, LockFails, ReserveFails, ExitFails, ReleaseFails
  <2>2. \A q \in Handlers : q # p => pc'[q] = pc[q]
    BY <1>1 DEF Dispatch, Settle, SettleStray, Panic, RedisFails, CooldownUnread,
       EventFails, LockFails, ReserveFails, ExitFails, ReleaseFails
  <2>3. Moves(p)
    <3>1. CASE Dispatch(p) \/ Settle(p) \/ SettleStray(p) \/ Panic(p)
      BY <3>1 DEF Dispatch, Settle, SettleStray, Panic, LockStages, OpenStages, SellStages
    <3>2. CASE RedisFails(p)
      BY <3>2 DEF RedisFails, EventFails, LockFails, ReserveFails, ExitFails, ReleaseFails
    <3> QED
      BY <1>1, <3>1, <3>2
  <2> QED
    BY <1>0, <2>1, <2>2, <2>3
<1>2. ASSUME NEW p \in Handlers, HandleMint(p) PROVE \A q \in Handlers : Moves(q)
  BY <1>2, SMTT(60) DEF HandleMint, PassGuard, Reject, CheckCooldown, CheckEvent, LockMint,
     TryReserve, GiveUp, DeleteKey, BuyAndValidate, SubmitBuy, BuyRefused, ConfirmBuy,
     BuyTimeout, CountTrade, SizeTrade, MonitorExit, UnlockMint, UnlockAgain, Release,
     SellPath, Sell, SellConfirmed, SellFailed, SaveTrade, SetCooldown,
     UpdateDailyLoss, ReleaseSellExit, ReleaseExitAgain, AfterSale
<1>3. ASSUME NEW p \in Handlers, HandleMint(p) PROVE cooldownKey \subseteq cooldownKey' /\ Rises
  <2>1. CASE CountTrade(p) \/ UpdateDailyLoss(p)
    BY <1>0, <2>1 DEF CountTrade, UpdateDailyLoss, Losses
  <2>2. CASE ~(CountTrade(p) \/ UpdateDailyLoss(p))
    BY <1>0, <1>3, <2>2, SMTT(60) DEF HandleMint, PassGuard, Reject, CheckCooldown, CheckEvent,
     LockMint, TryReserve, GiveUp, DeleteKey, BuyAndValidate, SubmitBuy, BuyRefused, LostBuy,
     ConfirmBuy, BuyTimeout, Abandon, SizeTrade, MonitorExit, UnlockMint, UnlockAgain, Release,
     FreeSlot, SellPath, Sell, SellConfirmed, SellFailed, SaveTrade, SetCooldown,
     ReleaseSellExit, ReleaseExitAgain, AfterSale
  <2> QED
    BY <2>1, <2>2
<1>4. ASSUME NEW p \in Recoveries, RecoverAll(p) \/ TakeTokenFails(p) PROVE Good
  <2>1. \A q \in Handlers : pc'[q] = pc[q]
    BY <1>4 DEF RecoverAll, Scan, TakeToken, TakeTokenFails, EndPass, SellPath, Sell,
       SellConfirmed, SellFailed, SaveTrade, SetCooldown, UpdateDailyLoss, ReleaseSellExit,
       ReleaseExitAgain, AfterSale
  <2>2. CASE UpdateDailyLoss(p)
    BY <1>0, <2>1, <2>2 DEF UpdateDailyLoss, Losses
  <2>3. CASE ~UpdateDailyLoss(p)
    <3>1. cooldownKey \subseteq cooldownKey' /\ UNCHANGED daily
      BY <1>4, <2>3 DEF RecoverAll, Scan, TakeToken, TakeTokenFails, EndPass, SellPath, Sell,
         SellConfirmed, SellFailed, SaveTrade, SetCooldown, ReleaseSellExit,
         ReleaseExitAgain, AfterSale
    <3> QED
      BY <1>0, <2>1, <3>1
  <2> QED
    BY <2>2, <2>3
<1>5. ASSUME NEW m \in Mints, ExpireEvent(m) \/ ExpireLock(m) \/ ExpireExit(m) PROVE Good
  BY <1>0, <1>5 DEF ExpireEvent, ExpireLock, ExpireExit
<1>6. ASSUME NEW w \in Workers, Crash(w) \/ Restart(w) PROVE Good
  BY <1>0, <1>6 DEF Crash, Restart
<1>7. CASE Reset \/ Midnight
  BY <1>0, <1>7 DEF Reset, StartReset, ResetDailyStats, ResetRedisState, ResetStops, Midnight
<1>8. CASE UNCHANGED vars
  BY <1>0, <1>8
<1> QED
  BY <1>1, <1>2, <1>3, <1>4, <1>5, <1>6, <1>7, <1>8 DEF Next

(* A handler that came too late has not passed CanTrade, or only to meet    *)
(* the cooldown of its mint.                                                *)
RefusedInv ==
  /\ refused \subseteq Handlers
  /\ \A p \in refused : \/ pc[p] = "guard" /\ RuledOut(p[2])
                        \/ pc[p] = "cooldown" /\ p[2] \in cooldownKey

(* Every step keeps that.                                                   *)
LEMMA RefusedInduction == TypeInv /\ RefusedInv /\ [HNext]_hvars => RefusedInv'
<1> SUFFICES ASSUME TypeInv, RefusedInv, [HNext]_hvars PROVE RefusedInv'
  OBVIOUS
<1>1. CASE UNCHANGED hvars
  BY <1>1 DEF hvars, vars, daily, keys, RefusedInv, RuledOut, CanTrade
<1>2. CASE HNext
  <2>1. refused' \subseteq Handlers
    BY <1>2 DEF HNext
  <2>2. ASSUME NEW p \in refused'
        PROVE  \/ pc'[p] = "guard" /\ RuledOut(p[2])'
               \/ pc'[p] = "cooldown" /\ p[2] \in cooldownKey'
    <3>1. p \in Handlers /\ ~Excused(p)
      BY <1>2 DEF HNext
    <3>2. Next /\ [Next]_vars
      BY <1>2 DEF HNext
    <3>3. /\ cooldownKey \subseteq cooldownKey'
          /\ ResetDailyStats \/ Midnight \/ (dailyLoss <= dailyLoss' /\ dailyTrades <= dailyTrades')
          /\ \/ pc'[p] = pc[p]
             \/ pc[p] = "idle" /\ pc'[p] = "guard" /\ UNCHANGED <<cooldownKey, daily>>
             \/ pc[p] = "guard" /\ CanTrade /\ pc'[p] = "cooldown"
             \/ pc[p] = "cooldown" /\ p[2] \notin cooldownKey
             \/ pc[p] \notin {"idle", "guard", "cooldown"}
      BY <3>1, <3>2, EntryStep DEF Excused
    <3>4. RuledOut(p[2]) => RuledOut(p[2])'
      <4>1. CASE ResetDailyStats \/ Midnight
        BY <3>1, <3>3, <4>1 DEF Excused, RuledOut
      <4>2. CASE dailyLoss <= dailyLoss' /\ dailyTrades <= dailyTrades'
        <5>1. /\ dailyLoss \in Nat /\ dailyTrades \in Nat
              /\ dailyLoss' \in Nat /\ dailyTrades' \in Nat
              /\ MaxLoss \in Nat /\ MaxTrades \in Nat
          BY <3>2, TypeInduction DEF TypeInv, TypeOK
        <5>2. CanTrade' => CanTrade
          BY <4>2, <5>1 DEF CanTrade
        <5> QED
          BY <3>3, <5>2 DEF RuledOut
      <4> QED
        BY <3>3, <4>1, <4>2
    <3>5. CASE pc[p] = "idle"
      <4>1. RuledOut(p[2]) /\ pc'[p] # "idle"
        BY <1>2, <3>1, <3>5 DEF HNext, Excused
      <4> QED
        BY <3>3, <3>4, <3>5, <4>1
    <3>6. CASE pc[p] # "idle"
      <4>1. p \in refused
        BY <1>2, <3>6 DEF HNext
      <4> QED
        BY <3>3, <3>4, <4>1 DEF RefusedInv, RuledOut
    <3> QED
      BY <3>5, <3>6
  <2> QED
    BY <2>1, <2>2 DEF RefusedInv
<1> QED
  BY <1>1, <1>2

(* guard.CanTrade and idempotency.IsDuplicate: a handler that is dispatched *)
(* when the kill switch, the quota or the cooldown already forbids its mint *)
(* never reaches the event key, however many handlers and workers there are *)
(* and however their steps interleave, unless the operator resets the day,  *)
(* midnight ends it before CanTrade, or the blacklist cannot be read.       *)
THEOREM LateNeverBuys == HSpec => []LateDispatchNeverBuys
<1>1. HInit => TypeInv /\ RefusedInv
  BY ProcFacts, StageFacts DEF HInit, Init, TypeInv, TypeOK, Procs, SellStages, RefusedInv
<1>2. [HNext]_hvars => [Next]_vars
  BY DEF HNext, hvars
<1>3. RefusedInv => LateDispatchNeverBuys
  BY DEF RefusedInv, LateDispatchNeverBuys
<1> QED
  BY <1>1, <1>2, <1>3, TypeInduction, RefusedInduction, PTL DEF HSpec

=============================================================================
