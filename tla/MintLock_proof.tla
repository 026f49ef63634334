--------------------------- MODULE MintLock_proof ---------------------------
(***************************************************************************)
(* For every TTL, every number of refreshes that may fail in a row and     *)
(* every set of handlers and recovery loops: when the TTL covers a BUY,    *)
(* the refresh intervals that pass without a refresh, one loop iteration   *)
(* and a SELL, the key outlives its handler and the lock implements        *)
(* MintMutex; when five minutes cover a SELL, the exit key outlives its    *)
(* sale; both until the second copy of a DEL takes a key from its owner.   *)
(***************************************************************************)
EXTENDS MintLock, TLAPS

USE LockAssumption

(* The longest time from one refresh that is due to the next, and what n    *)
(* refreshes that failed in a row cost.                                     *)
Gap     == RefreshAfter + LoopTime
Lost(n) == n * Gap

LEMMA LostFacts ==
  /\ Lost(0) = 0
  /\ \A n \in 0..MaxMissed : /\ Lost(n) \in Nat
                             /\ Lost(n) <= MaxMissed * (RefreshAfter + LoopTime)
                             /\ Lost(n + 1) = Lost(n) + RefreshAfter + LoopTime
<1>1. ASSUME NEW n \in 0..MaxMissed PROVE n * Gap <= MaxMissed * Gap
  BY DEF Gap
<1>2. Gap \in Nat
  BY DEF Gap
<1>3. ASSUME NEW n \in 0..MaxMissed PROVE n * Gap \in Nat /\ (n + 1) * Gap = n * Gap + Gap
  BY <1>2
<1> QED
  BY <1>1, <1>2, <1>3 DEF Lost, Gap

(* How much of the TTL each phase can have used up.                         *)
KeyBudget(h) ==
  /\ phase[h] = "buying" => spent[h] <= BuyTime /\ key >= TTL - spent[h]
  /\ phase[h] = "watching" => /\ spent[h] <= LoopTime
                              /\ since[h] <= RefreshAfter + spent[h]
                              /\ key >= TTL - BuyTime - Lost(missed[h]) - since[h]
  /\ phase[h] \in {"selling", "sold", "leaving"} =>
       /\ spent[h] <= SellTime
       /\ since[h] <= RefreshAfter + LoopTime
       /\ key >= TTL - BuyTime - Lost(missed[h]) - since[h] - spent[h]

Budget == \A h \in Handlers : KeyBudget(h)
Alone  == \A g, h \in Handlers : Inside(g) /\ Inside(h) => g = h

Kept == "mint" \notin stolen => Budget /\ Alone
IInv == TypeOK /\ Kept

(* A live handler that keeps to its budget finds its key alive.             *)
LEMMA BudgetKeepsKey ==
  ASSUME EnoughTTL, IInv, "mint" \notin stolen, NEW h \in Handlers, Inside(h)
  PROVE  key > 0
<1>1. phase[h] \in {"buying", "watching", "selling", "sold", "leaving"} /\ KeyBudget(h)
  BY DEF IInv, Kept, TypeOK, Budget, Inside, Phases, Sellers
<1>2. spent[h] \in Nat /\ since[h] \in Nat /\ key \in Nat /\ missed[h] \in 0..MaxMissed
  BY DEF IInv, TypeOK, Sellers
<1>3. MaxMissed * (RefreshAfter + LoopTime) \in Nat
  OBVIOUS
<1> QED
  BY <1>1, <1>2, <1>3, LostFacts DEF KeyBudget, EnoughTTL

(* Every step keeps the types of the state.                                 *)
LEMMA TypeStep == TypeOK /\ [Next]_vars => TypeOK'
<1> SUFFICES ASSUME TypeOK, [Next]_vars PROVE TypeOK'
  OBVIOUS
<1>0. TRUE
  OBVIOUS
<1> USE DEF TypeOK, Inside, Phases, Enter, Sellers
<1>1. ASSUME Tick PROVE TypeOK'
  BY <1>0, <1>1 DEF Tick, Limit
<1>2. ASSUME NEW h \in Handlers, LockMint(h) PROVE TypeOK'
  BY <1>0, <1>2 DEF LockMint
<1>3. ASSUME NEW h \in Handlers, Abandon(h) PROVE TypeOK'
  BY <1>0, <1>3 DEF Abandon, DeleteKey
<1>4. ASSUME NEW h \in Handlers, StartMonitor(h) PROVE TypeOK'
  BY <1>0, <1>4 DEF StartMonitor
<1>5. ASSUME NEW h \in Handlers, LoopTop(h) PROVE TypeOK'
  BY <1>0, <1>5 DEF LoopTop, Refresh
<1>6. ASSUME NEW h \in Handlers, StartSell(h) PROVE TypeOK'
  BY <1>0, <1>6 DEF StartSell
<1>7. ASSUME NEW h \in Handlers, SellSkipped(h) PROVE TypeOK'
  BY <1>0, <1>7 DEF SellSkipped
<1>8. ASSUME NEW h \in Handlers, UnlockMint(h) PROVE TypeOK'
  BY <1>0, <1>8 DEF UnlockMint, DeleteKey
<1>9. ASSUME NEW h \in Handlers, DeleteKeyAgain(h) PROVE TypeOK'
  BY <1>0, <1>9 DEF DeleteKeyAgain
<1>10. ASSUME NEW r \in Recoverers, StartRecovery(r) PROVE TypeOK'
  BY <1>0, <1>10 DEF StartRecovery
<1>11. ASSUME NEW s \in Sellers, EndSell(s) PROVE TypeOK'
  BY <1>0, <1>11 DEF EndSell, AfterSale
<1>12. ASSUME NEW s \in Sellers, EndSellAgain(s) PROVE TypeOK'
  BY <1>0, <1>12 DEF EndSellAgain, AfterSale
<1>13. ASSUME NEW s \in Sellers, Die(s) PROVE TypeOK'
  BY <1>0, <1>13 DEF Die
<1>14. CASE UNCHANGED vars
  BY <1>14 DEF vars
<1> QED
  BY <1>1, <1>2, <1>3, <1>4, <1>5, <1>6, <1>7, <1>8, <1>9, <1>10, <1>11, <1>12, <1>13, <1>14 DEF Next, HandlerStep

(* Every step keeps the budget and that a handler is alone.                 *)
LEMMA Induction == EnoughTTL /\ IInv /\ [Next]_vars => IInv'
<1> SUFFICES ASSUME EnoughTTL, IInv, [Next]_vars, "mint" \notin stolen'
             PROVE  (Budget /\ Alone)'
  BY TypeStep DEF IInv, Kept
<1>a. "mint" \notin stolen
  BY DEF Next, HandlerStep, Tick, LockMint, Abandon, StartMonitor, LoopTop, StartSell, SellSkipped,
         UnlockMint, DeleteKeyAgain, StartRecovery, EndSell, EndSellAgain, Die, vars
<1>b. /\ \A h \in Handlers : Inside(h) => key > 0
      /\ \A h \in Handlers : Lost(missed[h]) \in Nat
      /\ Budget /\ Alone
  BY <1>a, BudgetKeepsKey, LostFacts DEF IInv, Kept, TypeOK
<1>0. TypeOK
  BY DEF IInv
<1> USE DEF TypeOK, Budget, KeyBudget, Alone, Inside, Phases, Enter, Sellers
<1>1. ASSUME Tick PROVE (Budget /\ Alone)'
  BY <1>0, <1>b, <1>1 DEF Tick, Limit
<1>2. ASSUME NEW h \in Handlers, LockMint(h) PROVE (Budget /\ Alone)'
  BY <1>0, <1>b, <1>2 DEF LockMint
<1>3. ASSUME NEW h \in Handlers, Abandon(h) PROVE (Budget /\ Alone)'
  BY <1>0, <1>b, <1>3 DEF Abandon, DeleteKey
<1>4. ASSUME NEW h \in Handlers, StartMonitor(h) PROVE (Budget /\ Alone)'
  BY <1>0, <1>b, <1>4, LostFacts DEF StartMonitor
<1>5. ASSUME NEW h \in Handlers, LoopTop(h) PROVE (Budget /\ Alone)'
  BY <1>0, <1>b, <1>5, LostFacts DEF LoopTop, Refresh
<1>6. ASSUME NEW h \in Handlers, StartSell(h) PROVE (Budget /\ Alone)'
  BY <1>0, <1>b, <1>6 DEF StartSell
<1>7. ASSUME NEW h \in Handlers, SellSkipped(h) PROVE (Budget /\ Alone)'
  BY <1>0, <1>b, <1>7 DEF SellSkipped
<1>8. ASSUME NEW h \in Handlers, UnlockMint(h) PROVE (Budget /\ Alone)'
  BY <1>0, <1>b, <1>8 DEF UnlockMint, DeleteKey
<1>9. ASSUME NEW h \in Handlers, DeleteKeyAgain(h) PROVE (Budget /\ Alone)'
  BY <1>0, <1>b, <1>9 DEF DeleteKeyAgain
<1>10. ASSUME NEW r \in Recoverers, StartRecovery(r) PROVE (Budget /\ Alone)'
  BY <1>0, <1>b, <1>10 DEF StartRecovery
<1>11. ASSUME NEW s \in Sellers, EndSell(s) PROVE (Budget /\ Alone)'
  BY <1>0, <1>b, <1>11 DEF EndSell, AfterSale
<1>12. ASSUME NEW s \in Sellers, EndSellAgain(s) PROVE (Budget /\ Alone)'
  BY <1>0, <1>b, <1>12 DEF EndSellAgain, AfterSale
<1>13. ASSUME NEW s \in Sellers, Die(s) PROVE (Budget /\ Alone)'
  BY <1>0, <1>b, <1>13 DEF Die
<1>14. CASE UNCHANGED vars
  BY <1>0, <1>b, <1>14 DEF vars
<1> QED
  BY <1>1, <1>2, <1>3, <1>4, <1>5, <1>6, <1>7, <1>8, <1>9, <1>10, <1>11, <1>12, <1>13, <1>14 DEF Next, HandlerStep

(* The invariant holds initially.                                           *)
LEMMA Start == Init => IInv
  BY DEF Init, IInv, Kept, TypeOK, Budget, KeyBudget, Alone, Inside, Phases, Sellers

(* The Redis key of a mint never expires under a live handler, on the       *)
(* premise EnoughTTL (which counts the refreshes that fail unnoticed) and   *)
(* until the second copy of a DEL takes it.                                 *)
THEOREM KeyOutlives == Spec => []KeyOutlivesHandler
<1>1. CASE EnoughTTL
  <2>1. IInv => KeyOutlivesHandler
    BY <1>1, BudgetKeepsKey DEF KeyOutlivesHandler
  <2>2. IInv /\ [Next]_vars => IInv'
    BY <1>1, Induction
  <2> QED
    BY <2>1, <2>2, Start, PTL DEF Spec
<1>2. CASE ~EnoughTTL
  <2>1. KeyOutlivesHandler
    BY <1>2 DEF KeyOutlivesHandler
  <2>2. Init /\ [Next]_vars => KeyOutlivesHandler'
    BY <1>2 DEF KeyOutlivesHandler, EnoughTTL
  <2>3. KeyOutlivesHandler /\ [Next]_vars => KeyOutlivesHandler'
    BY <1>2 DEF KeyOutlivesHandler, EnoughTTL
  <2> QED
    BY <2>1, <2>3, PTL DEF Spec
<1> QED
  BY <1>1, <1>2

-----------------------------------------------------------------------------
(* The owner that the abstract mutex sees is the handler inside.            *)
LEMMA OwnerIs ==
  ASSUME Kept
  PROVE  /\ \A h \in Handlers : "mint" \notin stolen /\ Inside(h) => owner = [m \in {Mint} |-> h]
         /\ "mint" \in stolen \/ (\A h \in Handlers : ~Inside(h))
              => owner = [m \in {Mint} |-> NoHandler]
  BY DEF Kept, Alone, owner

(* LockMint takes a free mint, the end of a handler frees it, and nothing   *)
(* else changes the owner, but for the second copy of a DEL that takes it   *)
(* away.                                                                    *)
LEMMA StepRefines ==
  ASSUME EnoughTTL, IInv, IInv', [Next]_vars
  PROVE  [Mutex!Next]_owner
<1>1. /\ \A h \in Handlers : "mint" \notin stolen /\ Inside(h) => owner = [m \in {Mint} |-> h]
      /\ "mint" \in stolen \/ (\A h \in Handlers : ~Inside(h))
           => owner = [m \in {Mint} |-> NoHandler]
  BY OwnerIs DEF IInv
<1>2. /\ \A h \in Handlers : ("mint" \notin stolen /\ Inside(h))' => owner' = [m \in {Mint} |-> h]
      /\ ("mint" \in stolen \/ (\A h \in Handlers : ~Inside(h)))'
           => owner' = [m \in {Mint} |-> NoHandler]
  BY DEF IInv, Kept, Alone, owner
<1>3. \A h \in Handlers : "mint" \notin stolen /\ Inside(h) => key > 0
  BY BudgetKeepsKey
<1>4. owner' \in [{Mint} -> Handlers \cup {NoHandler}]
  BY <1>2
<1>5. "mint" \in stolen => "mint" \in stolen'
  BY DEF Next, HandlerStep, Tick, LockMint, Abandon, StartMonitor, LoopTop, StartSell, SellSkipped,
         UnlockMint, DeleteKeyAgain, StartRecovery, EndSell, EndSellAgain, Die, vars
<1>6. SUFFICES ASSUME "mint" \notin stolen, "mint" \notin stolen',
                      NEW g \in Handlers, NEW h \in Handlers, Inside(g), Inside(h)', g # h
               PROVE  FALSE
  BY <1>1, <1>2, <1>4, <1>5 DEF Mutex!Next
<1>7. Inside(h)
  <2>1. key > 0
    BY <1>3, <1>6
  <2> QED
    BY <1>6, <2>1 DEF Next, HandlerStep, Tick, LockMint, Abandon, StartMonitor, LoopTop, StartSell,
                      SellSkipped, UnlockMint, DeleteKey, DeleteKeyAgain, StartRecovery, EndSell,
                      EndSellAgain, AfterSale, Die, vars, Inside, Enter, IInv, TypeOK, Sellers
<1> QED
  BY <1>6, <1>7 DEF IInv, Kept, Alone

(* The lock without owner tokens is a mutex as long as its TTL is long      *)
(* enough for the refreshes that fail, until a DEL that is sent again takes *)
(* a key from its owner.                                                    *)
THEOREM LockImplementsMutex == EnoughTTL => (Spec => IsMutex)
<1> SUFFICES ASSUME EnoughTTL PROVE Spec => IsMutex
  OBVIOUS
<1>1. Init => Mutex!Init
  BY DEF Init, Mutex!Init, owner, Inside, Sellers
<1>2. IInv /\ [Next]_vars => IInv'
  BY Induction
<1>3. IInv /\ IInv' /\ [Next]_vars => [Mutex!Next]_owner
  BY StepRefines
<1> QED
  BY <1>1, <1>2, <1>3, Start, PTL DEF Spec, IsMutex, Mutex!Spec

-----------------------------------------------------------------------------
(* How much of the five minutes a sale can have used up.                    *)
SaleTime(s)   == IF s \in Recoverers THEN RecoverTime ELSE SellTime
SaleBudget(s) == Selling(s) => spent[s] <= SaleTime(s) /\ exit >= ExitTTL - spent[s]
Budgets       == \A s \in Sellers : SaleBudget(s)
SellAlone     == \A s, t \in Sellers : Selling(s) /\ Selling(t) => s = t

SaleInv == TypeOK /\ ("exit" \notin stolen => Budgets /\ SellAlone)

(* A sale that keeps to its budget finds its exit key alive.                *)
LEMMA BudgetKeepsExit ==
  ASSUME EnoughExitTTL, SaleInv, "exit" \notin stolen, NEW s \in Sellers, Selling(s)
  PROVE  exit > 0
  BY LockAssumption DEF EnoughExitTTL, SaleInv, TypeOK, Budgets, SaleBudget, SaleTime

(* Every step keeps the budget of the sales, and one seller.                *)
LEMMA SaleInduction == EnoughExitTTL /\ SaleInv /\ [Next]_vars => SaleInv'
<1> SUFFICES ASSUME EnoughExitTTL, SaleInv, [Next]_vars, "exit" \notin stolen'
             PROVE  (Budgets /\ SellAlone)'
  BY TypeStep DEF SaleInv
<1>a. "exit" \notin stolen
  BY DEF Next, HandlerStep, Tick, LockMint, Abandon, StartMonitor, LoopTop, StartSell, SellSkipped,
         UnlockMint, DeleteKeyAgain, StartRecovery, EndSell, EndSellAgain, Die, vars
<1>b. Budgets /\ SellAlone /\ \A s \in Sellers : Selling(s) => exit > 0
  BY <1>a, BudgetKeepsExit DEF SaleInv
<1>0. TypeOK
  BY DEF SaleInv
<1> USE DEF TypeOK, Budgets, SaleBudget, SaleTime, SellAlone, Selling, Inside, Phases, Enter, Sellers
<1>1. ASSUME Tick PROVE (Budgets /\ SellAlone)'
  BY <1>0, <1>b, <1>1 DEF Tick, Limit
<1>2. ASSUME NEW h \in Handlers, LockMint(h) PROVE (Budgets /\ SellAlone)'
  BY <1>0, <1>b, <1>2 DEF LockMint
<1>3. ASSUME NEW h \in Handlers, Abandon(h) PROVE (Budgets /\ SellAlone)'
  BY <1>0, <1>b, <1>3 DEF Abandon, DeleteKey
<1>4. ASSUME NEW h \in Handlers, StartMonitor(h) PROVE (Budgets /\ SellAlone)'
  BY <1>0, <1>b, <1>4 DEF StartMonitor
<1>5. ASSUME NEW h \in Handlers, LoopTop(h) PROVE (Budgets /\ SellAlone)'
  BY <1>0, <1>b, <1>5 DEF LoopTop, Refresh
<1>6. ASSUME NEW h \in Handlers, StartSell(h) PROVE (Budgets /\ SellAlone)'
  BY <1>0, <1>b, <1>6 DEF StartSell
<1>7. ASSUME NEW h \in Handlers, SellSkipped(h) PROVE (Budgets /\ SellAlone)'
  BY <1>0, <1>b, <1>7 DEF SellSkipped
<1>8. ASSUME NEW h \in Handlers, UnlockMint(h) PROVE (Budgets /\ SellAlone)'
  BY <1>0, <1>b, <1>8 DEF UnlockMint, DeleteKey
<1>9. ASSUME NEW h \in Handlers, DeleteKeyAgain(h) PROVE (Budgets /\ SellAlone)'
  BY <1>0, <1>b, <1>9 DEF DeleteKeyAgain
<1>10. ASSUME NEW r \in Recoverers, StartRecovery(r) PROVE (Budgets /\ SellAlone)'
  BY <1>0, <1>b, <1>10 DEF StartRecovery
<1>11. ASSUME NEW s \in Sellers, EndSell(s) PROVE (Budgets /\ SellAlone)'
  BY <1>0, <1>b, <1>11 DEF EndSell, AfterSale
<1>12. ASSUME NEW s \in Sellers, EndSellAgain(s) PROVE (Budgets /\ SellAlone)'
  BY <1>0, <1>b, <1>12 DEF EndSellAgain, AfterSale
<1>13. ASSUME NEW s \in Sellers, Die(s) PROVE (Budgets /\ SellAlone)'
  BY <1>0, <1>b, <1>13 DEF Die
<1>14. CASE UNCHANGED vars
  BY <1>0, <1>b, <1>14 DEF vars
<1> QED
  BY <1>1, <1>2, <1>3, <1>4, <1>5, <1>6, <1>7, <1>8, <1>9, <1>10, <1>11, <1>12, <1>13, <1>14 DEF Next, HandlerStep

(* No sale loses its exit key, so no two sales of the position overlap, as  *)
(* long as a sale takes less than five minutes and no second copy of a DEL  *)
(* takes the key.                                                           *)
THEOREM ExitKeyOutlives == Spec => []ExitKeyOutlivesSale
<1>1. CASE EnoughExitTTL
  <2>1. SaleInv => ExitKeyOutlivesSale
    BY <1>1, BudgetKeepsExit DEF ExitKeyOutlivesSale, SaleInv, SellAlone
  <2>2. Init => SaleInv
    BY DEF Init, SaleInv, TypeOK, Budgets, SaleBudget, SellAlone, Selling, Phases, Sellers
  <2>3. SaleInv /\ [Next]_vars => SaleInv'
    BY <1>1, SaleInduction
  <2> QED
    BY <2>1, <2>2, <2>3, PTL DEF Spec
<1>2. CASE ~EnoughExitTTL
  <2>1. ExitKeyOutlivesSale
    BY <1>2 DEF ExitKeyOutlivesSale
  <2>2. ExitKeyOutlivesSale /\ [Next]_vars => ExitKeyOutlivesSale'
    BY <1>2 DEF ExitKeyOutlivesSale, EnoughExitTTL
  <2> QED
    BY <2>1, <2>2, PTL DEF Spec
<1> QED
  BY <1>1, <1>2
=============================================================================
