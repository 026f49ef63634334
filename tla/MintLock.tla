------------------------------ MODULE MintLock ------------------------------
(***************************************************************************)
(* The two Redis keys of one mint, with a clock: mint:<m>, which keeps a   *)
(* second handler from the mint, and position:exiting:<m>, which keeps the *)
(* monitor and the recovery loops from selling the position together.      *)
(* Neither carries an owner: SETNX with a TTL takes the key, EXPIRE        *)
(* prolongs whatever key is there, DEL deletes whatever key is there.  All *)
(* that keeps a second owner out is that the key outlives the one that set *)
(* it, which depends on how long the phases take.                          *)
(*                                                                         *)
(* The monitor measures the refresh interval from its own start, not from  *)
(* LockMint, and refreshes at the top of its loop only: never during the   *)
(* BUY, nor from the exit decision to UnlockMint.  It does not look at the *)
(* answer of EXPIRE: a refresh that failed is due again a whole interval   *)
(* later.  Nobody prolongs the exit key.                                   *)
(*                                                                         *)
(* Any command can fail, and the client sends a command again whose answer *)
(* was lost.  The second copy of a SETNX finds the key of the first; the   *)
(* second copy of a DEL deletes the key of whoever came next.              *)
(***************************************************************************)
EXTENDS Integers

CONSTANTS Mint,          \* the mint whose key this is
          Handlers,      \* goroutines of any worker that want the mint
          NoHandler,
          Recoverers,    \* the recovery loops of the workers
          TTL,           \* LOCK_TTL_MIN, in ticks
          RefreshAfter,  \* the 2 minutes of monitor.go:70, in ticks
          MaxMissed,     \* how many refreshes of a handler fail in a row
          BuyTime,       \* longest time from LockMint to the monitor
          LoopTime,      \* longest iteration of the monitor loop
          SellTime,      \* longest time from the exit decision to UnlockMint
          ExitTTL,       \* the 5 minutes of sellguard.go:12, in ticks
          RecoverTime    \* longest sale of a recovery loop, with its wait

ASSUME LockAssumption ==
  /\ NoHandler \notin Handlers /\ Handlers \cap Recoverers = {}
  /\ TTL \in Nat \ {0} /\ ExitTTL \in Nat \ {0} /\ RefreshAfter \in Nat
  /\ MaxMissed \in Nat
  /\ BuyTime \in Nat /\ LoopTime \in Nat /\ SellTime \in Nat /\ RecoverTime \in Nat

(* The configuration gives the handler enough time, with the refreshes that *)
(* fail, and each sale.  Nothing in the code checks either.                 *)
EnoughTTL == BuyTime + MaxMissed * (RefreshAfter + LoopTime) + RefreshAfter + LoopTime
               + SellTime < TTL
EnoughExitTTL == SellTime < ExitTTL /\ RecoverTime < ExitTTL

Sellers == Handlers \cup Recoverers

VARIABLES key,      \* remaining life of mint:<m>, 0 when there is no key
          exit,     \* remaining life of position:exiting:<m>
          phase,    \* of each handler and each recovery loop
          spent,    \* time spent in its phase, loop iteration or sale
          since,    \* of each handler: time since lastLockRefresh
          missed,   \* of each handler: refreshes that failed since the last good one
          stolen    \* history: the keys that a repeated DEL took from an owner

vars == <<key, exit, phase, spent, since, missed, stolen>>

(* "sold" and "again": a DEL of the exit key, of the mint key, is sent again. *)
Phases == {"out", "buying", "watching", "selling", "sold", "leaving", "again"}
Inside(s)  == phase[s] \notin {"out", "again"}
Selling(s) == phase[s] = "selling"
Limit(s) == CASE phase[s] = "buying"   -> BuyTime
              [] phase[s] = "watching" -> LoopTime
              [] s \in Recoverers      -> RecoverTime
              [] OTHER                 -> SellTime

TypeOK ==
  /\ key \in 0..TTL /\ exit \in 0..ExitTTL
  /\ phase \in [Sellers -> Phases]
  /\ \A r \in Recoverers : phase[r] \in {"out", "selling", "sold"}
  /\ spent \in [Sellers -> Nat]
  /\ since \in [Handlers -> Nat]
  /\ missed \in [Handlers -> 0..MaxMissed]
  /\ stolen \subseteq {"mint", "exit"}

Init ==
  /\ key = 0 /\ exit = 0
  /\ phase = [s \in Sellers |-> "out"]
  /\ spent = [s \in Sellers |-> 0]
  /\ since = [h \in Handlers |-> 0]
  /\ missed = [h \in Handlers |-> 0]
  /\ stolen = {}

Enter(s, ph) == /\ phase' = [phase EXCEPT ![s] = ph]
                /\ spent' = [spent EXCEPT ![s] = 0]

(* DEL of the mint key, whoever set it: executed, lost, or executed with     *)
(* its answer lost, so that it is sent again.                               *)
DeleteKey(h) ==
  \/ key' = 0 /\ Enter(h, "out")
  \/ UNCHANGED key /\ Enter(h, "out")
  \/ key' = 0 /\ Enter(h, "again")

(* The second copy. *)
DeleteKeyAgain(h) ==
  /\ phase[h] = "again"
  /\ key' = 0
  /\ Enter(h, "out")
  /\ stolen' = IF \E g \in Handlers : Inside(g) THEN stolen \cup {"mint"} ELSE stolen
  /\ UNCHANGED <<exit, since, missed>>

(* SETNX: fails, without a step, while there is a key.  Its second copy     *)
(* finds the key of the first, and the handler stays out.                   *)
LockMint(h) ==
  /\ phase[h] = "out" /\ key = 0
  /\ key' = TTL
  /\ Enter(h, "buying") \/ Enter(h, "out")
  /\ UNCHANGED <<exit, since, missed, stolen>>

(* No slot, BUY failed or trade size zero. *)
Abandon(h) ==
  /\ phase[h] = "buying" /\ DeleteKey(h)
  /\ UNCHANGED <<exit, since, missed, stolen>>

StartMonitor(h) ==
  /\ phase[h] = "buying"
  /\ Enter(h, "watching")
  /\ since' = [since EXCEPT ![h] = 0]
  /\ missed' = [missed EXCEPT ![h] = 0]
  /\ UNCHANGED <<key, exit, stolen>>

(* EXPIRE, which does nothing when the key is gone, or fails. *)
Refresh(h) ==
  \/ key' = (IF key > 0 THEN TTL ELSE 0) /\ missed' = [missed EXCEPT ![h] = 0]
  \/ /\ missed[h] < MaxMissed
     /\ missed' = [missed EXCEPT ![h] = missed[h] + 1]
     /\ UNCHANGED key

(* Faulty variant: the monitor does not refresh the lock. *)
LoopTopNoRefresh(h) ==
  /\ phase[h] = "watching"
  /\ Enter(h, "watching")
  /\ UNCHANGED <<key, exit, since, missed, stolen>>

(* The top of the monitor loop, with the refresh when it is due.            *)
LoopTop(h) ==
  /\ phase[h] = "watching"
  /\ IF since[h] > RefreshAfter
       THEN Refresh(h) /\ since' = [since EXCEPT ![h] = 0]
       ELSE UNCHANGED <<key, since, missed>>
  /\ Enter(h, "watching")
  /\ UNCHANGED <<exit, stolen>>

(* An exit rule or a stream event fires, and the exit key is free.  When    *)
(* its SETNX is sent again the monitor leaves a key that nobody holds.      *)
StartSell(h) ==
  /\ phase[h] = "watching" /\ exit = 0
  /\ exit' = ExitTTL
  /\ Enter(h, "selling") \/ Enter(h, "leaving")
  /\ UNCHANGED <<key, since, missed, stolen>>

(* Faulty variant: the deferred release stands before the check.            *)
SellSkippedReleases(h) ==
  /\ phase[h] = "watching"
  /\ exit' = 0
  /\ Enter(h, "leaving")
  /\ UNCHANGED <<key, since, missed, stolen>>

(* It fires while somebody holds the exit key, or the command fails, or the *)
(* monitor panics: it returns without a sale.                               *)
SellSkipped(h) ==
  /\ phase[h] = "watching"
  /\ Enter(h, "leaving")
  /\ UNCHANGED <<key, exit, since, missed, stolen>>

(* Where a sale leads: to UnlockMint, or to the next token of the wallet.   *)
AfterSale(s) == IF s \in Recoverers THEN "out" ELSE "leaving"

(* The monitor returns from its sale, or panics and recovers, or recovery   *)
(* has sold: DEL of the exit key, whoever set it.                           *)
EndSell(s) ==
  /\ phase[s] = "selling"
  /\ \/ exit' \in {0, exit} /\ phase' = [phase EXCEPT ![s] = AfterSale(s)]
     \/ exit' = 0 /\ phase' = [phase EXCEPT ![s] = "sold"]
  /\ UNCHANGED <<key, spent, since, missed, stolen>>

(* The second copy. *)
EndSellAgain(s) ==
  /\ phase[s] = "sold"
  /\ exit' = 0
  /\ phase' = [phase EXCEPT ![s] = AfterSale(s)]
  /\ stolen' = IF \E t \in Sellers : Selling(t) THEN stolen \cup {"exit"} ELSE stolen
  /\ UNCHANGED <<key, spent, since, missed>>

(* The monitor has returned. *)
UnlockMint(h) ==
  /\ phase[h] = "leaving" /\ DeleteKey(h)
  /\ UNCHANGED <<exit, since, missed, stolen>>

(* RecoverAll finds a balance, whoever holds the mint, and a free exit key, *)
(* or the key of its own first SETNX.                                       *)
StartRecovery(r) ==
  /\ phase[r] = "out" /\ exit = 0
  /\ exit' = ExitTTL
  /\ Enter(r, "selling") \/ Enter(r, "out")
  /\ UNCHANGED <<key, since, missed, stolen>>

(* The worker dies, or HandleMint panics outside the monitor: no DEL. *)
Die(s) ==
  /\ phase[s] # "out"
  /\ Enter(s, "out")
  /\ UNCHANGED <<key, exit, since, missed, stolen>>

(* Time passes unless somebody has used up the time its phase may take. *)
Tick ==
  /\ \A s \in Sellers : Inside(s) => spent[s] < Limit(s)
  /\ key' = IF key > 0 THEN key - 1 ELSE 0
  /\ exit' = IF exit > 0 THEN exit - 1 ELSE 0
  /\ spent' = [s \in Sellers |-> IF Inside(s) THEN spent[s] + 1 ELSE 0]
  /\ since' = [h \in Handlers |-> IF phase[h] = "watching" THEN since[h] + 1 ELSE since[h]]
  /\ UNCHANGED <<phase, missed, stolen>>

HandlerStep(h) ==
  \/ LockMint(h) \/ Abandon(h) \/ StartMonitor(h) \/ LoopTop(h) \/ StartSell(h)
  \/ SellSkipped(h) \/ UnlockMint(h) \/ DeleteKeyAgain(h)

Next ==
  \/ Tick
  \/ \E h \in Handlers : HandlerStep(h)
  \/ \E r \in Recoverers : StartRecovery(r)
  \/ \E s \in Sellers : EndSell(s) \/ EndSellAgain(s) \/ Die(s)

Spec == Init /\ [][Next]_vars

-----------------------------------------------------------------------------
(* While a handler works on the mint its key is in Redis, with at most      *)
(* MaxMissed refreshes in a row that fail unnoticed: the TTL of             *)
(* LOCK_TTL_MIN and the refresh of the monitor cover every phase.  This     *)
(* holds on the premise EnoughTTL, and until the second copy of another     *)
(* handler's DEL takes the key.                                             *)
KeyOutlivesHandler ==
  EnoughTTL /\ "mint" \notin stolen => \A h \in Handlers : Inside(h) => key > 0

(* While a sale runs, the monitor's or a recovery loop's, its exit key is   *)
(* in Redis: no second sale of the position starts, and the DEL that ends a *)
(* sale never lets a third seller in.  This holds on the premise            *)
(* EnoughExitTTL, and until the second copy of a DEL takes the key.         *)
ExitKeyOutlivesSale ==
  EnoughExitTTL /\ "exit" \notin stolen =>
    /\ \A s \in Sellers : Selling(s) => exit > 0
    /\ \A s, t \in Sellers : Selling(s) /\ Selling(t) => s = t

(* So the unconditional DEL of UnlockMint never deletes somebody else's     *)
(* key, and the handlers use the mint one at a time, on the same premise,   *)
(* until the second copy of a DEL takes the key from its owner.             *)
owner == [m \in {Mint} |-> IF "mint" \notin stolen /\ \E h \in Handlers : Inside(h)
                           THEN CHOOSE h \in Handlers : Inside(h) ELSE NoHandler]
Mutex == INSTANCE MintMutex WITH Mints <- {Mint}, Owners <- Handlers, NoOwner <- NoHandler
IsMutex == Mutex!Spec
=============================================================================
