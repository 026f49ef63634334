------------------------------ MODULE Executor ------------------------------
(***************************************************************************)
(* One call of BuyAndValidate or SafeSellWithValidation: the quote race    *)
(* that orders the providers, the posts to their native and gateway        *)
(* endpoints, the rounds of a SELL, and the polling of the signature,      *)
(* against a chain that settles what was broadcast when it likes.          *)
(*                                                                         *)
(* A post whose answer is lost (time-out, bad body, HTTP error) may still  *)
(* have broadcast a transaction; a SELL is for all tokens, so on the chain *)
(* only one SELL can succeed.                                              *)
(***************************************************************************)
EXTENDS QuoteRace, TxConfirm, FiniteSets

CONSTANTS MaxRounds,   \* 8 in SafeSellWithValidation
          MaxLost      \* bound: broadcasts whose answer is lost

ASSUME ExecutorAssumption == MaxRounds \in Nat \ {0} /\ MaxLost \in Nat

Other(p) == IF p = "portal" THEN "api" ELSE "portal"

(* How a provider is configured: not at all, the native trade API, a plain  *)
(* gateway URL, or the native API with the gateway behind it.               *)
Modes == {"unset", "native", "gateway", "both"}

VARIABLES side,     \* "buy" or "sell"
          sim,      \* SIMULATE_ENGINE
          mode,     \* the configuration of each provider
          pc, first, turn, kind, round,
          txs,      \* the state on the chain of each broadcast transaction
          sig,      \* the one whose signature was returned, 0 if none
          held,     \* the wallet holds the token
          result,
          lost,     \* history: broadcasts whose answer was lost
          asked     \* history: calls of each provider that gave no signature yet

config == <<side, sim, mode>>
order  == <<first, turn, kind, round, asked>>
chain  == <<txs, held>>
vars   == <<config, race, polling, order, chain, pc, sig, result, lost>>

TypeOK ==
  /\ RaceTypeOK /\ PollTypeOK
  /\ side \in {"buy", "sell"} /\ sim \in BOOLEAN
  /\ mode \in [Providers -> Modes]
  /\ pc \in {"race", "call", "post", "confirm", "done"}
  /\ first \in Providers /\ turn \in 1..2 /\ kind \in {"native", "gateway"}
  /\ round \in 1..MaxRounds
  /\ txs \in Seq({"pending", "landed", "failed", "dropped"})
  /\ sig \in 0..Len(txs) /\ held \in BOOLEAN /\ result \in BOOLEAN
  /\ lost \in 0..MaxLost /\ asked \in [Providers -> 0..MaxRounds]

Init ==
  /\ RaceInit /\ PollInit
  /\ side \in {"buy", "sell"} /\ sim \in BOOLEAN
  /\ mode \in [Providers -> Modes]
  /\ pc = "race" /\ first = "portal" /\ turn = 1 /\ kind = "native" /\ round = 1
  /\ txs = <<>> /\ sig = 0 /\ held = (side = "sell")
  /\ result = FALSE /\ lost = 0 /\ asked = [p \in Providers |-> 0]

Provider == IF turn = 1 THEN first ELSE Other(first)

Return(r) == pc' = "done" /\ result' = r

Processed == sig # 0 /\ txs[sig] \in {"landed", "failed"}

(* RaceQuote runs. *)
RunRace ==
  /\ pc = "race" /\ ~returned
  /\ RaceStep
  /\ UNCHANGED <<config, polling, order, chain, pc, sig, result, lost>>

(* The locals of RaceQuote go out of scope. *)
Forget ==
  /\ now' = 0 /\ ch' = <<>> /\ got' = {} /\ winner' = "none" /\ returned' = FALSE
  /\ asker' = [p \in Providers |-> "over"]
  /\ at' = [p \in Providers |-> 0] /\ answer' = [p \in Providers |-> "none"]

(* Faulty variant: the simulation does not stop before the providers are called. *)
OrderInSimulation ==
  /\ pc = "race" /\ returned
  /\ pc' = "call"
  /\ first' = IF winner = "api" THEN "api" ELSE "portal"
  /\ Forget
  /\ UNCHANGED <<config, polling, turn, kind, round, asked, chain, sig, result, lost>>

(* RaceQuote has returned: the winner goes first, PumpPortal when nobody    *)
(* won.  The simulation ends here.  The locals of the race are gone.        *)
Order ==
  /\ pc = "race" /\ returned
  /\ IF sim THEN Return(TRUE) ELSE pc' = "call" /\ UNCHANGED result
  /\ first' = IF winner = "api" THEN "api" ELSE "portal"
  /\ Forget
  /\ UNCHANGED <<config, polling, turn, kind, round, asked, chain, sig, lost>>

(* Faulty variant: A SELL gives up after its first round, like a BUY. *)
NoSignatureOneRound ==
  /\ \/ turn = 1 /\ pc' = "call" /\ turn' = 2 /\ UNCHANGED result
     \/ turn = 2 /\ Return(FALSE) /\ UNCHANGED turn
  /\ UNCHANGED <<round, sig>>

(* The provider gave no signature: the other one is next; after both a BUY  *)
(* is over and a SELL sleeps and begins another round.                      *)
NoSignature ==
  /\ \/ /\ turn = 1
        /\ pc' = "call" /\ turn' = 2
        /\ UNCHANGED <<round, result>>
     \/ /\ turn = 2 /\ side = "sell" /\ round < MaxRounds
        /\ pc' = "call" /\ turn' = 1 /\ round' = round + 1
        /\ UNCHANGED result
     \/ /\ turn = 2 /\ (side = "buy" \/ round = MaxRounds)
        /\ Return(FALSE)
        /\ UNCHANGED <<turn, round>>
  /\ UNCHANGED sig

(* pumpPortalBuy, pumpApiBuy, sellPortal, sellAPI: which endpoint is first. *)
Call ==
  /\ pc = "call"
  /\ asked' = [asked EXCEPT ![Provider] = @ + 1]
  /\ IF mode[Provider] = "unset"
       THEN NoSignature /\ UNCHANGED kind
       ELSE /\ pc' = "post"
            /\ kind' = IF mode[Provider] = "gateway" THEN "gateway" ELSE "native"
            /\ UNCHANGED <<turn, round, sig, result>>
  /\ UNCHANGED <<config, race, polling, first, chain, lost>>

(* The answer holds a signature: the provider has broadcast a transaction.  *)
(* The order of the providers is not looked at again, so it is forgotten.   *)
Signed ==
  /\ pc = "post"
  /\ txs' = Append(txs, "pending")
  /\ sig' = Len(txs) + 1
  /\ pc' = "confirm" /\ BeginConfirm
  /\ first' = "portal" /\ turn' = 1 /\ kind' = "native" /\ round' = 1
  /\ asked' = [p \in Providers |-> 0]
  /\ UNCHANGED <<config, race, held, result, lost>>

(* The gateway is tried after any error of PumpPortal's native API, but of  *)
(* PumpAPI's only after a binary answer, which nobody has broadcast.        *)
FallsBack(binary) ==
  kind = "native" /\ mode[Provider] = "both" /\ (Provider = "portal" \/ binary)

(* The post fails; the transaction may have been broadcast all the same.    *)
Failed ==
  /\ pc = "post"
  /\ \E binary \in BOOLEAN, broadcast \in BOOLEAN :
       /\ binary => kind = "native" /\ ~broadcast
       /\ broadcast => lost < MaxLost
       /\ txs'  = IF broadcast THEN Append(txs, "pending") ELSE txs
       /\ lost' = IF broadcast THEN lost + 1 ELSE lost
       /\ IF FallsBack(binary)
            THEN kind' = "gateway" /\ UNCHANGED <<pc, turn, round, sig, result>>
            ELSE NoSignature /\ UNCHANGED kind
  /\ UNCHANGED <<config, race, polling, first, asked, held>>

(* ConfirmTransaction polls. *)
Poll ==
  /\ pc = "confirm"
  /\ PollStep(Processed)
  /\ UNCHANGED <<config, race, order, chain, pc, sig, result, lost>>

(* Faulty variant: an unconfirmed signature is treated like none. *)
OutcomeTriesNext ==
  /\ pc = "confirm" /\ poller \in {"confirmed", "timeout"}
  /\ IF poller = "confirmed" THEN Return(TRUE) /\ UNCHANGED <<turn, round, sig>>
                            ELSE NoSignature
  /\ UNCHANGED <<config, race, polling, first, kind, asked, chain, lost>>

(* buyOutcome, sellOutcome: confirmed, or too many polls; a signature that  *)
(* is not confirmed forbids another provider and another round.             *)
Outcome ==
  /\ pc = "confirm" /\ poller \in {"confirmed", "timeout"}
  /\ Return(poller = "confirmed")
  /\ UNCHANGED <<config, race, polling, order, chain, sig, lost>>

(* Other goroutines use the same RPC endpoints.                             *)
Others ==
  /\ OthersPrefer
  /\ UNCHANGED <<config, race, order, chain, pc, sig, result, lost>>

(* The chain executes a transaction, rejects it on execution, or never      *)
(* includes it; it goes on doing so after the call has returned.            *)
Settle(i) ==
  /\ txs[i] = "pending"
  /\ \/ /\ side = "buy" \/ held
        /\ txs'  = [txs EXCEPT ![i] = "landed"]
        /\ held' = (side = "buy")
     \/ /\ \E s \in {"failed", "dropped"} : txs' = [txs EXCEPT ![i] = s]
        /\ UNCHANGED held
  /\ UNCHANGED <<config, race, polling, order, pc, sig, result, lost>>

Step == RunRace \/ Order \/ Call \/ Signed \/ Failed \/ Poll \/ Outcome
Next == Step \/ Others \/ \E i \in DOMAIN txs : Settle(i)
Spec == Init /\ [][Next]_vars

(* Every HTTP request and every sleep has a time-out. *)
FairSpec == Spec /\ WF_vars(Step)

-----------------------------------------------------------------------------
Landed == {i \in DOMAIN txs : txs[i] = "landed"}

(* executor.go:23, double BUY: a call broadcasts one transaction for the    *)
(* signature it got and one for each answer it lost, none in simulation, so *)
(* that a position is bought twice only after a lost answer.                *)
BuysBounded ==
  /\ Cardinality(Landed) <= lost + (IF sig = 0 THEN 0 ELSE 1)
  /\ sim => txs = <<>>

(* A SELL that comes back without a signature has really been tried:        *)
(* MaxRounds times with each provider.                                      *)
SellTriedHard ==
  pc = "done" /\ side = "sell" /\ sig = 0 /\ ~sim
    => ~result /\ \A p \in Providers : asked[p] = MaxRounds

stage == IF sim THEN "off"
         ELSE CASE pc \in {"call", "post"}   -> "asking"
                [] pc = "confirm"            -> "waiting"
                [] pc = "done" /\ result     -> "true"
                [] OTHER                     -> "off"

awaited == IF pc = "confirm" THEN txs[sig] ELSE "none"

stray == \E i \in DOMAIN txs : txs[i] = "pending" /\ ~(pc = "confirm" /\ i = sig)

Promise == INSTANCE Order WITH
  Calls <- {"call"},
  stage <- [c \in {"call"} |-> stage],
  tx    <- [c \in {"call"} |-> awaited],
  stray <- {c \in {"call"} : stray}

(* What the pipeline assumes of a call.  After a signature it only waits:   *)
(* it sends nothing more, whatever the polls find.  It returns true only    *)
(* when the chain has processed that transaction.  A transaction is left    *)
(* behind only by a lost answer or by giving up before the chain has        *)
(* decided.                                                                 *)
IsOrder == Promise!Spec

(* The call returns: every fallback, round and poll is bounded.             *)
Returns == <>(pc = "done")

-----------------------------------------------------------------------------
(* executor.go:24, only one BUY on the chain for a mint.                    *)
OneBuyOnChain == side = "buy" => Cardinality(Landed) <= 1

(* PR-001 section 15, a failed transaction is not taken for a success.      *)
TrueWasExecuted == pc = "done" /\ result /\ ~sim => txs[sig] = "landed"
=============================================================================
