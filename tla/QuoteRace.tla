----------------------------- MODULE QuoteRace ------------------------------
(***************************************************************************)
(* quote.RaceQuote: two goroutines ask PumpPortal and PumpAPI for a sell   *)
(* quote and send what they got on a buffered channel; the caller waits    *)
(* for both results and takes the earlier of the good ones.  Time is in    *)
(* ticks; it passes only while the goroutines that are left wait for the   *)
(* network.                                                                *)
(***************************************************************************)
EXTENDS Integers, Sequences

CONSTANT Timeout   \* TIMEOUT_MS of a request

ASSUME RaceAssumption == Timeout \in Nat \ {0}

Providers == {"portal", "api"}

VARIABLES now,
          asker,    \* the stage of each provider's goroutine
          at,       \* receivedAt: when its answer was read
          answer,   \* what it answered: "good" is a positive amount of SOL
          ch,       \* the channel, capacity 2
          got,      \* providers whose result the caller has received
          winner,   \* the provider whose quote is returned, "none" for !ok
          returned  \* RaceQuote has returned

race == <<now, asker, at, answer, ch, got, winner, returned>>

RaceTypeOK ==
  /\ now \in 0..Timeout
  /\ asker \in [Providers -> {"start", "wait", "send", "over"}]
  /\ at \in [Providers -> 0..Timeout]
  /\ answer \in [Providers -> {"none", "error", "negative", "good"}]
  /\ ch \in Seq(Providers) /\ Len(ch) <= 2
  /\ got \subseteq Providers
  /\ winner \in Providers \cup {"none"} /\ returned \in BOOLEAN

RaceInit ==
  /\ now = 0
  /\ asker = [p \in Providers |-> "start"]
  /\ at = [p \in Providers |-> 0] /\ answer = [p \in Providers |-> "none"]
  /\ ch = <<>> /\ got = {} /\ winner = "none" /\ returned = FALSE

(* The base URL is not configured, or the request is sent. *)
Post(p) ==
  /\ asker[p] = "start"
  /\ \/ asker' = [asker EXCEPT ![p] = "send"] /\ answer' = [answer EXCEPT ![p] = "error"]
     \/ asker' = [asker EXCEPT ![p] = "wait"] /\ UNCHANGED answer
  /\ UNCHANGED <<now, at, ch, got, winner, returned>>

(* An answer: its time is taken when the body has been read; a bad status,  *)
(* bad JSON or an amount of zero is an error, a negative amount is not.     *)
Answer(p) ==
  /\ asker[p] = "wait"
  /\ asker' = [asker EXCEPT ![p] = "send"]
  /\ \E a \in {"error", "negative", "good"} :
       /\ answer' = [answer EXCEPT ![p] = a]
       /\ at' = [at EXCEPT ![p] = IF a = "error" THEN @ ELSE now]
  /\ UNCHANGED <<now, ch, got, winner, returned>>

(* The context of the request ends.                                         *)
TimedOut(p) ==
  /\ asker[p] = "wait" /\ now = Timeout
  /\ asker' = [asker EXCEPT ![p] = "send"]
  /\ answer' = [answer EXCEPT ![p] = "error"]
  /\ UNCHANGED <<now, at, ch, got, winner, returned>>

Send(p) ==
  /\ asker[p] = "send" /\ Len(ch) < 2
  /\ ch' = Append(ch, p)
  /\ asker' = [asker EXCEPT ![p] = "over"]
  /\ UNCHANGED <<now, at, answer, got, winner, returned>>

Receive ==
  /\ ch # <<>> /\ got # Providers
  /\ got' = got \cup {Head(ch)}
  /\ ch' = Tail(ch)
  /\ UNCHANGED <<now, asker, at, answer, winner, returned>>

Good == {p \in Providers : answer[p] = "good"}

(* Faulty variant: the time stamps compared the wrong way round. *)
RaceReturnLater ==
  /\ got = Providers /\ ~returned
  /\ returned' = TRUE
  /\ winner' = IF Good = {} THEN "none"
               ELSE IF Good = {"api"} THEN "api"
               ELSE IF Good = {"portal"} \/ at["api"] <= at["portal"] THEN "portal"
               ELSE "api"
  /\ UNCHANGED <<now, asker, at, answer, ch, got>>

(* Both results are in: the only good one, or the earlier one, a tie going  *)
(* to PumpPortal.                                                           *)
RaceReturn ==
  /\ got = Providers /\ ~returned
  /\ returned' = TRUE
  /\ winner' = IF Good = {} THEN "none"
               ELSE IF Good = {"api"} THEN "api"
               ELSE IF Good = {"portal"} \/ at["portal"] <= at["api"] THEN "portal"
               ELSE "api"
  /\ UNCHANGED <<now, asker, at, answer, ch, got>>

Tick ==
  /\ now < Timeout
  /\ \A p \in Providers : asker[p] \in {"wait", "over"}
  /\ ch = <<>> /\ got # Providers
  /\ now' = now + 1
  /\ UNCHANGED <<asker, at, answer, ch, got, winner, returned>>

Ask(p) == Post(p) \/ Answer(p) \/ TimedOut(p) \/ Send(p)

RaceStep == Receive \/ RaceReturn \/ Tick \/ \E p \in Providers : Ask(p)

-----------------------------------------------------------------------------
(* The result does not depend on the order in which the goroutines were     *)
(* scheduled: there is a quote if and only if one provider gave a good      *)
(* answer, and no good answer was read before the winner's.                 *)
EarliestGoodWins ==
  returned =>
    /\ winner = "none" <=> Good = {}
    /\ winner # "none" => winner \in Good /\ \A p \in Good : at[winner] <= at[p]
=============================================================================
