--------------------------- MODULE Executor_proof ---------------------------
(***************************************************************************)
(* Proofs about one call of BuyAndValidate or SafeSellWithValidation, for  *)
(* every number of endpoints, polls, rounds and lost answers: the quote    *)
(* race, the fail-over of the polls, the effort of a SELL, the bound on    *)
(* what is broadcast, and that the call is an order.                       *)
(***************************************************************************)
EXTENDS Executor, FiniteSetTheorems, SequenceTheorems, TLAPS

USE RaceAssumption, ConfirmAssumption, ExecutorAssumption

(* A goroutine whose result is on the channel, or received, has ended.      *)
RaceInv ==
  /\ RaceTypeOK
  /\ \A p \in got : asker[p] = "over"
  /\ \A i \in DOMAIN ch : asker[ch[i]] = "over"
  /\ returned => got = Providers
  /\ EarliestGoodWins

(* A poll that is going round has failed at the endpoints behind it.        *)
PollInv ==
  /\ PollTypeOK
  /\ poller # "timeout" => polls < MaxPolls
  /\ poller = "ask" => /\ missed => Processed
                       /\ \A k \in 0..(j - 1) : health[(start + k) % N] # "up"
  /\ poller = "confirmed" => Processed
  /\ NoFalseTimeout

(* How often each provider has been asked in the round that is going on.    *)
RequestInv ==
  /\ pc = "race" => turn = 1 /\ round = 1
  /\ pc = "race" => \A p \in Providers : asked[p] = 0
  /\ pc = "call" => /\ asked[first] = IF turn = 1 THEN round - 1 ELSE round
                    /\ asked[Other(first)] = round - 1
  /\ pc = "post" => /\ asked[first] = round
                    /\ asked[Other(first)] = IF turn = 1 THEN round - 1 ELSE round
  /\ pc = "done" /\ sig = 0 /\ ~sim => ~result
  /\ SellTriedHard

(* Where the transactions come from, and when there is a signature.         *)
ChainInv ==
  /\ pc \in {"race", "call", "post"} => poller = "off" /\ sig = 0
  /\ pc = "confirm" => poller # "off" /\ sig # 0
  /\ pc = "race" => txs = <<>>
  /\ sim => pc \in {"race", "done"} /\ txs = <<>>
  /\ Len(txs) = lost + (IF sig = 0 THEN 0 ELSE 1)

IInv == TypeOK /\ RaceInv /\ PollInv /\ RequestInv /\ ChainInv

-----------------------------------------------------------------------------
(* A step of the race keeps its invariant: when the caller has both results *)
(* no time stamp moves any more.                                            *)
LEMMA RaceKeeps == RaceInv /\ (RaceStep \/ Forget \/ UNCHANGED race) => RaceInv'
<1> SUFFICES ASSUME RaceInv, RaceStep \/ Forget \/ UNCHANGED race PROVE RaceInv'
  OBVIOUS
<1> USE DEF RaceInv, RaceTypeOK, EarliestGoodWins, Good, Providers
<1>1. ASSUME NEW p \in Providers, Post(p) PROVE RaceInv'
  BY <1>1 DEF Post
<1>2. ASSUME NEW p \in Providers, Answer(p) PROVE RaceInv'
  BY <1>2 DEF Answer
<1>3. ASSUME NEW p \in Providers, TimedOut(p) PROVE RaceInv'
  BY <1>3 DEF TimedOut
<1>4. ASSUME NEW p \in Providers, Send(p) PROVE RaceInv'
  BY <1>4 DEF Send
<1>5. CASE Receive
  <2>0. ch[1] \in Providers /\ Len(ch) \in Nat
    BY <1>5 DEF Receive
  <2>1. Head(ch) = ch[1] /\ 1 \in DOMAIN ch /\ ch' \in Seq(Providers) /\ Len(ch') = Len(ch) - 1
        /\ \A i \in DOMAIN ch' : i + 1 \in DOMAIN ch /\ ch'[i] = ch[i + 1]
    BY <1>5 DEF Receive
  <2>2. UNCHANGED <<now, asker, at, answer, winner, returned>> /\ got' = got \cup {ch[1]}
        /\ got # Providers
    BY <1>5, <2>1 DEF Receive
  <2>3. RaceTypeOK'
    <3>0. Len(ch') <= 2
      BY <2>0, <2>1
    <3>1. got' \subseteq Providers
      BY <2>0, <2>2
    <3>2. returned' \in BOOLEAN
      BY <2>2, Zenon
    <3> QED
      BY <2>1, <2>2, <3>0, <3>1, <3>2, Zenon
  <2>4. (\A p \in got' : asker'[p] = "over") /\ (\A i \in DOMAIN ch' : asker'[ch'[i]] = "over")
    BY <2>1, <2>2
  <2> QED
    BY <2>2, <2>3, <2>4
<1>6. CASE RaceReturn
  BY <1>6 DEF RaceReturn
<1>7. CASE Tick
  BY <1>7 DEF Tick
<1>8. CASE Forget
  <2>1. DOMAIN ch' = {} /\ Len(ch') = 0 /\ ch' \in Seq(Providers)
    BY <1>8 DEF Forget
  <2>2. RaceTypeOK'
    <3>1. now' \in 0..Timeout /\ Len(ch') <= 2 /\ at' \in [Providers -> 0..Timeout]
      BY <1>8, <2>1 DEF Forget
    <3>2. /\ asker' \in [Providers -> {"start", "wait", "send", "over"}]
          /\ answer' \in [Providers -> {"none", "error", "negative", "good"}]
          /\ winner' \in Providers \cup {"none"} /\ got' \subseteq Providers
      BY <1>8 DEF Forget
    <3>3. returned' \in BOOLEAN
      BY <1>8, Zenon DEF Forget
    <3> QED
      BY <2>1, <3>1, <3>2, <3>3, Zenon
  <2> QED
    BY <1>8, <2>1, <2>2 DEF Forget
<1>9. CASE UNCHANGED race
  BY <1>9 DEF race
<1> QED
  BY <1>1, <1>2, <1>3, <1>4, <1>5, <1>6, <1>7, <1>8, <1>9 DEF RaceStep, Ask

(* N endpoints asked in turn from any of them are all the endpoints.        *)
LEMMA RoundCoversAll ==
  ASSUME NEW s \in Endpoints, NEW e \in Endpoints
  PROVE  \E k \in 0..(N - 1) : (s + k) % N = e
<1>1. CASE s <= e
  <2>1. e - s \in 0..(N - 1) /\ s + (e - s) = e /\ e % N = e
    BY <1>1 DEF Endpoints
  <2> QED
    BY <2>1
<1>2. CASE e < s
  <2>1. e - s + N \in 0..(N - 1) /\ s + (e - s + N) = e + N /\ (e + N) % N = e
    BY <1>2 DEF Endpoints
  <2> QED
    BY <2>1
<1> QED
  BY <1>1, <1>2 DEF Endpoints

(* A step of the polls, or of another goroutine that moves the index, keeps *)
(* that a poll fails at every endpoint behind it, and that a poll which     *)
(* ends without a confirmation began before the chain had decided.          *)
LEMMA PollKeeps ==
  ASSUME PollInv, Processed => Processed',
         BeginConfirm \/ PollStep(Processed) \/ OthersPrefer \/ UNCHANGED polling
  PROVE  PollInv'
<1>0. Endpoint \in Endpoints
  BY DEF PollInv, PollTypeOK, Endpoint, Endpoints
<1>1. PollTypeOK' /\ (poller' # "timeout" => polls' < MaxPolls)
  <2>1. missed' \in BOOLEAN
    BY Zenon DEF PollInv, PollTypeOK, BeginConfirm, PollStep, OthersPrefer, polling, BeginPoll,
       Failover, Confirmed, NotYet, NoAnswer, NextPoll, Processed
  <2>2. /\ health' \in [Endpoints -> Health] /\ preferred' \in Endpoints
        /\ poller' \in {"off", "poll", "ask", "sleep", "confirmed", "timeout"}
        /\ start' \in Endpoints /\ j' \in 0..N /\ polls' \in 0..MaxPolls
        /\ poller' # "timeout" => polls' < MaxPolls
    BY <1>0 DEF PollInv, PollTypeOK, BeginConfirm, PollStep, OthersPrefer, polling, BeginPoll,
       Failover, Asks, Confirmed, NotYet, NoAnswer, NextPoll
  <2> QED
    BY <2>1, <2>2, Zenon DEF PollTypeOK
<1>2. poller' = "confirmed" => Processed'
  BY DEF PollInv, PollTypeOK, BeginConfirm, PollStep, OthersPrefer, polling, BeginPoll,
     Failover, Asks, Confirmed, NotYet, NoAnswer, NextPoll
<1>3. poller' = "ask" => (missed' => Processed')
  BY DEF PollInv, PollTypeOK, BeginConfirm, PollStep, OthersPrefer, polling, BeginPoll,
     Failover, Asks, Confirmed, NotYet, NoAnswer, NextPoll
<1>4. ASSUME poller' = "ask" PROVE \A k \in 0..(j' - 1) : health'[(start' + k) % N] # "up"
  <2>1. CASE BeginPoll(Processed)
    BY <2>1 DEF BeginPoll
  <2>2. CASE Failover
    <3>1. \A k \in 0..(j' - 1) : k = j \/ k \in 0..(j - 1)
      BY <2>2 DEF Failover, PollInv, PollTypeOK
    <3> QED
      BY <2>2, <3>1 DEF Failover, Asks, Endpoint, PollInv
  <2>3. CASE OthersPrefer \/ UNCHANGED polling
    BY <1>4, <2>3 DEF OthersPrefer, polling, PollInv
  <2> QED
    BY <1>4, <2>1, <2>2, <2>3 DEF BeginConfirm, PollStep, Confirmed, NotYet, NoAnswer, NextPoll
<1>5. NoFalseTimeout'
  <2> DEFINE OneUp == (\E e \in Endpoints : health[e] = "up")
                      /\ (\A e \in Endpoints : health[e] # "lagging")
  <2> SUFFICES ASSUME OneUp', poller' \in {"sleep", "timeout"} PROVE ~missed'
    BY DEF NoFalseTimeout
  <2>1. CASE NotYet(Processed)
    <3>1. ~Processed /\ missed' = missed /\ poller = "ask"
      BY <1>0, <2>1 DEF NotYet, Asks
    <3> QED
      BY <3>1 DEF PollInv
  <2>2. CASE NoAnswer
    <3>1. j = N /\ poller = "ask" /\ health' = health
      BY <2>2 DEF NoAnswer
    <3>2. \A k \in 0..(N - 1) : health[(start + k) % N] # "up"
      BY <3>1 DEF PollInv
    <3>3. PICK e \in Endpoints : health[e] = "up"
      BY <3>1
    <3>4. PICK k \in 0..(N - 1) : (start + k) % N = e
      BY <3>3, RoundCoversAll DEF PollInv, PollTypeOK
    <3> QED
      BY <3>2, <3>3, <3>4
  <2>3. CASE NextPoll \/ UNCHANGED polling
    <3>1. poller \in {"sleep", "timeout"} /\ missed' = missed /\ health' = health
      BY <2>3 DEF NextPoll, polling
    <3> QED
      BY <3>1 DEF PollInv, NoFalseTimeout
  <2> QED
    BY <2>1, <2>2, <2>3 DEF BeginConfirm, PollStep, OthersPrefer, BeginPoll, Failover, Asks, Confirmed
<1> QED
  BY <1>1, <1>2, <1>3, <1>4, <1>5 DEF PollInv

-----------------------------------------------------------------------------
(* The two providers, first and second.                                     *)
LEMMA TwoProviders ==
  ASSUME NEW p \in Providers
  PROVE  Other(p) \in Providers /\ Other(p) # p /\ \A q \in Providers : q \in {p, Other(p)}
BY DEF Providers, Other

(* What the chain does with one more transaction, or with one of those it   *)
(* has.                                                                     *)
LEMMA ChainFacts ==
  ASSUME TypeOK
  PROVE  /\ Len(txs) \in Nat
         /\ Append(txs, "pending") \in Seq({"pending", "landed", "failed", "dropped"})
         /\ Len(Append(txs, "pending")) = Len(txs) + 1
         /\ \A i \in DOMAIN txs, s \in {"landed", "failed", "dropped"} :
              /\ [txs EXCEPT ![i] = s] \in Seq({"pending", "landed", "failed", "dropped"})
              /\ Len([txs EXCEPT ![i] = s]) = Len(txs)
<1>1. txs \in Seq({"pending", "landed", "failed", "dropped"})
  BY DEF TypeOK
<1>2. ASSUME NEW i \in DOMAIN txs, NEW s \in {"landed", "failed", "dropped"}
      PROVE  /\ [txs EXCEPT ![i] = s] \in Seq({"pending", "landed", "failed", "dropped"})
             /\ Len([txs EXCEPT ![i] = s]) = Len(txs)
  BY <1>1, ExceptSeq
<1> QED
  BY <1>1, <1>2

(* A provider that gives no signature ends its turn, the round or the call. *)
LEMMA NoSignatureKeeps ==
  ASSUME TypeOK, pc \in {"call", "post"}, sig = 0, ~sim, NoSignature,
         UNCHANGED <<side, sim, first>>,
         asked' \in [Providers -> 0..MaxRounds],
         asked'[first] = round,
         asked'[Other(first)] = IF turn = 1 THEN round - 1 ELSE round
  PROVE  /\ RequestInv'
         /\ pc' \in {"call", "done"} /\ turn' \in 1..2 /\ round' \in 1..MaxRounds
         /\ result' \in BOOLEAN /\ sig' = 0
<1>1. /\ first \in Providers /\ Other(first) \in Providers /\ turn \in 1..2
      /\ round \in 1..MaxRounds /\ MaxRounds \in Nat
      /\ \A q \in Providers : q \in {first, Other(first)}
  BY TwoProviders DEF TypeOK
<1>2. result' \in BOOLEAN
  BY Zenon DEF NoSignature, Return, TypeOK
<1>3. pc' \in {"call", "done"} /\ turn' \in 1..2 /\ round' \in 1..MaxRounds /\ sig' = 0
  BY <1>1 DEF NoSignature, Return
<1>4. CASE turn = 1 \/ (side = "sell" /\ round < MaxRounds)
  <2>1. /\ pc' = "call" /\ first' = first /\ Other(first') = Other(first)
        /\ round' = IF turn = 1 THEN round ELSE round + 1
        /\ turn' = IF turn = 1 THEN 2 ELSE 1
    BY <1>1, <1>4 DEF NoSignature, Return
  <2>2. /\ asked'[first'] = IF turn' = 1 THEN round' - 1 ELSE round'
        /\ asked'[Other(first')] = round' - 1
    BY <1>1, <2>1
  <2>3. RequestInv'
    BY <2>1, <2>2 DEF RequestInv, SellTriedHard
  <2> QED
    BY <1>2, <1>3, <2>3
<1>5. CASE turn = 2 /\ (side = "buy" \/ round = MaxRounds)
  <2>1. pc' = "done" /\ result' = FALSE
    BY <1>1, <1>5 DEF NoSignature, Return
  <2>2. side' = "sell" => \A q \in Providers : asked'[q] = MaxRounds
    BY <1>1, <1>5 DEF TypeOK
  <2> QED
    BY <1>2, <1>3, <2>1, <2>2 DEF RequestInv, SellTriedHard
<1> QED
  BY <1>1, <1>2, <1>3, <1>4, <1>5 DEF TypeOK

(* Every step of the call, of the other goroutines and of the chain.        *)
LEMMA Induction == IInv /\ [Next]_vars => IInv'
<1> SUFFICES ASSUME IInv, [Next]_vars PROVE IInv'
  OBVIOUS
<1>1. /\ first \in Providers /\ Other(first) \in Providers /\ turn \in 1..2
      /\ round \in 1..MaxRounds /\ MaxRounds \in Nat \ {0} /\ MaxLost \in Nat
      /\ lost \in 0..MaxLost /\ Len(txs) \in Nat
      /\ \A q \in Providers : q \in {first, Other(first)}
      /\ Provider = IF turn = 1 THEN first ELSE Other(first)
  BY TwoProviders, ChainFacts DEF IInv, TypeOK, Provider
<1>2. ASSUME Processed => Processed',
             BeginConfirm \/ PollStep(Processed) \/ OthersPrefer \/ UNCHANGED polling,
             RaceStep \/ Forget \/ UNCHANGED race
      PROVE  RaceInv' /\ PollInv' /\ RaceTypeOK' /\ PollTypeOK'
  BY <1>2, RaceKeeps, PollKeeps DEF IInv, RaceInv, PollInv
<1>3. ASSUME UNCHANGED <<txs, sig>> PROVE Processed => Processed'
  BY <1>3 DEF Processed
<1> USE DEF config, order, chain
<1>4. CASE RunRace
  <2>1. RaceInv' /\ PollInv' /\ RaceTypeOK' /\ PollTypeOK'
    BY <1>2, <1>3, <1>4 DEF RunRace
  <2>2. TypeOK'
    BY <1>4, <2>1 DEF RunRace, IInv, TypeOK
  <2>3. RequestInv' /\ ChainInv'
    BY <1>4 DEF RunRace, polling, IInv, RequestInv, SellTriedHard, ChainInv
  <2> QED
    BY <2>1, <2>2, <2>3 DEF IInv
<1>5. CASE Order
  <2>1. RaceInv' /\ PollInv' /\ RaceTypeOK' /\ PollTypeOK'
    BY <1>2, <1>3, <1>5 DEF Order
  <2>2. result' \in BOOLEAN
    BY <1>5, Zenon DEF Order, Return, IInv, TypeOK
  <2>3. TypeOK'
    BY <1>5, <2>1, <2>2 DEF Order, Return, IInv, TypeOK, Providers
  <2>4. RequestInv'
    <3>1. \A p \in Providers : asked'[p] = 0
      BY <1>5 DEF Order, IInv, RequestInv
    <3>2. first' \in Providers /\ Other(first') \in Providers
      BY <2>3, TwoProviders DEF TypeOK
    <3>3. pc' = IF sim THEN "done" ELSE "call"
      BY <1>5 DEF Order, Return
    <3>4. turn' = 1 /\ round' = 1 /\ sim' = sim
      BY <1>5 DEF Order, IInv, RequestInv
    <3> QED
      BY <3>1, <3>2, <3>3, <3>4 DEF RequestInv, SellTriedHard
  <2>5. ChainInv'
    BY <1>5 DEF Order, Return, polling, IInv, ChainInv
  <2> QED
    BY <2>1, <2>3, <2>4, <2>5 DEF IInv
<1>6. CASE Call
  <2>1. RaceInv' /\ PollInv' /\ RaceTypeOK' /\ PollTypeOK'
    <3>1. UNCHANGED <<txs, sig>>
      BY <1>6 DEF Call, NoSignature
    <3> QED
      BY <1>2, <1>3, <1>6, <3>1 DEF Call
  <2>2. /\ pc = "call" /\ sig = 0 /\ ~sim /\ UNCHANGED <<side, sim, mode, first>>
        /\ asked' = [asked EXCEPT ![Provider] = @ + 1]
    BY <1>6 DEF Call, IInv, ChainInv
  <2>3. /\ asked[first] = IF turn = 1 THEN round - 1 ELSE round
        /\ asked[Other(first)] = round - 1
        /\ asked \in [Providers -> 0..MaxRounds] /\ Other(first) # first
    BY <2>2, TwoProviders DEF IInv, TypeOK, RequestInv
  <2>4. /\ asked' \in [Providers -> 0..MaxRounds]
        /\ asked'[first] = round
        /\ asked'[Other(first)] = IF turn = 1 THEN round - 1 ELSE round
    BY <1>1, <2>2, <2>3
  <2>5. CASE NoSignature /\ UNCHANGED kind
    <3>1. /\ RequestInv'
          /\ pc' \in {"call", "done"} /\ turn' \in 1..2 /\ round' \in 1..MaxRounds
          /\ result' \in BOOLEAN /\ sig' = 0
      BY <2>2, <2>4, <2>5, NoSignatureKeeps DEF IInv
    <3>2. TypeOK'
      BY <1>6, <2>1, <2>4, <2>5, <3>1 DEF Call, IInv, TypeOK
    <3>3. ChainInv'
      BY <1>6, <2>2, <3>1 DEF Call, polling, IInv, ChainInv
    <3> QED
      BY <2>1, <3>1, <3>2, <3>3 DEF IInv
  <2>6. CASE pc' = "post" /\ kind' \in {"native", "gateway"} /\ UNCHANGED <<turn, round, sig, result>>
    <3>1. TypeOK'
      BY <1>6, <2>1, <2>4, <2>6 DEF Call, IInv, TypeOK
    <3>2. RequestInv'
      <4>1. Other(first)' = Other(first) /\ first' = first
        BY <2>2
      <4> QED
        BY <2>4, <2>6, <4>1 DEF RequestInv, SellTriedHard
    <3>3. ChainInv'
      BY <1>6, <2>2, <2>6 DEF Call, polling, IInv, ChainInv
    <3> QED
      BY <2>1, <3>1, <3>2, <3>3 DEF IInv
  <2> QED
    BY <1>6, <2>5, <2>6 DEF Call
<1>7. CASE Signed
  <2>1. RaceInv' /\ PollInv' /\ RaceTypeOK' /\ PollTypeOK'
    <3>1. ~Processed
      BY <1>7 DEF Signed, Processed, IInv, ChainInv
    <3> QED
      BY <1>2, <1>7, <3>1 DEF Signed
  <2>2. txs' \in Seq({"pending", "landed", "failed", "dropped"}) /\ Len(txs') = Len(txs) + 1
        /\ sig' = Len(txs) + 1
    BY <1>7, ChainFacts DEF Signed, IInv
  <2>3. TypeOK'
    BY <1>1, <1>7, <2>1, <2>2 DEF Signed, IInv, TypeOK, Providers
  <2>4. RequestInv' /\ ChainInv'
    BY <1>1, <1>7, <2>2 DEF Signed, BeginConfirm, IInv, RequestInv, SellTriedHard, ChainInv
  <2> QED
    BY <2>1, <2>3, <2>4 DEF IInv
<1>8. CASE Failed
  <2>1. /\ pc = "post" /\ sig = 0 /\ ~sim /\ ~Processed
        /\ UNCHANGED <<side, sim, mode, first, asked, polling, race, held>>
    BY <1>8 DEF Failed, IInv, ChainInv, Processed
  <2>0. sim' = FALSE /\ poller' = "off"
    BY <1>8, Zenon DEF Failed, polling, IInv, TypeOK, ChainInv
  <2>2. RaceInv' /\ PollInv' /\ RaceTypeOK' /\ PollTypeOK'
    BY <1>2, <2>1
  <2>3. /\ asked \in [Providers -> 0..MaxRounds]
        /\ asked[first] = round
        /\ asked[Other(first)] = IF turn = 1 THEN round - 1 ELSE round
    BY <2>1 DEF IInv, TypeOK, RequestInv
  <2>4. /\ txs' \in Seq({"pending", "landed", "failed", "dropped"})
        /\ Len(txs') = lost' + 0 /\ 0 \in 0..Len(txs') /\ lost' \in 0..MaxLost
    BY <1>1, <1>8, <2>1, ChainFacts DEF Failed, IInv, TypeOK, ChainInv
  <2>5. CASE NoSignature /\ UNCHANGED kind
    <3>1. /\ RequestInv'
          /\ pc' \in {"call", "done"} /\ turn' \in 1..2 /\ round' \in 1..MaxRounds
          /\ result' \in BOOLEAN /\ sig' = 0
      BY <2>1, <2>3, <2>5, NoSignatureKeeps DEF IInv
    <3>2. TypeOK'
      BY <2>1, <2>2, <2>4, <2>5, <3>1 DEF IInv, TypeOK
    <3>3. ChainInv'
      <4>1. Len(txs') = lost' + (IF sig' = 0 THEN 0 ELSE 1)
        BY <2>4, <3>1
      <4> QED
        BY <2>0, <3>1, <4>1 DEF ChainInv
    <3> QED
      BY <2>2, <3>1, <3>2, <3>3 DEF IInv
  <2>6. CASE kind' = "gateway" /\ UNCHANGED <<pc, turn, round, sig, result>>
    <3>1. TypeOK'
      BY <2>1, <2>2, <2>4, <2>6 DEF IInv, TypeOK
    <3>2. RequestInv'
      BY <2>1, <2>6 DEF IInv, RequestInv, SellTriedHard
    <3>3. ChainInv'
      <4>1. Len(txs') = lost' + (IF sig' = 0 THEN 0 ELSE 1)
        BY <2>1, <2>4, <2>6
      <4> QED
        BY <2>0, <2>1, <2>6, <4>1 DEF ChainInv
    <3> QED
      BY <2>2, <3>1, <3>2, <3>3 DEF IInv
  <2> QED
    BY <1>8, <2>5, <2>6 DEF Failed
<1>9. CASE Poll \/ Others \/ UNCHANGED vars
  <2>1. RaceInv' /\ PollInv' /\ RaceTypeOK' /\ PollTypeOK'
    BY <1>2, <1>3, <1>9 DEF Poll, Others, vars
  <2>2. TypeOK'
    BY <1>9, <2>1 DEF Poll, Others, vars, IInv, TypeOK
  <2>3. RequestInv'
    BY <1>9 DEF Poll, Others, vars, IInv, RequestInv, SellTriedHard
  <2>4. ChainInv'
    BY <1>9 DEF Poll, PollStep, BeginPoll, Failover, Asks, Confirmed, NotYet, NoAnswer, NextPoll,
       Others, OthersPrefer, polling, vars, IInv, ChainInv, PollInv, PollTypeOK
  <2> QED
    BY <2>1, <2>2, <2>3, <2>4 DEF IInv
<1>10. CASE Outcome
  <2>1. RaceInv' /\ PollInv' /\ RaceTypeOK' /\ PollTypeOK'
    BY <1>2, <1>3, <1>10 DEF Outcome
  <2>2. result' \in BOOLEAN
    BY <1>10, Zenon DEF Outcome, Return
  <2>3. TypeOK'
    BY <1>10, <2>1, <2>2 DEF Outcome, Return, IInv, TypeOK
  <2>4. RequestInv' /\ ChainInv'
    BY <1>10 DEF Outcome, Return, polling, IInv, RequestInv, SellTriedHard, ChainInv
  <2> QED
    BY <2>1, <2>3, <2>4 DEF IInv
<1>11. ASSUME NEW i \in DOMAIN txs, Settle(i) PROVE IInv'
  <2>1. PICK s \in {"landed", "failed", "dropped"} : txs' = [txs EXCEPT ![i] = s]
    BY <1>11 DEF Settle
  <2>2. txs' \in Seq({"pending", "landed", "failed", "dropped"}) /\ Len(txs') = Len(txs)
    BY <2>1, ChainFacts DEF IInv
  <2>3. Processed => Processed'
    BY <1>11, <2>1 DEF Settle, Processed, IInv, TypeOK
  <2>4. RaceInv' /\ PollInv' /\ RaceTypeOK' /\ PollTypeOK'
    BY <1>2, <1>11, <2>3 DEF Settle
  <2>5. held' \in BOOLEAN
    BY <1>11, Zenon DEF Settle, IInv, TypeOK
  <2>6. TypeOK'
    BY <1>11, <2>2, <2>4, <2>5 DEF Settle, IInv, TypeOK
  <2>7. RequestInv'
    BY <1>11 DEF Settle, IInv, RequestInv, SellTriedHard
  <2>8. ChainInv'
    BY <1>11, <2>2 DEF Settle, polling, IInv, TypeOK, ChainInv
  <2> QED
    BY <2>4, <2>6, <2>7, <2>8 DEF IInv
<1> QED
  BY <1>4, <1>5, <1>6, <1>7, <1>8, <1>9, <1>10, <1>11 DEF Next, Step

(* The invariant holds initially.                                           *)
LEMMA Start == Init => IInv
<1> SUFFICES ASSUME Init PROVE IInv
  OBVIOUS
<1>1. RaceInv
  <2>1. /\ now = 0 /\ ch = <<>> /\ got = {} /\ winner = "none" /\ returned = FALSE
        /\ asker = [p \in Providers |-> "start"]
        /\ at = [p \in Providers |-> 0] /\ answer = [p \in Providers |-> "none"]
    BY DEF Init, RaceInit
  <2>2. DOMAIN ch = {} /\ Len(ch) <= 2 /\ ch \in Seq(Providers)
    BY <2>1
  <2>3. returned \in BOOLEAN
    BY <2>1, Zenon
  <2>4. now \in 0..Timeout /\ at \in [Providers -> 0..Timeout] /\ got \subseteq Providers
    BY <2>1
  <2>5. /\ asker \in [Providers -> {"start", "wait", "send", "over"}]
        /\ answer \in [Providers -> {"none", "error", "negative", "good"}]
    BY <2>1
  <2>6. RaceTypeOK
    BY <2>1, <2>2, <2>3, <2>4, <2>5, Zenon DEF RaceTypeOK
  <2> QED
    BY <2>1, <2>2, <2>6 DEF RaceInv, EarliestGoodWins
<1>2. PollInv
  <2>1. missed \in BOOLEAN
    BY Zenon DEF Init, PollInit
  <2>2. PollTypeOK
    BY <2>1 DEF Init, PollInit, PollTypeOK, Endpoints, Health
  <2> QED
    BY <2>2 DEF Init, PollInit, PollInv, NoFalseTimeout
<1>3. TypeOK
  <2>1. result \in BOOLEAN /\ held \in BOOLEAN
    BY Zenon DEF Init
  <2>2. RaceTypeOK /\ PollTypeOK
    BY <1>1, <1>2 DEF RaceInv, PollInv
  <2>3. txs \in Seq({"pending", "landed", "failed", "dropped"}) /\ Len(txs) = 0
    BY DEF Init
  <2>4. first \in Providers /\ asked \in [Providers -> 0..MaxRounds]
    BY DEF Init, Providers
  <2> QED
    BY <2>1, <2>2, <2>3, <2>4 DEF Init, TypeOK
<1>4. RequestInv /\ ChainInv
  BY DEF Init, PollInit, RequestInv, SellTriedHard, ChainInv
<1> QED
  BY <1>1, <1>2, <1>3, <1>4 DEF IInv

(* A call never broadcasts more transactions than it lost answers, and one. *)
LEMMA LandedFew == TypeOK /\ ChainInv => BuysBounded
<1> SUFFICES ASSUME TypeOK, ChainInv PROVE BuysBounded
  OBVIOUS
<1>1. Len(txs) \in Nat /\ DOMAIN txs = 1..Len(txs) /\ Landed \subseteq 1..Len(txs)
  BY DEF TypeOK, Landed
<1>2. IsFiniteSet(1..Len(txs)) /\ Cardinality(1..Len(txs)) = Len(txs)
  <2>1. /\ IsFiniteSet(1..Len(txs))
        /\ Cardinality(1..Len(txs)) = IF 1 > Len(txs) THEN 0 ELSE Len(txs) - 1 + 1
    BY <1>1, FS_Interval
  <2>2. (IF 1 > Len(txs) THEN 0 ELSE Len(txs) - 1 + 1) = Len(txs)
    BY <1>1
  <2> QED
    BY <2>1, <2>2
<1>3. Cardinality(Landed) <= Len(txs)
  <2>1. Cardinality(Landed) <= Cardinality(1..Len(txs))
    BY <1>1, <1>2, FS_Subset
  <2> QED
    BY <1>2, <2>1
<1> QED
  BY <1>3 DEF ChainInv, BuysBounded

-----------------------------------------------------------------------------
(* quote.RaceQuote: whatever the order in which its goroutines run, it      *)
(* returns a quote exactly if a provider gave a good one, and the earliest. *)
THEOREM RaceIsFair == Spec => []EarliestGoodWins
<1>1. IInv => EarliestGoodWins
  BY DEF IInv, RaceInv
<1> QED
  BY <1>1, Start, Induction, PTL DEF Spec

(* rpc.ConfirmTransaction: with any number of endpoints, one that is up is  *)
(* enough, though other goroutines move the preferred index meanwhile.      *)
THEOREM FailoverFinds == Spec => []NoFalseTimeout
<1>1. IInv => NoFalseTimeout
  BY DEF IInv, PollInv
<1> QED
  BY <1>1, Start, Induction, PTL DEF Spec

(* SafeSellWithValidation: a SELL without a signature has been tried in     *)
(* every round with each provider, whatever their configuration.            *)
THEOREM SellEffort == Spec => []SellTriedHard
<1>1. IInv => SellTriedHard
  BY DEF IInv, RequestInv
<1> QED
  BY <1>1, Start, Induction, PTL DEF Spec

(* BuyAndValidate: at most one BUY on the chain, and one for each lost      *)
(* answer; none in simulation.                                              *)
THEOREM DoubleBuyBounded == Spec => []BuysBounded
<1>1. IInv => BuysBounded
  BY LandedFew DEF IInv
<1> QED
  BY <1>1, Start, Induction, PTL DEF Spec

-----------------------------------------------------------------------------
(* The call, by its stage, and the transaction that it waits for.           *)
StageFacts ==
  /\ stage = IF sim THEN "off"
             ELSE IF pc \in {"call", "post"} THEN "asking"
             ELSE IF pc = "confirm" THEN "waiting"
             ELSE IF pc = "done" /\ result THEN "true" ELSE "off"
  /\ awaited = IF pc = "confirm" THEN txs[sig] ELSE "none"
  /\ pc = "confirm" => sig \in DOMAIN txs
  /\ stray \in BOOLEAN
  /\ stray <=> \E i \in DOMAIN txs : txs[i] = "pending" /\ ~(pc = "confirm" /\ i = sig)

(* The refinement mapping, spelt out.                                       *)
LEMMA StageIs == IInv => StageFacts
<1> SUFFICES ASSUME IInv PROVE StageFacts
  OBVIOUS
<1>1. pc \in {"race", "call", "post", "confirm", "done"}
  BY DEF IInv, TypeOK
<1>2. pc = "confirm" => sig \in DOMAIN txs
  BY DEF IInv, TypeOK, ChainInv
<1>3. stray \in BOOLEAN
  BY DEF stray
<1> QED
  BY <1>1, <1>2, <1>3 DEF stage, awaited, stray, StageFacts

(* A step of the call as the order of the pipeline sees it.                 *)
OrderMove ==
  \/ /\ stage = "off" /\ stage' \in {"off", "asking"}
     /\ awaited' = "none" /\ (stray' => stray)
  \/ /\ stage = "asking"
     /\ \/ stage' = "waiting" /\ awaited' = "pending"
        \/ stage' \in {"asking", "off"} /\ awaited' = "none"
  \/ /\ stage = "waiting" /\ stage' = "waiting" /\ (stray' => stray)
     /\ \/ awaited' = awaited
        \/ awaited = "pending" /\ awaited' \in {"landed", "failed", "dropped"}
  \/ /\ stage = "waiting" /\ stage' = "true" /\ (stray' => stray)
     /\ awaited \in {"landed", "failed"} /\ awaited' = "none"
  \/ /\ stage = "waiting" /\ stage' = "off" /\ awaited' = "none"
     /\ (stray' => stray) \/ awaited = "pending"
  \/ /\ stage = "true" /\ stage' \in {"true", "off"} /\ awaited' = "none"
     /\ (stray' => stray)

(* Each of these is a step of the abstract order.                           *)
LEMMA MoveIsStep == OrderMove => Promise!Next
  BY DEF OrderMove, Promise!Next, Promise!Step, Promise!Off, Promise!Asking, Promise!Waiting,
     Promise!Confirmed, Promise!GivesUp, Promise!Returned, Promise!Strays

(* Every step of the call is a step of its order.                           *)
LEMMA OrderStep ==
  ASSUME IInv, [Next]_vars, StageFacts, StageFacts'
  PROVE  OrderMove
<1> USE DEF config, order, chain
<1>1. /\ stage = IF sim THEN "off"
                 ELSE IF pc \in {"call", "post"} THEN "asking"
                 ELSE IF pc = "confirm" THEN "waiting"
                 ELSE IF pc = "done" /\ result THEN "true" ELSE "off"
      /\ stage' = IF sim' THEN "off"
                  ELSE IF pc' \in {"call", "post"} THEN "asking"
                  ELSE IF pc' = "confirm" THEN "waiting"
                  ELSE IF pc' = "done" /\ result' THEN "true" ELSE "off"
      /\ awaited = IF pc = "confirm" THEN txs[sig] ELSE "none"
      /\ awaited' = IF pc' = "confirm" THEN txs'[sig'] ELSE "none"
  BY DEF StageFacts
<1>2. /\ pc \in {"race", "call", "post", "confirm", "done"}
      /\ sim => pc \in {"race", "done"} /\ txs = <<>>
  BY DEF IInv, TypeOK, ChainInv
<1>3. ASSUME UNCHANGED <<sim, pc, txs, sig, result>> PROVE OrderMove
  <2>1. stage' = stage /\ awaited' = awaited /\ stray' = stray
    BY <1>3 DEF stage, awaited, stray
  <2>2. stage \in {"off", "asking", "waiting", "true"} /\ (stage # "waiting" => awaited = "none")
    BY <1>1, <1>2
  <2> QED
    BY <2>1, <2>2 DEF OrderMove
<1>4. CASE Order
  <2>1. ~stray'
    BY <1>4 DEF Order, IInv, ChainInv, StageFacts
  <2> QED
    BY <1>1, <1>4, <2>1 DEF Order, Return, OrderMove
<1>5. CASE Call \/ Failed
  <2>1. stage = "asking" /\ pc' \in {"call", "post", "done"} /\ sim' = sim
    BY <1>1, <1>2, <1>5 DEF Call, Failed, NoSignature, Return
  <2>2. pc' = "done" => result' = FALSE
    BY <1>5 DEF Call, Failed, NoSignature, Return
  <2> QED
    BY <1>1, <2>1, <2>2 DEF OrderMove
<1>6. CASE Signed
  <2>1. stage = "asking" /\ pc' = "confirm" /\ sim' = sim
    BY <1>1, <1>2, <1>6 DEF Signed
  <2>2. awaited' = "pending"
    BY <1>1, <1>6 DEF Signed, IInv, TypeOK
  <2> QED
    BY <1>1, <1>2, <2>1, <2>2 DEF OrderMove
<1>7. CASE Outcome
  <2>1. stage = "waiting" /\ pc = "confirm" /\ awaited = txs[sig] /\ awaited' = "none"
    BY <1>1, <1>2, <1>7 DEF Outcome, Return
  <2>2. CASE poller = "confirmed"
    <3>1. txs[sig] \in {"landed", "failed"}
      BY <2>2 DEF IInv, PollInv, Processed
    <3>2. stray' => stray
      BY <1>7, <2>1, <3>1 DEF Outcome, StageFacts
    <3>3. stage' = "true"
      BY <1>1, <1>2, <1>7, <2>1, <2>2 DEF Outcome, Return
    <3> QED
      BY <2>1, <3>1, <3>2, <3>3 DEF OrderMove
  <2>3. CASE poller = "timeout"
    <3>1. stage' = "off"
      BY <1>1, <1>2, <1>7, <2>1, <2>3 DEF Outcome, Return
    <3>2. (stray' => stray) \/ awaited = "pending"
      BY <1>7, <2>1 DEF Outcome, StageFacts
    <3> QED
      BY <2>1, <3>1, <3>2 DEF OrderMove
  <2> QED
    BY <1>7, <2>2, <2>3 DEF Outcome
<1>8. ASSUME NEW i \in DOMAIN txs, Settle(i) PROVE OrderMove
  <2>1. PICK s \in {"landed", "failed", "dropped"} : txs' = [txs EXCEPT ![i] = s]
    BY <1>8 DEF Settle
  <2>2. /\ UNCHANGED <<sim, pc, sig, result>> /\ txs[i] = "pending"
        /\ DOMAIN txs' = DOMAIN txs /\ \A k \in DOMAIN txs : txs'[k] = IF k = i THEN s ELSE txs[k]
    BY <1>8, <2>1 DEF Settle, IInv, TypeOK
  <2>3. stray' => stray
    BY <2>2 DEF StageFacts
  <2>4. stage' = stage
    BY <2>2 DEF stage
  <2>5. awaited' = awaited \/ (awaited = "pending" /\ awaited' \in {"landed", "failed", "dropped"})
    BY <1>1, <2>2 DEF StageFacts
  <2>6. stage \in {"off", "asking", "waiting", "true"} /\ (stage # "waiting" => awaited' = "none")
    BY <1>1, <1>2, <2>2
  <2> QED
    BY <2>3, <2>4, <2>5, <2>6 DEF OrderMove
<1>9. CASE RunRace \/ Poll \/ Others \/ UNCHANGED vars
  BY <1>3, <1>9 DEF RunRace, Poll, Others, vars
<1> QED
  BY <1>4, <1>5, <1>6, <1>7, <1>8, <1>9 DEF Next, Step

(* BuyAndValidate and SafeSellWithValidation, whatever their configuration  *)
(* and whatever the providers, the endpoints and the chain do, keep what    *)
(* HandleMint relies on: after a signature the call only waits for that     *)
(* transaction, and true means that the chain has processed it.             *)
THEOREM CallImplementsOrder == Spec => IsOrder
<1>1. Init => Promise!Init
  BY DEF Init, Promise!Init, stage, awaited, stray
<1>2. IInv /\ StageFacts /\ StageFacts' /\ [Next]_vars
        => [Promise!Next]_<<[c \in {"call"} |-> stage], [c \in {"call"} |-> awaited],
                            {c \in {"call"} : stray}>>
  BY OrderStep, MoveIsStep
<1> QED
  BY <1>1, <1>2, Start, Induction, StageIs, PTL DEF Spec, IsOrder, Promise!Spec

=============================================================================
