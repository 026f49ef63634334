----------------------------- MODULE TxConfirm ------------------------------
(***************************************************************************)
(* rpc.ConfirmTransaction: one goroutine polls the status of a signature,  *)
(* each poll going round the RPC endpoints from the one that answered      *)
(* last.  That index is one atomic shared by all goroutines, so the others *)
(* can move it under a poll that is going round.  "processed" tells the    *)
(* actions whether the chain has executed the transaction by now.          *)
(***************************************************************************)
EXTENDS Integers

CONSTANTS N,         \* length of RPC_URLS
          MaxPolls   \* 34 = 10 + 24 in ConfirmTransaction

ASSUME ConfirmAssumption == N \in Nat \ {0} /\ MaxPolls \in Nat \ {0}

Endpoints == 0..(N - 1)

(* Always answers with the present status; can fail; can also answer with   *)
(* an earlier status.                                                       *)
Health == {"up", "flaky", "lagging"}

VARIABLES health,     \* of each endpoint, while the goroutine polls
          preferred,  \* preferredRPCIdx
          poller,     \* the stage of ConfirmTransaction
          start, j, polls,
          missed      \* history: tx was processed before the last poll began

polling == <<health, preferred, poller, start, j, polls, missed>>

PollTypeOK ==
  /\ health \in [Endpoints -> Health] /\ preferred \in Endpoints
  /\ poller \in {"off", "poll", "ask", "sleep", "confirmed", "timeout"}
  /\ start \in Endpoints /\ j \in 0..N /\ polls \in 0..MaxPolls
  /\ missed \in BOOLEAN

PollInit ==
  /\ health = [e \in Endpoints |-> "up"] /\ preferred = 0
  /\ poller = "off" /\ start = 0 /\ j = 0 /\ polls = 0
  /\ missed = FALSE

(* WaitTxConfirmed is called with a signature.  What the endpoints are like *)
(* and where the others have left the index matters only from here.         *)
BeginConfirm ==
  /\ poller = "off"
  /\ poller' = "poll"
  /\ health' \in [Endpoints -> Health] /\ preferred' \in Endpoints
  /\ UNCHANGED <<start, j, polls, missed>>

(* getTxStatus loads the preferred index once. *)
BeginPoll(processed) ==
  /\ poller = "poll"
  /\ poller' = "ask"
  /\ start' = preferred /\ j' = 0 /\ missed' = processed
  /\ UNCHANGED <<health, preferred, polls>>

(* Faulty variant: the preferred index is loaded anew for each endpoint. *)
EndpointFromPreferred == (preferred + j) % N

Endpoint == (start + j) % N

Asks == poller = "ask" /\ j < N

(* Transport error, HTTP error, JSON-RPC error: the next endpoint.          *)
Failover ==
  /\ Asks /\ health[Endpoint] # "up"
  /\ j' = j + 1
  /\ UNCHANGED <<health, preferred, poller, start, polls, missed>>

(* A status: true for confirmed or finalized, with or without an error of   *)
(* the transaction itself.                                                  *)
Confirmed(processed) ==
  /\ Asks /\ processed
  /\ preferred' = Endpoint
  /\ poller' = "confirmed"
  /\ UNCHANGED <<health, start, j, polls, missed>>

(* No confirmation yet: this ends the poll, the endpoints that were not     *)
(* asked might know better.                                                 *)
NotYet(processed) ==
  /\ Asks /\ (~processed \/ health[Endpoint] = "lagging")
  /\ preferred' = Endpoint
  /\ poller' = "sleep"
  /\ UNCHANGED <<health, start, j, polls, missed>>

(* Every endpoint failed. *)
NoAnswer ==
  /\ poller = "ask" /\ j = N
  /\ poller' = "sleep"
  /\ UNCHANGED <<health, preferred, start, j, polls, missed>>

(* Faulty variant: the polls are not counted. *)
NextPollUncounted ==
  /\ poller = "sleep"
  /\ poller' = "poll"
  /\ UNCHANGED <<health, preferred, start, j, polls, missed>>

(* The pause after a poll, and the end of the loops of WaitTxConfirmed and  *)
(* ConfirmTransaction.                                                      *)
NextPoll ==
  /\ poller = "sleep"
  /\ polls' = polls + 1
  /\ poller' = IF polls' = MaxPolls THEN "timeout" ELSE "poll"
  /\ UNCHANGED <<health, preferred, start, j, missed>>

(* Another goroutine, with a status of its own, moves the index.            *)
OthersPrefer ==
  /\ poller = "ask"
  /\ preferred' \in Endpoints
  /\ UNCHANGED <<health, poller, start, j, polls, missed>>

PollStep(processed) ==
  \/ BeginPoll(processed) \/ Failover \/ Confirmed(processed)
  \/ NotYet(processed) \/ NoAnswer \/ NextPoll

-----------------------------------------------------------------------------
(* One endpoint that is up is enough when none lags, whatever the others do *)
(* and wherever the preferred index moves: a transaction that was processed *)
(* before a poll began is found by that poll.                               *)
NoFalseTimeout ==
  (\E e \in Endpoints : health[e] = "up") /\ (\A e \in Endpoints : health[e] # "lagging")
    => (poller \in {"sleep", "timeout"} => ~missed)
=============================================================================
