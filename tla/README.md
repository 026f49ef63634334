# Verification of the sniper worker

TLA+ models of the trading worker in `src/`, the TLC configurations that check
them, and TLAPS proofs of the results that matter most. `PROJECT.json` lists
which lines of the code every definition stands for.

## 1. The system

A *worker* (`cmd/worker`) listens to a WebSocket stream of token events, buys
tokens ("mints") that pass its filters, watches each position and sells it by
adaptive rules. Several workers can share one Redis and one wallet. In every
worker a *recovery loop* sells whatever is found in the wallet.

| component | state it keeps | operations | what is hard | what makes it correct |
|---|---|---|---|---|
| pipeline (`app`) | stream gate (one goroutine per mint and worker) | `dispatchStreamMintWithEntry`, `HandleMint` | a dozen network calls between the checks and the BUY; panics; shutdown without waiting | one handler per mint; checks still true when it buys; everything acquired is released |
| mint lock (`lock`) | Redis `mint:<m>`, TTL | `LockMint`, `RefreshMint`, `UnlockMint` | no owner token: DEL deletes anybody's key; the error of a refresh is dropped | mutual exclusion as long as the TTL covers a phase and the refreshes that fail |
| idempotency | Redis `event:<m>` (10 s), `cooldown:<m>` (no TTL) | `IsDuplicate`, `SetCooldown` | read long before the BUY | a mint that lost is not bought again |
| position limit | Redis counter and SET | `TryReserve`, `Release` (Lua) | crash between them | counter = positions; never above the limit |
| sell guard | Redis `position:exiting:<m>`, 5 min | `TryAcquireSellExit`, `ReleaseSellExit` | monitor and recovery of all workers; a TTL nobody prolongs | one seller per mint |
| executor, `pumpnative` | none | `BuyAndValidate`, `SafeSellWithValidation` | lost answers, fallbacks, rounds, late landing | at most one BUY per answer; a SELL is really tried |
| `rpc` | shared index of the preferred endpoint | `ConfirmTransaction`, `getTxStatus` | failing and lagging endpoints | finds what is on the chain |
| monitor, `exit` | peak, trailing, pending confirmation | `MonitorPositionWithBot`, `AdaptiveExitReason` | rules that alternate, stale and failed quotes, events | always exits; no sale on a wick; no hold without limit |
| quote race | none | `RaceQuote` | two goroutines, a time-out | earliest good answer, independent of scheduling |
| recovery | wallet snapshot | `RecoverAll`, loop | stale snapshot, ignores the mint lock | nothing stays in the wallet |
| guard | Redis counters per UTC day, alert key | `CanTrade`, `UpdateDailyLoss`, `IncrDailyTradeCount`, active hours | Redis errors, a midnight that reopens the day, concurrent callers | fails closed; one alert per day; one opening per day |
| store | Redis list and dedupe keys | `SaveTrade` | four commands without a transaction, re-sent by the client | each trade stored and counted once |
| stream (`pumpws`) | connection, subscriptions, activity per mint | `Run`, `PublishStreamEvent`, `SubscribeMint`, `TrackEvent`, `GetMintActivity`, `PruneTracker`, `ParseStreamEvent`, `ExtractMint` | locks, closed channels, random map order, backoff | no send on a closed channel; complete activity; no ungated mint |
| filters | none | `AllowStreamEvent`, `AllowMint`, `entrySnapshotPasses` | reads at different moments and commitments, rounding, RPC failures | what passed is still true at the BUY |
| report | Redis key of the last summary | `NotifyTradeSavedWithTrade` | read-then-write by several sellers | summaries keep their interval |
| operator's reset (`cmd/reset-pnl`) | none | trades, dedupe keys, report key, counters, slots, in this order | runs beside live workers, stops at its first error | what it leaves behind is bounded by what it overtook |

Interaction: the stream goroutine parses a frame, applies the stream gate,
records activity, publishes the event to monitors of that mint and starts
`HandleMint` in its own goroutine. `HandleMint` goes through guard, filters,
idempotency, lock and limit, calls the executor and runs the monitor in the
same goroutine. Monitor and recovery share the path sell guard → executor →
`SaveTrade` → cooldown → daily loss → report. All sharing between workers is by
Redis keys and by the wallet on the chain. `redisx.Init` leaves the options of
the Redis client at their defaults, so the client sends a command again whose
answer was lost: every command of this code can take effect twice.

The hazards found in the survey, each at its line and with the properties that
would catch it, are in `PROJECT.json` under `hazards`.

## 2. Modules

| module | models | role |
|---|---|---|
| `Sniper` | `HandleMint` of all workers and mints, the recovery loops, the operator's reset, all Redis keys between them, the wallet, BUY transactions, TTLs, panics, crashes, restarts, Redis commands that fail or are sent again, the end of the UTC day | the core: composes everything that shares Redis or the wallet |
| `MintMutex` | – | abstract specification: an exclusive owner per mint |
| `Order` | – | abstract specification: what a BUY or SELL promises to its caller |
| `SniperMutex` | `Sniper` under two refinement mappings | the sellers of a mint implement `MintMutex`, the BUYs of the handlers are `Order`s |
| `SniperHistory` | `Sniper` with a history variable | handlers that were dispatched when already ruled out |
| `SniperMC` | `SniperHistory` with symmetric workers | what TLC checks for two workers |
| `MintLock` | mint lock and sell guard of one mint with a clock, refreshes that fail, DELs that are sent again | implements `MintMutex`; justifies the guards of `ExpireLock` and `ExpireExit` in `Sniper` |
| `QuoteRace` | the two provider goroutines, the channel, the choice | part of `Executor` |
| `TxConfirm` | polls and failover over the endpoints, with the shared preferred index | part of `Executor` |
| `Executor` | `QuoteRace`, then provider order, native/gateway endpoints, fallbacks and rounds, then `TxConfirm`, against the chain | one BUY or SELL from begin to end; implements `Order`, which `Sniper` assumes of it |
| `Monitor`, `MonitorMC` | the monitor loop, exit rules, confirmation, event channel | what `MonitorExit` of `Sniper` abstracts |
| `StreamConn` | the reconnect loop of one connection | where frames come from |
| `ParseEvent` | one frame from `ParseStreamEvent` and `ExtractMint` to the stream gate | |
| `EventBus` | publishers and monitors of one mint, their channels and the lock | part of `MintStream`; the stream's side of `Monitor`'s channel |
| `Tracker` | the activity of one mint: append, read, prune | part of `MintStream` |
| `MintStream` | `onMsg`, the activity filter and the monitor's subscription over tracker and bus | composes `EventBus` and `Tracker` |
| `EntryFilter` | all gates on the way from an event to the BUY, while the chain moves | what `PassGuard`/`Reject` of `Sniper` abstract |
| `ActiveHours` | the window of trading hours on the clock face | part of `Guard` |
| `Guard`, `GuardMC` | `CanTrade`, its counters, its alert, hours and days | what `CanTrade` of `Sniper` abstracts |
| `TradeStore` | recording a trade, with faults | part of `TradeClose`; what `SaveTrade`…`UpdateDailyLoss` of `Sniper` abstract |
| `Report` | the interval of the summaries | part of `TradeClose` |
| `TradeClose`, `TradeCloseMC` | record, then report, beside the operator's reset and over midnights | composes `TradeStore` and `Report` |
| `Sniper_proof` | – | theorems about `Sniper`, `SniperMutex` and `SniperHistory` |
| `MintLock_proof`, `EntryFilter_proof`, `Monitor_proof` | – | theorems about the module of that name |
| `Executor_proof` | – | theorems about `Executor` with `QuoteRace` and `TxConfirm` |
| `Guard_proof` | – | theorems about `Guard` with `ActiveHours` |
| `TradeClose_proof` | – | theorems about `TradeClose` with `TradeStore` and `Report` |
| `Stream_proof` | – | theorems about `MintStream` with `EventBus` and `Tracker`, `ParseEvent`, `StreamConn` |

Correspondence. A process of a model is a goroutine; its `pc` names what it does
next. One action is one Redis command (or Lua script), one external call, one
lock operation, or local computation between two of them, so that everything
the code does not do atomically can be interleaved. In `Sniper` a process is
`<<worker, mint>>` or `<<worker, Recovery>>`; the stream gate of a worker is the
fact that each such process exists once. Amounts are abstracted to what
decisions distinguish: a mint is in the wallet or not, a trade lost or not,
`MAX_DAILY_LOSS` counts losing trades. History variables (marked "history") are
read by properties only. Definitions preceded by "Faulty variant" are mutated
forms of the definition that follows: they belong to no specification, they say
what plausible mistake each property would detect.

Comments of the form "PR-005", "blueprint", "env contract" mean the documents
`src/docs/rlangga-*.md`.

## 3. What TLC checks

Each run asks one question of one part of the system.

| run | module | distinct states | shows |
|---|---|---|---|
| `SniperWorkers` | `SniperMC` | 1,041,460 | two workers, one mint, one crash, panic or midnight: `OneHandlerPerMint`, `OneSellerPerMint`, `SlotAccounting`, `QuotaOvershootBounded`; `LateDispatchNeverBuys` (a check that was false when the mint was dispatched is honoured, on that day) |
| `SniperLive` | `SniperMutex` | 62,092 | one worker and the operator, a fault of any kind: sellers refine `MintMutex` (`SalesAreExclusive`), BUYs refine `Order` (`BuysAreOrders`); `LockFreed`, `Liquidated` |
| `MintLock` | `MintLock` | 472,937 | `KeyOutlivesHandler`, `ExitKeyOutlivesSale`, refinement of `MintMutex` (`IsMutex`) |
| `Executor` | `Executor` | 365,686 | refinement of `Order` (`IsOrder`), `BuysBounded`, `SellTriedHard`, `Returns`; of its parts `EarliestGoodWins`, `NoFalseTimeout` |
| `MonitorMC` | `MonitorMC` | 24,452 | `WickProof`, `HoldBounded`, `RugSells`, `Exits` |
| `MintStream` | `MintStream` | 140,771 | of the bus `NoSendOnClosed`, `PublishReturns`; of the tracker `ActivityComplete`, `AgeKept` |
| `Guard` | `GuardMC` | 622,160 | `FailClosed`, `AlertIsClaimed`; of its part `OneOpening` |
| `TradeClose` | `TradeCloseMC` | 1,721,072 | of the store `StoredOnce`, `RecordsDrift`, `LosersCool` (a losing mint in the list is on the blacklist); of the report `Spaced` |
| `ParseEvent` | `ParseEvent` | 686,750 | `OuterWins`, `NoUngatedMint` |
| `EntryFilter` | `EntryFilter` | 3,561,780 | `AuthoritiesGone`, `HolderWithinLimit`, `GatesAgree` |
| `StreamConn` | `StreamConn` | 633 | `BackoffGrows`, `Stops` |

`IsOrder` and `BuysAreOrders` are one contract seen from its two sides: what the
pipeline assumes of a BUY is the abstract specification the executor is shown to
implement. So the pipeline need not repeat providers, rounds and polls.

Every module has a type invariant, `TypeOK` (`StoreTypeOK`, `ReportTypeOK`,
`TrackerTypeOK`, `ParseTypeOK`, `ConnTypeOK` and the like where modules are
composed or share a proof module). No run spends time on it: each is a conjunct
of the inductive invariants of section 4 and is proved with them.

One run ends in a counterexample on purpose. It checks what a document says and
the code does not do, and is the `findings` entry of `PROJECT.json`:
`ExecutorFailed`, `TrueWasExecuted`: a transaction that failed on chain has a
confirmation status, the error field beside it is not read, and the call returns
true.

The modules define further statements of the documents that do not hold. They
are no runs of their own; adding one as INVARIANT (or PROPERTY, where marked P)
to the cfg shows the counterexample.

| definition | cfg | the document says | the code |
|---|---|---|---|
| `NeverTradeAgain` (P) | `SniperWorkers` | `idempotency.go:38`: "permanently blacklists a mint that lost money" | reads the blacklist once, before the lock and the BUY |
| `NoBuyAfterKill` (P) | `SniperWorkers` | PR-005:232: no new BUY after the trigger | `CanTrade` is asked once, several calls before the BUY |
| `QuotaKept` | `SniperWorkers` | blueprint:122: no trades left, stop BUY | counts after the BUY; handlers overshoot (`QuotaOvershootBounded` says by how much) |
| `OneSlotPerMint` | `SniperWorkers`, `MaxOpen` 2 | `limit.go:45`: unique per position thanks to the mint lock | `Release` is deferred past `UnlockMint` |
| `OneBuyOnChain` | `Executor` | `executor.go:23`: only one BUY on chain per mint | a lost answer makes it try the other provider |
| `MaxHoldIsAbsolute` (P) | `MonitorMC` | env contract:46: absolute limit of a hold | a position that trails its grace profit is returned before the rule |
| `RugExitsAtOnce` (P) | `MonitorMC` | `monitor.go:75`: triggers immediate exit | one buffered event per iteration |
| `NeverTwoSellers` | `SniperLive`, `MaxFaults` 2, or two workers with the fault `"again"` | `sellguard.go:14`: monitor and recovery cannot sell concurrently | a DEL that is sent again takes the key of the next seller |
| `PolicyCools` | `StreamConn` | `pumpws.go:73`: a policy violation forces the cooldown | a connection that lasted resets the backoff after that |
| `KeepsConnection` | `StreamConn` | `pumpws.go:29`: keeps the connection up | a panic of the message handler ends the loop |
| `InitialBuyFilledOnce` | `ParseEvent` | `stream_event.go:94`: fills empty fields only | `initialBuy` is overwritten |
| `ShallowWins` | `ParseEvent` | `stream_event.go:95`: shallow beats deep | depth first, in the order of a Go map |

### Bounds

* `Sniper`: `Faults` is the set of kinds of faults, `MaxFaults` how many happen.
  `SniperWorkers` has two workers and the kinds `"crash"` and `"midnight"`: one
  crash or panic, or the end of the UTC day, at any step against any
  interleaving. `SniperLive` has one worker, its recovery loop and the operator,
  and all kinds: a crash, a Redis command that fails, one that is sent again, a
  provider or node that does not answer, a reset, a midnight. All limits are 1
  (`SniperLive` allows two trades), so that every check is made at its boundary;
  two handlers suffice to overshoot the quota by one. The two workers are
  symmetric; the run checks no liveness. Two workers under the other kinds of
  fault, and two faults, make runs too long to be kept; what they would show of
  the safety properties and the refinements is proved without bounds (section 4).
* In `Sniper` midnight gives the counters of the day new keys, which do not
  exist yet (`guard.go:24`). The key of a command is named just before it is
  sent; a command that is named before midnight and arrives after it counts as
  one of before midnight, because nothing reads the old keys any more.
* In `Sniper` the BUYs of one handler that nobody waits for count as one: they
  differ in nothing, and each may land at any time.
* `MintLock`: two handlers and a recovery loop; a TTL that just covers BUY,
  refresh interval, one iteration, one failed refresh and a SELL, an exit TTL
  that just covers a sale. `EnoughTTL` and `EnoughExitTTL` are premises that
  nothing in the code checks. In the code `LOCK_TTL_MIN` is 12 min by default and
  a refresh is due every 2 min, so that the first allows about two refreshes
  in a row to fail with the lengths below; `RefreshMint` drops the error
  (`lock.go:39`), the monitor takes the refresh for done (`monitor.go:70`), and
  more failures than `MaxMissed` end the guarantee. The exit TTL is 300 s, and
  with the default `TIMEOUT_MS` of 1.5 s a SELL takes up to about 52 s for its
  rounds and 10 s plus 51 s per entry of `RPC_URLS` for its polls, and the report
  that follows up to 100 s, all of which pass only when every request times out.
  Neither premise helps against a DEL that is sent again: it takes the key of
  whoever owns it by then (`stolen`), and the properties end there.
* `Executor`: all configurations of both providers and both sides; two rounds
  and two polls, because rounds and polls differ in nothing but their number;
  two endpoints of every kind of health; a request time-out of two ticks, so
  that answers can be equal, earlier and later; one lost answer. `SellTriedHard`
  counts `MaxRounds`, whatever it is. The proofs have any numbers.
* `Monitor`: `MaxTime` lies beyond every threshold, after which the code treats
  all times alike; `Deadline` is the later of `MAX_HOLD` and the end of grace, in
  whichever order a profile puts them; profits from every side of each threshold;
  a channel of two instead of sixteen so that overflow happens.
* `MintStream`: two stream goroutines (main and fallback connection), one handler
  that reads the tracker and then watches, two events, a clock that goes beyond
  the age of pruning. More monitors add nothing to the tracker; the theorems have
  any number. Between the map read of `GetMintActivity` and its `time.Now()` any
  time can pass; `MaxDelay` bounds the time from a time stamp to its use. The
  window is 30 s by default, pruning forgets what is 2 min old, but
  `FILTER_ACTIVITY_WINDOW_SEC` has no upper bound (`config.go:411`):
  `ActivityComplete` is about the part of the window that a prune leaves
  (`InReach`), which is all of it up to 2 min less the delay; a longer one is
  silently cut. The window of the run is just as long as a prune leaves events;
  the theorem has any.
* `Guard`: two days of three hours, a UTC day that begins at the local hour 1,
  both limits 1, so that every counter is at or next to its limit, and every
  window, across midnight or not. The two callers are symmetric; the run has a
  box property over the clock only, for which symmetry is sound. The window on
  the real clock face of 24 hours is covered by the proof.
* `TradeClose`: three sellers, because a repeated DEL needs three of one payload
  to have it stored twice; two payloads, of which one loses; two faults (also the
  operator's) and any number of midnights; a report interval of two ticks and
  calls of up to one. Record and report of a seller share no state but the length
  of the list, so the run follows them one after the other (`Focus` of
  `TradeCloseMC`): all records, then, where no fault, reset or midnight overtook
  them, all reports beside a reset. The sellers are symmetric and treated alike
  by the box property. A midnight of the store is no tick of the report's clock:
  the report does not look at days. The proofs have no such bound.
* `ParseEvent`: objects up to depth three, so that "outer", "inner" and "in
  another branch" are all present. The objects around another are defined as the
  least set that has its parent and theirs, so that the proofs can reason about
  them.
* `EntryFilter`: one field (all fields are treated alike) with every set of
  gates; supplies up to 3, and a limit of 33 % with one number per percent
  (`Grid`), where rounding decides. `getAccountInfo` and `getTokenSupply` state no
  commitment, which means finalised; `getTokenLargestAccounts` asks for
  confirmed (`rugcheck.go:277`). So the first two are answered from a state that
  is older than the third's, by an amount that differs from call to call
  (`FinaliseAccount`, `FinaliseSupply`). A confirmed state is taken to stay: that
  Solana takes one back is not modelled. A float64 is a number of `Grid` steps
  per percent; the code's quotient is rounded to either neighbour, unless it is
  a float64 itself.
* `ActiveHours`: one clock hour follows the other. `TZ` is assumed to name a zone
  without daylight-saving time, as UTC and the documented `Asia/Jakarta` are;
  elsewhere an hour is skipped or repeated on two days of the year, and
  `OneOpening` says nothing of those.
* `StreamConn`: the constants of the code (60 s, 30 s); `failures` counts to six,
  where the doubling has passed the ceiling. The jitter only adds to a pause.

`CHECK_DEADLOCK FALSE` appears where the component really ends: a call returns,
a position is sold, all trades are recorded, a frame is parsed.

### Fairness

* `Sniper.Fairness`: goroutines run (`WF` of `HandleMint`, `RecoverAll`); the
  supervisor restarts a worker (`restart: unless-stopped` in
  `docker-compose.yml`); TTLs elapse; the chain decides every transaction; and
  `SF` of `SellLands`: a SELL that is tried for ever is executed at last. The
  last one cannot be had from the code and is what `Liquidated` rests on. `WF`
  of `HandleMint` includes `MonitorExit`: positions end because of `MAX_HOLD`
  when grace trailing is off and quotes are not stale for ever, which is the
  property `Exits` of `Monitor`. Nothing is assumed of `ExpireEvent`, nor that
  any mint is ever dispatched.
* `ExpireLock` and `ExpireExit` fire only when the owner is gone: this is
  `KeyOutlivesHandler` and `ExitKeyOutlivesSale` of `MintLock`. It is what the
  exclusion properties of `Sniper` rest on, with its premises: the TTLs cover the
  phases, and at most `MaxMissed` refreshes in a row fail.
* `Executor`: `WF` of the call's own steps; every request and every sleep has a
  time-out. Nothing is assumed of the chain or of the other goroutines.
* `Monitor`: `WF` of the loop's own iterations.
* `MintStream`: `WF` of a publisher's fan-out, of a lock that is free, and of
  what is done while it is held. Of the lock only Go's rule is assumed that a
  waiting writer keeps new readers out.
* `StreamConn`: `WF` of the loop; dials, reads (60 s deadline) and sleeps end.

## 4. What is proved

TLAPS checks these for every value of the constants that satisfies the named
assumptions. Every invariant and box property of a passing run, and all four
refinements, is a theorem: the run shows it on a small instance, the theorem
without bounds.

* `Sniper_proof` (from `PipelineAssumption`: finite sets of workers and mints,
  any set of faults). `TypeInv` adds to `TypeOK` that whoever sells has a mint.
  It is inductive, one step per action. `OneHandlerPerMint` is not inductive
  alone; `LockInv` adds that a handler inside the section has its key in Redis,
  unless a repeated DEL took it. `SellInv` does the same for the exit key, over
  handlers and recovery loops. `SlotAccounting` and `QuotaOvershootBounded` are
  inductive relative to `TypeInv`; their steps count sets that gain or lose one
  process, and `Crash`, which takes all processes of a worker out at once. The
  quota argument: only `CanTrade` adds a handler to `Entering`, and only while
  the quota is open. `LateDispatchNeverBuys`: `RefusedInv` says that a handler
  that was ruled out at its dispatch either has yet to ask `CanTrade`, and is
  still ruled out, or has yet to read the blacklist, and its mint is still on
  it; a reset, a midnight and an unread blacklist excuse the handlers that they
  meet. `BuysAreOrders`: `AwaitInv`, a handler has a transaction exactly while
  it waits for it, and one abstract step per action; in `Crash` all handlers of
  a worker step at once. `SalesAreExclusive`: whoever starts to sell found the
  exit key free, so by `SellInv` nobody else was selling, and the abstract owner
  is well defined. All hold under every kind of fault, in any number.
* `MintLock_proof`: the invariant `Budget` says that the remaining TTL covers
  what the present phase has left, less an interval and an iteration for each
  refresh that has failed since the last good one; with it the key outlives its
  owner, only one handler is inside, and each step is a step or a stutter of
  `MintMutex`. The exit key has the same argument over handlers and recovery
  loops (`ExitKeyOutlives`). The premises `EnoughTTL` and `EnoughExitTTL`, and
  that no repeated DEL has taken the key, are part of the statements.
* `Executor_proof`: any number of endpoints, polls, rounds and lost answers.
  `RaceInv`: a goroutine whose result is on the channel has ended, so its time
  stamp does not move any more when the caller compares. `PollInv`: a poll that
  goes round has failed at every endpoint between where it started and where it
  is, which is why the shared preferred index does no harm. `RequestInv` counts
  the requests to each provider by round and turn. `ChainInv`: the transactions
  are the lost answers and the signature, which `BuysBounded` counts. `IsOrder`
  is proved by writing out the mapping (`StageIs`) and classifying every step of
  the call by what it does to stage, awaited and stray transactions (`OrderMove`).
* `Guard_proof`: any number of callers, days and limits. `SeenInv` records which
  gates a call has passed at each of its stages. `AlertInv`: who sends has the
  claim of a day of its own, whose alert was not sent before, and who is about to
  claim has seen a cause. `OpensOnce` is arithmetic on a clock face of any size,
  after `WindowAlwaysArc`: the hours inside are an arc.
* `Monitor_proof`: every profile, confirmation time and channel. `ConfirmInv`: a
  pending confirmation began at an alarm and no decision has seen the price
  recovered since. `DeadlineInv`: from the first decision past `Deadline` on, a
  position that trails nothing is being confirmed for a loss, for at least as
  long; it rests on the lemma `RulesEndHold` about `AdaptiveExitReason`: past the
  deadline the rules never say "hold".
* `Stream_proof`, the bus: read lock and write lock exclude each other, a
  publisher serves channels of the bus only while it holds the read lock, and a
  channel is closed after it left the bus. The tracker, for every window and
  age: stamps in use are at most `MaxDelay` old (`Stamps`), so the log is out of
  order by no more (`NearlySorted`), what is pruned is older than what a reader
  has to count, now or later (`Dropped`), and a reader keeps its events, whether
  its tracker is still in the map or not (`Reading`).
* `Stream_proof`, the parser, for every tree and map order: the path leads from
  the root to where the walk is, and what the walk has left behind has nothing
  unvisited below (`PathInv`). Hence all objects around the one it enters have
  been visited (`AroundIsSeen`), and a walk that ends has visited everything
  (`ExhaustedIsAll`): the least object it missed would have a visited parent that
  is left behind. This is an induction over the tree, carried out with the least
  element of a set, because theorems over an operator cannot be instantiated.
  `FoundInv` says what each stage has read or searched in vain.
* `Stream_proof`, the connection, for any cooldown and ceiling: `BackoffInv` says
  that the backoff already is what the next failure may ask for, at every stage
  between the places that set it.
* `TradeClose_proof`: any number of sellers, payloads and faults. `OnceInv`: for
  every payload the entries, and the sellers that still hold its claim, are paid
  for by the dedupe key, lost answers, repeated DELs and overtaken sellers; the
  key does not count while a reset may delete it. `DriftInv` compares the loss
  with what the list has gained since midnight (`older` is what it had), and
  needs a second half for the time in which the operator's reset runs: each
  losing trade of the emptied list comes from an overtaken seller that has
  stored, or from a fault. `CoolInv` counts the
  losing mints that no seller will blacklist any more; each has its own fault.
  `ReportInv`: a call is no older than `MaxCall`, so the key is never behind by
  more than that.
* `EntryFilter_proof`: `Older` says that the finalised account has every
  authority that the present one has, because the chain never gives one back;
  `Cleared` carries from the account read to the BUY that the authorities are
  gone. `Gated` says which gates a mint has passed at each stage. `SupplyRead`:
  without a burn since its state the supply that was read is no more than the
  supply now, so that the share is not underestimated by the time of the second
  read; the rounding then adds less than one number of the grid (`Product`).

The lemmas behind these are about the models' own operators: finite sets that
gain or lose one process, what a Redis step changes, the path of a walk, the
exit rules.

Only model-checked: the liveness properties `LockFreed`, `Liquidated`, `Returns`,
`Exits`, `RugSells`, `PublishReturns` and `Stops`. They rest on fairness, and
TLAPS has no support for `ENABLED`. The documents' statements that the code does
not satisfy (section 3) have counterexamples and no proofs.

## 5. What is not modelled

Left out: amounts, fees and PnL formulas; wording and layout of logs and
reports; the synthetic quotes of the simulation engine and the stub modes
(`RPC_STUB`, stream-only simulation); building of provider requests; parsing of
the environment; the round-robin of bot profiles; aggregates; the SQLite
export; the health server; the start-up message and the periodic snapshot of the
report; the market caps in the tracker and `SnapshotAtBuy`, which reads like
`GetMintActivity`; the offline analysis commands; the in-process position
counter used without Redis; limits set to 0 (disabled checks). Solana, the SPL
token program, Redis expiry, the retries of the Redis client and the clock are
external: they are modelled from what the code observes of them.

Recovery's skip of dust balances (`MIN_DUST`, `recovery.go:29`) is left out: it is
off by default, and with it `Liquidated` is about balances above the threshold.
Also outside the models: a time zone with daylight-saving time, a confirmed state
that Solana takes back, and a window of activity beyond what pruning keeps (see
the bounds).

`Executor` forgets the order of the providers, the round and the counts of calls
once a signature is there: the code does not read them again, and states that
differ in nothing else are one. `Sniper` runs each of the operator's two Redis
pipelines as one step.

Five observations have no definition. `Guard`: one failed read of the daily loss
is treated as a kill switch that has triggered (`LossUnknown`) and goes on to
post that day's alert, so that the alert is used up when the loss really reaches
the limit; PR-005 section 10 wants it when the switch first becomes true. And a
claimed alert whose post fails is not posted again. `IsDuplicate` passes over an
error of `EXISTS` although `idempotency.go:18` says it fails closed
(`CooldownUnread` of `Sniper`, an exception of `LateDispatchNeverBuys`). Recovery
sells what its snapshot shows, also the position of a running monitor, whose own
SELL is then recorded as a second trade. `config.go:153` calls
`MINT_COOLDOWN_SEC` a cooldown of 300 s by default, while `SetCooldown` writes its
key without a TTL (`idempotency.go:38`), which is what the models have.

## 6. Plan

Done: the core (`Sniper`, `MintLock`, their abstract specifications), the calls
it makes (`Executor` and its parts, `Guard`, `TradeClose` and its parts), the
position (`Monitor`) and the way in (`StreamConn`, `ParseEvent`, `MintStream`,
`EntryFilter`); proofs of every safety property and refinement that is checked.
Next:

1. An abstract specification of a position's life (bought, watched, sold,
   recorded) that `Sniper` without faults implements.
2. The lengths of the phases of `MintLock` derived from `Executor` with a clock,
   instead of assumed.
