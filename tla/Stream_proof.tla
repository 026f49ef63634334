---------------------------- MODULE Stream_proof ----------------------------
(***************************************************************************)
(* Proofs about the stream, for any window, delays, limits and numbers of  *)
(* goroutines and events that go together.                                 *)
(*                                                                         *)
(* The life of one mint (MintStream): nobody sends on a closed channel,    *)
(* the bus forgets the monitors that are over, the activity filter decides *)
(* on complete data, and a token keeps its age.                            *)
(* The parser (ParseEvent): the root's field wins, and the search that     *)
(* takes over where a field was found is in vain.                          *)
(* The connection (StreamConn): the pauses grow with the failures.         *)
(***************************************************************************)
EXTENDS MintStream, ParseEvent, StreamConn, SequenceTheorems,
        WellFoundedInduction, TLAPS

-----------------------------------------------------------------------------
(* The bus.  A channel is closed without the lock; what makes that safe is  *)
(* that it has left the bus under the write lock, with no fan-out under way.*)

(* A fan-out holds the read lock and serves channels that are on the bus.   *)
FanOut ==
  \A p \in Publishers :
    /\ left[p] \subseteq bus
    /\ ppc[p] # "fanout" => left[p] = {}
    /\ ppc[p] = "fanout" => p \in readers

Exclusion == writer = {} \/ readers = {}

(* A channel is closed by its monitor when it is no longer on the bus.      *)
ClosedOver == \A m \in closed : mpc[m] = "over"

BusInv == TypeOK /\ FanOut /\ Exclusion /\ NoLeak /\ ClosedOver

(* Every step keeps the invariant: a publisher sends under the read lock, a *)
(* monitor closes only after it took its channel off the bus under the lock.*)
LEMMA BusInduction == BusInv /\ [Next]_vars => BusInv'
<1> SUFFICES ASSUME BusInv, [Next]_vars PROVE BusInv'
  OBVIOUS
<1> USE BusAssumption DEF BusInv, TypeOK, FanOut, Exclusion, NoLeak, ClosedOver
<1>1. ASSUME NEW p \in Publishers, Frame(p) PROVE BusInv'
  BY <1>1 DEF Frame
<1>2. ASSUME NEW p \in Publishers, RLock(p) PROVE BusInv'
  BY <1>2 DEF RLock, RLockFree
<1>3. ASSUME NEW p \in Publishers, Send(p) PROVE BusInv'
  BY <1>3 DEF Send
<1>4. ASSUME NEW p \in Publishers, RUnlock(p) PROVE BusInv'
  BY <1>4 DEF RUnlock
<1>5. ASSUME NEW m \in Monitors, WantLock(m) PROVE BusInv'
  BY <1>5 DEF WantLock
<1>6. ASSUME NEW m \in Monitors, Lock(m) PROVE BusInv'
  BY <1>6 DEF Lock, LockFree
<1>7. ASSUME NEW m \in Monitors, Register(m) PROVE BusInv'
  BY <1>7 DEF Register
<1>8. ASSUME NEW m \in Monitors, Receive(m) PROVE BusInv'
  BY <1>8 DEF Receive
<1>9. ASSUME NEW m \in Monitors, Unregister(m) PROVE BusInv'
  BY <1>9 DEF Unregister
<1>10. ASSUME NEW m \in Monitors, Close(m) PROVE BusInv'
  BY <1>10 DEF Close
<1>11. CASE UNCHANGED vars
  BY <1>11 DEF vars
<1> QED
  BY <1>1, <1>2, <1>3, <1>4, <1>5, <1>6, <1>7, <1>8, <1>9, <1>10, <1>11
     DEF Next, Publish, Cancel

(* The invariant holds in every reachable state.                            *)
LEMMA BusAlways == Spec => []BusInv
<1>1. Init => BusInv
  BY BusAssumption DEF Init, BusInv, TypeOK, FanOut, Exclusion, NoLeak, ClosedOver
<1> QED
  BY <1>1, BusInduction, PTL DEF Spec


(* Every step of the stream is a step of the bus, or leaves it alone.       *)
LEMMA StreamIsBus == StreamSpec => Spec
<1>1. StreamInit => Init
  BY DEF StreamInit
<1>2. [StreamNext]_streamVars => [Next]_vars
  <2> SUFFICES ASSUME StreamNext PROVE Next \/ UNCHANGED vars
    BY DEF streamVars
  <2> QED
    BY StreamAssumption DEF StreamNext, Prune, StartTrack, TrackThenPublish, PublishOther, Fanout,
       ReadActivity, StartLock, Locked, Holding, Watch, Next
<1> QED
  BY <1>1, <1>2, PTL DEF StreamSpec, Spec

(* PublishStreamEvent never sends on a channel that SubscribeMint's cancel  *)
(* has closed (bus.go), with any number of publishers and monitors.         *)
THEOREM SendsAreSafe == StreamSpec => []NoSendOnClosed
<1>1. BusInv => NoSendOnClosed
  BY DEF BusInv, TypeOK, FanOut, NoLeak, ClosedOver, NoSendOnClosed
<1> QED
  BY <1>1, BusAlways, StreamIsBus, PTL

(* The bus holds channels of monitors that are still watching only.         *)
THEOREM BusForgets == StreamSpec => []NoLeak
<1>1. BusInv => NoLeak
  BY DEF BusInv
<1> QED
  BY <1>1, BusAlways, StreamIsBus, PTL

-----------------------------------------------------------------------------
(* The tracker.  A time stamp in use is at most MaxDelay old, hence events  *)
(* are out of order by no more than that; what the pruner has dropped with  *)
(* a tracker is older than MaxAge give or take that delay, and what it has  *)
(* trimmed is older than MaxAge.                                            *)
Stamps ==
  /\ \A g \in Goroutines : stamp[g] <= now
  /\ \A g \in Goroutines : tpc[g] \in {"append", "scan"} => now <= stamp[g] + MaxDelay
  /\ pruning => cutoff <= now - MaxAge

NearlySorted == \A i, j \in DOMAIN log : i < j => log[i] <= log[j] + MaxDelay

Dropped == \A i \in DOMAIN log \ tracked : log[i] < now - MaxAge + MaxDelay

(* A reader's tracker has what it has to count, but for what is trimmed     *)
(* before the reader has taken its time.                                    *)
ReaderOK(r) ==
  /\ tpc[r] \in {"idle", "append"} => detached[r] = {}
  /\ due[r] \subseteq DOMAIN log
  /\ tpc[r] = "fetched" => \A i \in due[r] : i \in Held(r) \/ log[i] < now - MaxAge
  /\ tpc[r] = "scan" => \A i \in due[r] : /\ i \in Held(r)
                                          /\ log[i] >= stamp[r] - Window
                                          /\ log[i] >= stamp[r] - MaxAge + MaxDelay
  /\ tpc[r] = "scanned" => due[r] \subseteq counted[r]
  /\ tpc[r] = "nil" => due[r] = {}

Reading == \A r \in Readers : ReaderOK(r)

Log == log \in Seq(Nat) /\ \A i \in DOMAIN log : log[i] <= now

TrackInv == TrackerTypeOK /\ Log /\ Stamps /\ NearlySorted /\ Dropped /\ Reading

-----------------------------------------------------------------------------
(* The steps of the tracker: goroutines of the stream, readers, the pruner,  *)
(* the clock.                                                               *)
TrackStep ==
  \/ \E w \in Writers : TakeTime(w) \/ TrackEvent(w)
  \/ \E r \in Readers : FetchTracker(r) \/ TakeStart(r) \/ GetMintActivity(r) \/ Decided(r)
  \/ TakeCutoff \/ PruneTracker \/ Tick

(* Seen from the tracker, a step of the stream is one of these.             *)
LEMMA StreamTracks == [StreamNext]_streamVars => [TrackStep]_tracking
<1> SUFFICES ASSUME StreamNext PROVE TrackStep \/ UNCHANGED tracking
  BY DEF streamVars
<1> QED
  BY StreamAssumption DEF StreamNext, Prune, StartTrack, TrackThenPublish, PublishOther, Fanout,
     ReadActivity, StartLock, Locked, Holding, Watch, TrackStep

(* The bounds of the tracker.                                               *)
LEMMA Bounds ==
  Window \in Nat /\ MaxAge \in Nat /\ MaxDelay \in Nat /\ MaxTime \in Nat /\ MaxEvents \in Nat
BY TrackerAssumption

(* What TrackEvent does to the log.                                         *)
LEMMA Appended ==
  ASSUME TrackInv, NEW w \in Writers, TrackEvent(w)
  PROVE  /\ log' \in Seq(Nat) /\ Len(log') = Len(log) + 1 /\ Len(log) \in Nat
         /\ Len(log') <= MaxEvents
         /\ DOMAIN log = 1..Len(log) /\ DOMAIN log' = 1..(Len(log) + 1)
         /\ \A i \in DOMAIN log : log'[i] = log[i]
         /\ log'[Len(log) + 1] = stamp[w] /\ stamp[w] \in Nat /\ stamp[w] <= now
         /\ now <= stamp[w] + MaxDelay
<1>1. log \in Seq(Nat) /\ stamp \in [Goroutines -> 0..now] /\ now \in Nat
  BY DEF TrackInv, TrackerTypeOK, Log
<1>2. w \in Goroutines
  BY DEF Goroutines
<1>3. stamp[w] \in Nat /\ stamp[w] <= now
  BY <1>1, <1>2
<1>4. log' = Append(log, stamp[w]) /\ tpc[w] = "append" /\ Len(log) < MaxEvents
  BY DEF TrackEvent
<1>5. now <= stamp[w] + MaxDelay
  BY <1>2, <1>4 DEF TrackInv, Stamps
<1>6. Len(log') = Len(log) + 1 /\ Len(log) \in Nat
  BY <1>1, <1>3, <1>4
<1>7. Len(log') <= MaxEvents
  BY <1>4, <1>6, Bounds
<1> QED
  BY <1>1, <1>3, <1>4, <1>5, <1>6, <1>7

(* Time stamps and cutoffs do not lie in the future, nor far in the past.   *)
LEMMA StampInduction == TrackInv /\ [TrackStep]_tracking => Stamps'
<1> SUFFICES ASSUME TrackInv, [TrackStep]_tracking PROVE Stamps'
  OBVIOUS
<1>0. /\ now \in Nat /\ stamp \in [Goroutines -> 0..now] /\ cutoff \in Int /\ Stamps
      /\ \A g \in Goroutines : tpc[g] \in {"idle", "append", "fetched", "scan", "scanned", "nil"}
      /\ tpc \in [Goroutines -> {"idle", "append", "fetched", "scan", "scanned", "nil"}]
      /\ \A g \in Goroutines : stamp[g] \in Nat
  BY Bounds DEF TrackInv, TrackerTypeOK
<1>1. CASE UNCHANGED tracking
  BY <1>0, <1>1 DEF tracking, Stamps
<1>2. ASSUME NEW w \in Writers, TakeTime(w) PROVE Stamps'
  BY <1>0, <1>2, Bounds DEF TakeTime, Goto, Stamps, Goroutines
<1>3. ASSUME NEW w \in Writers, TrackEvent(w) PROVE Stamps'
  BY <1>0, <1>3 DEF TrackEvent, Goto, Stamps, Goroutines
<1>4. ASSUME NEW r \in Readers, FetchTracker(r) \/ TakeStart(r) PROVE Stamps'
  BY <1>0, <1>4, Bounds DEF FetchTracker, TakeStart, Goto, Stamps, Goroutines
<1>5. ASSUME NEW r \in Readers, GetMintActivity(r) \/ Decided(r) PROVE Stamps'
  BY <1>0, <1>5 DEF GetMintActivity, Decided, Goto, Stamps, Goroutines
<1>6. CASE TakeCutoff \/ PruneTracker
  BY <1>0, <1>6, Bounds DEF TakeCutoff, PruneTracker, Stamps
<1>7. CASE Tick
  BY <1>0, <1>7, Bounds DEF Tick, Stamps
<1> QED
  BY <1>1, <1>2, <1>3, <1>4, <1>5, <1>6, <1>7 DEF TrackStep

(* Events are appended at most MaxDelay after their time stamps.            *)
LEMMA LogInduction == TrackInv /\ [TrackStep]_tracking => Log' /\ NearlySorted'
<1> SUFFICES ASSUME TrackInv, [TrackStep]_tracking PROVE Log' /\ NearlySorted'
  OBVIOUS
<1>0. Log /\ NearlySorted /\ now \in Nat
  BY DEF TrackInv, TrackerTypeOK
<1>1. CASE log' = log /\ now' \in Nat /\ now <= now'
  BY <1>0, <1>1 DEF Log, NearlySorted
<1>2. ASSUME NEW w \in Writers, TrackEvent(w) PROVE Log' /\ NearlySorted'
  <2>1. now' = now
    BY <1>2 DEF TrackEvent
  <2>2. Log'
    <3>1. \A i \in DOMAIN log : log'[i] <= now
      BY <1>0, <1>2, Appended DEF Log
    <3>2. log'[Len(log) + 1] <= now
      BY <1>2, Appended
    <3>3. \A i \in DOMAIN log' : i \in DOMAIN log \/ i = Len(log) + 1
      BY <1>2, Appended
    <3>4. log' \in Seq(Nat)
      BY <1>2, Appended
    <3> QED
      BY <2>1, <3>1, <3>2, <3>3, <3>4 DEF Log
  <2>3. NearlySorted'
    <3> SUFFICES ASSUME NEW i \in DOMAIN log', NEW j \in DOMAIN log', i < j
                 PROVE  log'[i] <= log'[j] + MaxDelay
      BY DEF NearlySorted
    <3>1. i \in DOMAIN log /\ log'[i] = log[i] /\ log[i] <= now /\ log[i] \in Nat
      BY <1>0, <1>2, Appended DEF Log
    <3>2. CASE j \in DOMAIN log
      BY <1>0, <1>2, <3>1, <3>2, Appended DEF NearlySorted
    <3>3. CASE j = Len(log) + 1
      BY <1>0, <1>2, <3>1, <3>3, Appended, Bounds
    <3> QED
      BY <1>2, <3>2, <3>3, Appended
  <2> QED
    BY <2>2, <2>3
<1> QED
  BY <1>0, <1>1, <1>2 DEF TrackStep, TakeTime, FetchTracker, TakeStart, GetMintActivity, Decided, TakeCutoff,
     PruneTracker, Tick, tracking

(* A prune drops an event only if it is old by itself, or if a later one is *)
(* that came at most MaxDelay after it.                                     *)
LEMMA PrunedIsOld ==
  ASSUME TrackInv, PruneTracker
  PROVE  /\ tracked' \subseteq tracked
         /\ \A i \in tracked \ tracked' : log[i] < now - MaxAge + MaxDelay
<1>0. /\ tracked \subseteq DOMAIN log /\ DOMAIN log \subseteq Nat /\ \A i \in DOMAIN log : log[i] \in Nat
      /\ cutoff \in Int /\ now \in Nat /\ cutoff <= now - MaxAge
  BY DEF TrackInv, TrackerTypeOK, Log, Stamps, PruneTracker
<1>1. CASE Quiet /\ tracked' = {}
  <2>1. PICK i \in tracked : log[i] < cutoff /\ \A j \in tracked : j <= i
    BY <1>1 DEF Quiet
  <2>2. \A j \in tracked : j = i \/ log[j] <= log[i] + MaxDelay
    BY <1>0, <2>1 DEF TrackInv, NearlySorted
  <2>3. \A j \in tracked : log[j] < now - MaxAge + MaxDelay
    BY <1>0, <2>1, <2>2, Bounds
  <2> QED
    BY <1>1, <2>3
<1>2. CASE tracked' = {i \in tracked : \E j \in tracked : j <= i /\ log[j] >= cutoff}
  <2>1. \A i \in tracked \ tracked' : ~(log[i] >= cutoff)
    BY <1>0, <1>2
  <2>2. \A i \in tracked \ tracked' : log[i] < now - MaxAge + MaxDelay
    BY <1>0, <2>1, Bounds
  <2> QED
    BY <1>2, <2>2
<1> QED
  BY <1>1, <1>2 DEF PruneTracker

(* What it trims from a tracker that stays is old by itself.                *)
LEMMA TrimmedIsOld ==
  ASSUME TrackInv, PruneTracker, ~Quiet
  PROVE  \A i \in tracked \ tracked' : log[i] < now - MaxAge
<1>1. /\ \A i \in tracked : i \in Nat /\ log[i] \in Nat
      /\ cutoff \in Int /\ now \in Nat /\ cutoff <= now - MaxAge
  BY DEF TrackInv, TrackerTypeOK, Log, Stamps, PruneTracker
<1>2. tracked' = {i \in tracked : \E j \in tracked : j <= i /\ log[j] >= cutoff}
  BY DEF PruneTracker
<1>3. \A i \in tracked \ tracked' : ~(log[i] >= cutoff)
  BY <1>1, <1>2
<1> QED
  BY <1>1, <1>3, Bounds

(* What a prune drops is older than MaxAge, give or take the delay.         *)
LEMMA DroppedInduction == TrackInv /\ [TrackStep]_tracking => Dropped'
<1> SUFFICES ASSUME TrackInv, [TrackStep]_tracking PROVE Dropped'
  OBVIOUS
<1>0. Dropped /\ now \in Nat /\ \A i \in DOMAIN log : log[i] \in Nat
  BY DEF TrackInv, TrackerTypeOK, Log
<1>1. CASE log' = log /\ tracked' = tracked /\ now' \in Nat /\ now <= now'
  BY <1>0, <1>1, Bounds DEF Dropped
<1>2. ASSUME NEW w \in Writers, TrackEvent(w) PROVE Dropped'
  <2>1. tracked' = tracked \cup {Len(log) + 1} /\ now' = now
    BY <1>2 DEF TrackEvent
  <2>2. \A i \in DOMAIN log' \ tracked' : i \in DOMAIN log \ tracked /\ log'[i] = log[i]
    BY <1>2, <2>1, Appended
  <2> QED
    BY <1>0, <2>1, <2>2 DEF Dropped
<1>3. CASE PruneTracker
  <2>1. now' = now /\ log' = log
    BY <1>3 DEF PruneTracker
  <2>2. \A i \in DOMAIN log \ tracked' : i \in DOMAIN log \ tracked \/ i \in tracked \ tracked'
    OBVIOUS
  <2>3. \A i \in tracked \ tracked' : i \in DOMAIN log /\ log[i] < now - MaxAge + MaxDelay
    BY <1>3, PrunedIsOld DEF TrackInv, TrackerTypeOK
  <2>4. \A i \in tracked \ tracked' : log[i] < now - MaxAge + MaxDelay
    BY <2>3
  <2> QED
    BY <1>0, <2>1, <2>2, <2>4 DEF Dropped
<1> QED
  BY <1>0, <1>1, <1>2, <1>3 DEF TrackStep, TakeTime, FetchTracker, TakeStart, GetMintActivity, Decided,
     TakeCutoff, Tick, tracking

(* What a reader's tracker holds of its window stays complete.              *)
LEMMA ReadingInduction == TrackInv /\ [TrackStep]_tracking => Reading'
<1> SUFFICES ASSUME TrackInv, [TrackStep]_tracking PROVE Reading'
  OBVIOUS
<1>0. /\ Reading /\ Dropped /\ now \in Nat /\ \A i \in DOMAIN log : log[i] \in Nat
      /\ tpc \in [Goroutines -> {"idle", "append", "fetched", "scan", "scanned", "nil"}]
      /\ stamp \in [Goroutines -> 0..now] /\ Readers \subseteq Goroutines
      /\ detached \in [Readers -> SUBSET Events] /\ due \in [Readers -> SUBSET Events]
      /\ counted \in [Readers -> SUBSET Events]
      /\ \A g \in Goroutines : tpc[g] \in {"append", "scan"} => now <= stamp[g] + MaxDelay
  BY DEF TrackInv, TrackerTypeOK, Log, Goroutines, Stamps
(* A reader whose state a step leaves alone, with nothing less to read but  *)
(* what is old.                                                             *)
<1>1. ASSUME NEW r \in Readers, tpc'[r] = tpc[r], stamp'[r] = stamp[r], due'[r] = due[r],
             counted'[r] = counted[r], detached'[r] = detached[r],
             now' \in Nat, now <= now',
             DOMAIN log \subseteq DOMAIN log', \A i \in DOMAIN log : log'[i] = log[i],
             \A i \in due[r] : i \in Held(r) => i \in Held(r)' \/ log[i] < now - MaxAge
      PROVE  ReaderOK(r)'
  <2>1. /\ ReaderOK(r) /\ due[r] \subseteq DOMAIN log /\ stamp[r] \in Nat
        /\ \A i \in due[r] : log[i] \in Nat
        /\ tpc[r] = "scan" => now <= stamp[r] + MaxDelay
    BY <1>0 DEF Reading, ReaderOK
  <2>2. CASE tpc[r] = "fetched"
    <3>1. \A i \in due[r] : i \in Held(r)' \/ log'[i] < now' - MaxAge
      BY <1>0, <1>1, <2>1, <2>2, Bounds DEF ReaderOK
    <3> QED
      BY <1>1, <2>1, <2>2, <3>1 DEF ReaderOK
  <2>3. CASE tpc[r] = "scan"
    <3>1. \A i \in due[r] : /\ i \in Held(r)'
                            /\ log'[i] >= stamp'[r] - Window
                            /\ log'[i] >= stamp'[r] - MaxAge + MaxDelay
      BY <1>0, <1>1, <2>1, <2>3, Bounds DEF ReaderOK
    <3> QED
      BY <1>1, <2>1, <2>3, <3>1 DEF ReaderOK
  <2>4. CASE tpc[r] \notin {"fetched", "scan"}
    BY <1>1, <2>1, <2>4 DEF ReaderOK
  <2> QED
    BY <2>2, <2>3, <2>4
<1>2. ASSUME log' = log, tracked' = tracked, detached' = detached, due' = due, counted' = counted,
             now' \in Nat, now <= now',
             \A r \in Readers : \/ tpc'[r] = tpc[r] /\ stamp'[r] = stamp[r]
                                \/ {tpc[r], tpc'[r]} \subseteq {"idle", "append"}
      PROVE  Reading'
  <2> SUFFICES ASSUME NEW r \in Readers PROVE ReaderOK(r)'
    BY DEF Reading
  <2>1. CASE tpc'[r] = tpc[r] /\ stamp'[r] = stamp[r]
    <3>1. Held(r)' = Held(r)
      BY <1>2 DEF Held
    <3> QED
      BY <1>1, <1>2, <2>1, <3>1
  <2>2. CASE {tpc[r], tpc'[r]} \subseteq {"idle", "append"}
    BY <1>0, <1>2, <2>2 DEF Reading, ReaderOK
  <2> QED
    BY <1>2, <2>1, <2>2
<1>3. CASE UNCHANGED tracking \/ TakeCutoff \/ Tick
  <2>1. now' \in Nat /\ now <= now'
    BY <1>0, <1>3 DEF TakeCutoff, Tick, tracking
  <2> QED
    BY <1>2, <1>3, <2>1 DEF TakeCutoff, Tick, tracking
<1>4. ASSUME NEW w \in Writers, TakeTime(w) PROVE Reading'
  <2>1. \A r \in Readers : \/ tpc'[r] = tpc[r] /\ stamp'[r] = stamp[r]
                           \/ {tpc[r], tpc'[r]} \subseteq {"idle", "append"}
    BY <1>0, <1>4 DEF TakeTime, Goto
  <2>2. now' = now
    BY <1>4 DEF TakeTime
  <2> QED
    BY <1>0, <1>2, <1>4, <2>1, <2>2 DEF TakeTime
<1>5. ASSUME NEW w \in Writers, TrackEvent(w) PROVE Reading'
  <2> SUFFICES ASSUME NEW r \in Readers PROVE ReaderOK(r)'
    BY DEF Reading
  <2>1. /\ DOMAIN log \subseteq DOMAIN log' /\ \A i \in DOMAIN log : log'[i] = log[i]
        /\ tracked \subseteq tracked' /\ UNCHANGED <<now, detached, due, counted>>
    BY <1>5, Appended DEF TrackEvent
  <2>2. CASE r = w
    <3>1. tpc[r] = "append" /\ tpc'[r] = "idle"
      BY <1>0, <1>5, <2>2 DEF TrackEvent, Goto
    <3> QED
      BY <1>0, <2>1, <3>1 DEF Reading, ReaderOK
  <2>3. CASE r # w
    <3>1. tpc'[r] = tpc[r] /\ stamp'[r] = stamp[r]
      BY <1>0, <1>5, <2>3 DEF TrackEvent, Goto
    <3>2. \A i : i \in Held(r) => i \in Held(r)'
      BY <2>1 DEF Held
    <3> QED
      BY <1>0, <1>1, <2>1, <3>1, <3>2
  <2> QED
    BY <2>2, <2>3
<1>6. ASSUME NEW q \in Readers, UNCHANGED <<now, log, tracked>>, ReaderOK(q)',
             \A r \in Readers \ {q} : /\ tpc'[r] = tpc[r] /\ stamp'[r] = stamp[r] /\ due'[r] = due[r]
                                      /\ counted'[r] = counted[r] /\ detached'[r] = detached[r]
      PROVE  Reading'
  <2> SUFFICES ASSUME NEW r \in Readers \ {q} PROVE ReaderOK(r)'
    BY <1>6 DEF Reading
  <2>1. Held(r)' = Held(r)
    BY <1>6 DEF Held
  <2> QED
    BY <1>0, <1>1, <1>6, <2>1
<1>7. ASSUME NEW q \in Readers, FetchTracker(q) PROVE Reading'
  <2>1. /\ tpc[q] = "idle" /\ tpc'[q] = (IF tracked = {} THEN "nil" ELSE "fetched")
        /\ due'[q] = InReach(DOMAIN log, now) /\ detached'[q] = {}
        /\ log' = log /\ tracked' = tracked /\ now' = now
    BY <1>0, <1>7 DEF FetchTracker, Goto, Reading, ReaderOK
  <2>2. \A i \in due'[q] : i \in DOMAIN log /\ i \in tracked
    BY <1>0, <2>1, Bounds DEF Dropped, InReach, InWindow
  <2>3. Held(q)' = tracked
    BY <2>1 DEF Held
  <2>4. ReaderOK(q)'
    BY <2>1, <2>2, <2>3 DEF ReaderOK
  <2>5. \A r \in Readers \ {q} : /\ tpc'[r] = tpc[r] /\ stamp'[r] = stamp[r] /\ due'[r] = due[r]
                                 /\ counted'[r] = counted[r] /\ detached'[r] = detached[r]
    BY <1>0, <1>7 DEF FetchTracker, Goto
  <2> QED
    BY <1>6, <2>1, <2>4, <2>5
<1>8. ASSUME NEW q \in Readers, TakeStart(q) PROVE Reading'
  <2>1. /\ tpc[q] = "fetched" /\ tpc'[q] = "scan" /\ stamp'[q] = now
        /\ due'[q] = InReach(due[q], now) /\ detached' = detached
        /\ log' = log /\ tracked' = tracked /\ now' = now
    BY <1>0, <1>8 DEF TakeStart, Goto
  <2>2. Held(q)' = Held(q)
    BY <2>1 DEF Held
  <2>3. /\ due[q] \subseteq DOMAIN log
        /\ \A i \in due[q] : i \in Held(q) \/ log[i] < now - MaxAge
    BY <1>0, <2>1 DEF Reading, ReaderOK
  <2>4. \A i \in due'[q] : /\ i \in DOMAIN log /\ i \in Held(q)
                           /\ log[i] >= now - Window /\ log[i] >= now - MaxAge + MaxDelay
    BY <1>0, <2>1, <2>3, Bounds DEF InReach, InWindow
  <2>5. ReaderOK(q)'
    BY <2>1, <2>2, <2>4 DEF ReaderOK
  <2>6. \A r \in Readers \ {q} : /\ tpc'[r] = tpc[r] /\ stamp'[r] = stamp[r] /\ due'[r] = due[r]
                                 /\ counted'[r] = counted[r] /\ detached'[r] = detached[r]
    BY <1>0, <1>8 DEF TakeStart, Goto
  <2> QED
    BY <1>6, <2>1, <2>5, <2>6
<1>9. ASSUME NEW q \in Readers, GetMintActivity(q) \/ Decided(q) PROVE Reading'
  <2>1. log' = log /\ tracked' = tracked /\ now' = now
    BY <1>9 DEF GetMintActivity, Decided
  <2>2. ASSUME GetMintActivity(q) PROVE ReaderOK(q)'
    <3>1. /\ tpc[q] = "scan" /\ tpc'[q] = "scanned" /\ due'[q] = due[q]
          /\ counted'[q] = InWindow(Held(q), stamp[q])
      BY <1>0, <2>2 DEF GetMintActivity, Goto
    <3>2. due[q] \subseteq counted'[q] /\ due[q] \subseteq DOMAIN log
      BY <1>0, <3>1 DEF Reading, ReaderOK, InWindow
    <3> QED
      BY <2>1, <3>1, <3>2 DEF ReaderOK
  <2>3. ASSUME Decided(q) PROVE ReaderOK(q)'
    <3>1. tpc'[q] = "idle" /\ due'[q] = {} /\ detached'[q] = {}
      BY <1>0, <2>3 DEF Decided, Goto
    <3> QED
      BY <3>1 DEF ReaderOK
  <2>4. \A r \in Readers \ {q} : /\ tpc'[r] = tpc[r] /\ stamp'[r] = stamp[r] /\ due'[r] = due[r]
                                 /\ counted'[r] = counted[r] /\ detached'[r] = detached[r]
    BY <1>0, <1>9 DEF GetMintActivity, Decided, Goto
  <2> QED
    BY <1>6, <1>9, <2>1, <2>2, <2>3, <2>4
<1>10. CASE PruneTracker
  <2> SUFFICES ASSUME NEW r \in Readers PROVE ReaderOK(r)'
    BY DEF Reading
  <2>1. UNCHANGED <<now, log, tpc, stamp, due, counted>>
    BY <1>10 DEF PruneTracker
  <2>2. CASE Quiet /\ tracked' = {}
             /\ detached' = [q \in Readers |-> IF tpc[q] \in {"fetched", "scan"} THEN Held(q) ELSE {}]
    <3>1. tpc[r] \in {"fetched", "scan"} => Held(r)' = Held(r)
      BY <2>2 DEF Held
    <3>2. tpc[r] \notin {"fetched", "scan"} => detached'[r] = {}
      BY <2>2
    <3> QED
      BY <1>0, <2>1, <3>1, <3>2 DEF Reading, ReaderOK
  <2>3. CASE detached' = detached /\ ~Quiet
    <3>1. \A i \in due[r] : i \in Held(r) => i \in Held(r)' \/ log[i] < now - MaxAge
      BY <1>10, <2>3, TrimmedIsOld DEF Held
    <3> QED
      BY <1>0, <1>1, <2>1, <2>3, <3>1
  <2> QED
    BY <1>10, <2>2, <2>3 DEF PruneTracker
<1> QED
  BY <1>3, <1>4, <1>5, <1>7, <1>8, <1>9, <1>10 DEF TrackStep

-----------------------------------------------------------------------------
(* Every step keeps the types of the tracker.                               *)
LEMMA TrackTypes == TrackInv /\ [TrackStep]_tracking => TrackerTypeOK'
<1> SUFFICES ASSUME TrackInv, [TrackStep]_tracking PROVE TrackerTypeOK'
  OBVIOUS
<1>0. /\ now \in 0..MaxTime /\ now \in Nat
      /\ tpc \in [Goroutines -> {"idle", "append", "fetched", "scan", "scanned", "nil"}]
      /\ stamp \in [Goroutines -> 0..now] /\ Readers \subseteq Goroutines
      /\ Writers \subseteq Goroutines
      /\ detached \in [Readers -> SUBSET Events] /\ due \in [Readers -> SUBSET Events]
      /\ counted \in [Readers -> SUBSET Events]
      /\ Len(log) <= MaxEvents /\ tracked \subseteq DOMAIN log
      /\ pruning \in BOOLEAN /\ cutoff \in -MaxAge..MaxTime
      /\ \A i \in DOMAIN log : log[i] \in 0..now
  BY Bounds DEF TrackInv, TrackerTypeOK, Log, Goroutines
<1>1. tracked \subseteq Events /\ DOMAIN log \subseteq Events
  <2>1. Len(log) \in Nat /\ DOMAIN log = 1..Len(log)
    BY DEF TrackInv, Log
  <2> QED
    BY <1>0, <2>1, Bounds DEF Events
<1>2. \A r \in Readers : Held(r) \subseteq Events /\ \A t : InWindow(Held(r), t) \subseteq Events
  BY <1>0, <1>1 DEF Held, InWindow
<1>3. now' \in 0..MaxTime /\ now <= now'
  <2>1. CASE Tick
    BY <1>0, <2>1, Bounds DEF Tick
  <2>2. CASE ~Tick
    BY <1>0, <2>2 DEF TrackStep, TakeTime, TrackEvent, FetchTracker, TakeStart, GetMintActivity, Decided,
       TakeCutoff, PruneTracker, tracking
  <2> QED
    BY <2>1, <2>2
<1>4. stamp' \in [Goroutines -> 0..now']
  <2>1. \A g \in Goroutines : stamp[g] \in 0..now'
    BY <1>0, <1>3
  <2>2. 0 \in 0..now' /\ now \in 0..now'
    BY <1>0, <1>3
  <2>3. \/ stamp' = stamp
        \/ \E g \in Goroutines, t \in 0..now' : stamp' = [stamp EXCEPT ![g] = t]
    BY <1>0, <2>2 DEF TrackStep, TakeTime, TrackEvent, FetchTracker, TakeStart, GetMintActivity, Decided,
       TakeCutoff, PruneTracker, Tick, tracking
  <2>4. \A g \in Goroutines : stamp'[g] \in 0..now'
    BY <1>0, <2>1, <2>3
  <2>5. stamp' = [g \in Goroutines |-> stamp'[g]]
    BY <1>0, <2>3
  <2> QED
    BY <2>4, <2>5
<1>5. Len(log') <= MaxEvents /\ tracked' \subseteq DOMAIN log'
  <2>1. ASSUME NEW w \in Writers, TrackEvent(w) PROVE Len(log') <= MaxEvents /\ tracked' \subseteq DOMAIN log'
    <3>1. tracked' = tracked \cup {Len(log) + 1}
      BY <2>1 DEF TrackEvent
    <3>2. Len(log') <= MaxEvents
      BY <2>1, Appended
    <3>3. DOMAIN log \subseteq DOMAIN log' /\ Len(log) + 1 \in DOMAIN log'
      BY <2>1, Appended
    <3> QED
      BY <1>0, <3>1, <3>2, <3>3
  <2>2. CASE log' = log /\ tracked' \subseteq tracked
    BY <1>0, <2>2
  <2>3. PruneTracker => log' = log /\ tracked' \subseteq tracked
    BY PrunedIsOld DEF PruneTracker
  <2> QED
    BY <2>1, <2>2, <2>3 DEF TrackStep, TakeTime, FetchTracker, TakeStart, GetMintActivity, Decided,
       TakeCutoff, Tick, tracking
<1>6. \A i \in DOMAIN log' : log'[i] \in 0..now'
  <2>1. Log'
    BY LogInduction
  <2>2. \A i \in DOMAIN log' : log'[i] \in Nat /\ log'[i] <= now'
    BY <2>1 DEF Log
  <2> QED
    BY <1>3, <2>2
<1>7. tpc' \in [Goroutines -> {"idle", "append", "fetched", "scan", "scanned", "nil"}]
  BY <1>0 DEF TrackStep, TakeTime, TrackEvent, FetchTracker, TakeStart, GetMintActivity, Decided,
     TakeCutoff, PruneTracker, Tick, tracking, Goto
<1>8. detached' \in [Readers -> SUBSET Events]
  <2>1. CASE PruneTracker
    BY <1>0, <1>2, <2>1 DEF PruneTracker
  <2>2. CASE ~PruneTracker
    BY <1>0, <2>2 DEF TrackStep, TakeTime, TrackEvent, FetchTracker, TakeStart, GetMintActivity, Decided,
       TakeCutoff, Tick, tracking
  <2> QED
    BY <2>1, <2>2
<1>9. due' \in [Readers -> SUBSET Events]
  <2>1. ASSUME NEW r \in Readers, FetchTracker(r) \/ TakeStart(r)
        PROVE  due' \in [Readers -> SUBSET Events]
    <3>1. InReach(DOMAIN log, now) \in SUBSET Events /\ InReach(due[r], now) \in SUBSET Events
      BY <1>0, <1>1 DEF InReach, InWindow
    <3> QED
      BY <1>0, <2>1, <3>1 DEF FetchTracker, TakeStart
  <2>2. ASSUME NEW r \in Readers, Decided(r) PROVE due' \in [Readers -> SUBSET Events]
    BY <1>0, <2>2 DEF Decided
  <2> QED
    BY <1>0, <2>1, <2>2 DEF TrackStep, TakeTime, TrackEvent, GetMintActivity, TakeCutoff,
       PruneTracker, Tick, tracking
<1>10. counted' \in [Readers -> SUBSET Events]
  <2>1. ASSUME NEW r \in Readers, GetMintActivity(r) PROVE counted' \in [Readers -> SUBSET Events]
    <3>1. InWindow(Held(r), stamp[r]) \in SUBSET Events
      BY <1>2
    <3> QED
      BY <1>0, <2>1, <3>1 DEF GetMintActivity
  <2>2. ASSUME NEW r \in Readers, Decided(r) PROVE counted' \in [Readers -> SUBSET Events]
    BY <1>0, <2>2 DEF Decided
  <2> QED
    BY <1>0, <2>1, <2>2 DEF TrackStep, TakeTime, TrackEvent, FetchTracker, TakeStart, TakeCutoff,
       PruneTracker, Tick, tracking
<1>11. pruning' \in BOOLEAN /\ cutoff' \in -MaxAge..MaxTime
  <2>1. cutoff' = cutoff \/ cutoff' = 0 \/ cutoff' = now - MaxAge
    BY <1>0 DEF TrackStep, TakeTime, TrackEvent, FetchTracker, TakeStart, GetMintActivity, Decided,
       TakeCutoff, PruneTracker, Tick, tracking
  <2>2. pruning' \in BOOLEAN
    BY <1>0, Zenon DEF TrackStep, TakeTime, TrackEvent, FetchTracker, TakeStart, GetMintActivity, Decided,
       TakeCutoff, PruneTracker, Tick, tracking
  <2>3. cutoff' \in -MaxAge..MaxTime
    BY <1>0, <2>1, Bounds
  <2> QED
    BY <2>2, <2>3
<1> QED
  BY <1>3, <1>4, <1>5, <1>6, <1>7, <1>8, <1>9, <1>10, <1>11 DEF TrackerTypeOK

-----------------------------------------------------------------------------
(* The invariant of the tracker holds in every state.                       *)
LEMMA TrackAlways == StreamSpec => []TrackInv
<1>1. StreamInit => TrackInv
  <2> SUFFICES ASSUME TrackerInit PROVE TrackInv
    BY DEF StreamInit
  <2>1. TrackerTypeOK
    <3>1. now \in 0..MaxTime /\ cutoff \in -MaxAge..MaxTime /\ 0 \in 0..now
      BY Bounds DEF TrackerInit
    <3>2. Len(log) <= MaxEvents /\ DOMAIN log = {} /\ tracked = {}
      BY Bounds DEF TrackerInit
    <3>3. stamp \in [Goroutines -> 0..now] /\ pruning \in BOOLEAN
      BY <3>1, Zenon DEF TrackerInit
    <3>4. tpc \in [Goroutines -> {"idle", "append", "fetched", "scan", "scanned", "nil"}]
      BY DEF TrackerInit
    <3>5. {detached, due, counted} \subseteq [Readers -> SUBSET Events]
      BY DEF TrackerInit
    <3> QED
      BY <3>1, <3>2, <3>3, <3>4, <3>5 DEF TrackerTypeOK
  <2>2. Log /\ Stamps /\ NearlySorted /\ Dropped /\ Reading
    BY Bounds DEF TrackerInit, Log, Stamps, NearlySorted, Dropped, Reading, ReaderOK, Goroutines
  <2> QED
    BY <2>1, <2>2 DEF TrackInv
<1>2. TrackInv /\ [TrackStep]_tracking => TrackInv'
  BY TrackTypes, LogInduction, StampInduction, DroppedInduction, ReadingInduction DEF TrackInv
<1> QED
  BY <1>1, <1>2, StreamTracks, PTL DEF StreamSpec

(* GetMintActivity fetches the tracker and reads it under two locks and     *)
(* takes the start of the window between them; the pruner and other events  *)
(* in between cost the filter no event of the window, however long that is, *)
(* that is younger than MaxAge less the delay of a goroutine.               *)
THEOREM FilterSeesWindow == StreamSpec => []ActivityComplete
<1>1. TrackInv => ActivityComplete
  BY DEF TrackInv, Reading, ReaderOK, ActivityComplete
<1> QED
  BY <1>1, TrackAlways, PTL

(* PruneTracker forgets a token, and its age, only when all its events are  *)
(* older than MaxAge less the delay of a goroutine.                         *)
THEOREM TokenAgeKept == StreamSpec => AgeKept
<1>1. TrackInv /\ [TrackStep]_tracking
        => [tracked' = {} => \A i \in tracked : log[i] < now - MaxAge + MaxDelay]_tracking
  <2> SUFFICES ASSUME TrackInv, TrackStep, tracked' = {}, NEW i \in tracked
               PROVE  log[i] < now - MaxAge + MaxDelay
    OBVIOUS
  <2>1. PruneTracker
    BY DEF TrackStep, TakeTime, TrackEvent, FetchTracker, TakeStart, GetMintActivity, Decided,
       TakeCutoff, Tick
  <2> QED
    BY <2>1, PrunedIsOld
<1> QED
  BY <1>1, TrackAlways, StreamTracks, PTL DEF StreamSpec, AgeKept

-----------------------------------------------------------------------------
(* The parser.  The walk's path leads from the root to where the walk is,   *)
(* and what it has left behind has nothing below that was not visited.      *)
PathInv ==
  /\ \A i \in 1..Len(path) : path[i] \in seen
  /\ Len(path) > 0 => path[1] = 0
  /\ Len(path) = 0 => seen = {}
  /\ \A i \in 2..Len(path) : parent[path[i]] = path[i-1]
  /\ \A m \in seen : (\E i \in 1..Len(path) : path[i] = m) \/ Children(m) \subseteq seen

Absent(f, S) == \A n \in S : f \notin has[n]

(* What has been read and what has been searched in vain, by stages.        *)
FoundInv ==
  /\ \A f \in {"mint", "mcap"}, n \in Objects : ev[f] = n => Absent(f, Above(n))
  /\ pc = "find" => ev["mcap"] = None /\ (ev["mint"] = None => Absent("mint", seen))
  /\ pc \in {"fill", "gate", "extract"} /\ ev["mint"] = None => Absent("mint", Objects)
  /\ pc = "fill" /\ ev["mcap"] = None => Absent("mcap", seen)
  /\ pc \in {"gate", "extract"} /\ ev["mcap"] = None => Absent("mcap", Objects)
  /\ pc # "done" => mint = None
  /\ pc = "extract" => ev["mint"] = None
  /\ NoUngatedMint

ParseInv == ParseTypeOK /\ PathInv /\ FoundInv

(* The walk goes one object deeper, back by one, or ends.                   *)
LEMMA Deeper ==
  ASSUME ParseTypeOK, PathInv, NEW n \in Objects, Enters(n), UNCHANGED frame
  PROVE  path' \in Seq(Objects) /\ seen' \subseteq Objects /\ PathInv'
<1>0. /\ path \in Seq(Objects) /\ seen \subseteq Objects /\ path' = Append(path, n) /\ seen' = seen \cup {n}
      /\ parent' = parent /\ Len(path) \in Nat
  BY DEF ParseTypeOK, Enters, frame
<1>1. /\ path' \in Seq(Objects) /\ Len(path') = Len(path) + 1 /\ path'[Len(path) + 1] = n
      /\ \A i \in 1..Len(path) : path'[i] = path[i]
  BY <1>0, AppendProperties
<1>2. IF path = <<>> THEN n = 0 ELSE n \in Children(path[Len(path)])
  BY DEF Enters, Here
<1>3. path = <<>> <=> Len(path) = 0
  BY <1>0, EmptySeq
<1>4. \A i \in 1..Len(path') : path'[i] \in seen'
  BY <1>0, <1>1 DEF PathInv
<1>5. Len(path') > 0 => path'[1] = 0
  BY <1>0, <1>1, <1>2, <1>3 DEF PathInv
<1>6. ASSUME NEW i \in 2..Len(path') PROVE parent'[path'[i]] = path'[i-1]
  <2>1. CASE i \in 2..Len(path)
    <3>1. i \in 1..Len(path) /\ i - 1 \in 1..Len(path)
      BY <1>0, <2>1
    <3> QED
      BY <1>0, <1>1, <2>1, <3>1 DEF PathInv
  <2>2. CASE i = Len(path) + 1
    <3>1. path # <<>> /\ Len(path) \in 1..Len(path)
      BY <1>0, <1>3, <2>2
    <3>2. parent[n] = path[Len(path)]
      BY <1>2, <3>1 DEF Children
    <3> QED
      BY <1>0, <1>1, <2>2, <3>1, <3>2
  <2> QED
    BY <1>0, <1>1, <2>1, <2>2
<1>7. ASSUME NEW m \in seen' PROVE (\E i \in 1..Len(path') : path'[i] = m) \/ Children(m)' \subseteq seen'
  <2>1. Children(m)' = Children(m)
    BY <1>0 DEF Children
  <2>2. CASE m = n
    BY <1>0, <1>1, <2>2
  <2>3. CASE m \in seen
    <3>1. (\E i \in 1..Len(path) : path[i] = m) \/ Children(m) \subseteq seen
      BY <2>3 DEF PathInv
    <3>2. ASSUME NEW i \in 1..Len(path), path[i] = m PROVE \E j \in 1..Len(path') : path'[j] = m
      BY <1>0, <1>1, <3>2
    <3> QED
      BY <1>0, <2>1, <3>1, <3>2
  <2> QED
    BY <1>0, <2>2, <2>3
<1>8. Len(path') # 0
  BY <1>0, <1>1
<1> QED
  BY <1>0, <1>1, <1>4, <1>5, <1>6, <1>7, <1>8 DEF PathInv

(* Leaving an object, the walk goes back to the one around it.              *)
LEMMA Back ==
  ASSUME ParseTypeOK, PathInv, Leave
  PROVE  path' \in Seq(Objects) /\ PathInv'
<1>0. /\ path \in Seq(Objects) /\ seen' = seen /\ parent' = parent /\ Len(path) \in Nat /\ Len(path) > 1
      /\ path' = SubSeq(path, 1, Len(path) - 1) /\ Children(path[Len(path)]) \subseteq seen
  BY DEF ParseTypeOK, Leave, Here, frame
<1>1. /\ path' \in Seq(Objects) /\ Len(path') = Len(path) - 1
      /\ \A i \in 1..(Len(path) - 1) : path'[i] = path[i]
  BY <1>0, SubSeqProperties
<1>2. \A i \in 1..Len(path') : path'[i] \in seen'
  BY <1>0, <1>1 DEF PathInv
<1>3. path'[1] = 0 /\ Len(path') # 0
  BY <1>0, <1>1 DEF PathInv
<1>4. ASSUME NEW i \in 2..Len(path') PROVE parent'[path'[i]] = path'[i-1]
  <2>1. i \in 2..Len(path) /\ i \in 1..(Len(path) - 1) /\ i - 1 \in 1..(Len(path) - 1)
    BY <1>0, <1>1
  <2> QED
    BY <1>0, <1>1, <2>1 DEF PathInv
<1>5. ASSUME NEW m \in seen' PROVE (\E i \in 1..Len(path') : path'[i] = m) \/ Children(m)' \subseteq seen'
  <2>1. Children(m)' = Children(m)
    BY <1>0 DEF Children
  <2>2. (\E i \in 1..Len(path) : path[i] = m) \/ Children(m) \subseteq seen
    BY <1>0 DEF PathInv
  <2>3. ASSUME NEW i \in 1..Len(path), path[i] = m, i # Len(path)
        PROVE  \E j \in 1..Len(path') : path'[j] = m
    BY <1>0, <1>1, <2>3
  <2>4. path[Len(path)] = m => Children(m) \subseteq seen
    BY <1>0
  <2> QED
    BY <1>0, <2>1, <2>2, <2>3, <2>4
<1> QED
  BY <1>1, <1>2, <1>3, <1>4, <1>5 DEF PathInv

(* A new walk begins with nothing visited.                                  *)
LEMMA Afresh ==
  ASSUME NEW stage, EndWalk(stage)
  PROVE  path' \in Seq(Objects) /\ seen' \subseteq Objects /\ PathInv'
BY DEF EndWalk, PathInv

(* Around the object that the walk enters there are only visited ones.      *)
LEMMA AroundIsSeen ==
  ASSUME ParseTypeOK, PathInv, NEW n \in Objects, Enters(n)
  PROVE  Above(n) \subseteq seen
<1>0. path \in Seq(Objects) /\ Len(path) \in Nat /\ seen \subseteq Objects /\ MaxObject \in Nat
  BY FrameAssumption DEF ParseTypeOK
<1>1. path = <<>> <=> Len(path) = 0
  BY <1>0, EmptySeq
<1> DEFINE S == {m \in Objects : \E i \in 1..Len(path) : path[i] = m}
<1>2. S \subseteq seen
  BY DEF PathInv
<1>3. ASSUME NEW m \in S, m # 0 PROVE parent[m] \in S
  <2>1. PICK i \in 1..Len(path) : path[i] = m
    OBVIOUS
  <2>2. i \in 2..Len(path)
    BY <1>0, <1>3, <2>1 DEF PathInv
  <2>3. parent[m] = path[i-1] /\ i - 1 \in 1..Len(path)
    BY <1>0, <2>1, <2>2 DEF PathInv
  <2>4. path[i-1] \in Objects
    BY <1>0, <2>3
  <2> QED
    BY <2>3, <2>4
<1>4. n # 0 => parent[n] \in S
  <2> SUFFICES ASSUME n # 0 PROVE parent[n] \in S
    OBVIOUS
  <2>1. Len(path) # 0 /\ n \in Children(path[Len(path)])
    BY <1>1 DEF Enters, Here
  <2>2. parent[n] = path[Len(path)] /\ Len(path) \in 1..Len(path)
    BY <1>0, <2>1 DEF Children
  <2>3. path[Len(path)] \in Objects
    BY <1>0, <2>2
  <2> QED
    BY <2>2, <2>3
<1>5. Encloses(S, n)
  BY <1>3, <1>4 DEF Encloses
<1>6. Above(n) \subseteq S
  <2>1. S \in SUBSET Objects
    OBVIOUS
  <2> HIDE DEF S
  <2> QED
    BY <1>5, <2>1 DEF Above
<1> QED
  BY <1>2, <1>6

(* A walk that ends without a find has visited every object: the first one  *)
(* that it missed would be below one that it has left behind.               *)
LEMMA ExhaustedIsAll ==
  ASSUME ParseTypeOK, PathInv, Exhausted
  PROVE  seen = Objects
<1>0. /\ path \in Seq(Objects) /\ Len(path) = 1 /\ seen \subseteq Objects /\ Children(0) \subseteq seen
      /\ MaxObject \in Nat
  BY FrameAssumption DEF ParseTypeOK, Exhausted
<1>1. path[1] = 0 /\ 0 \in seen
  BY <1>0 DEF PathInv
<1>2. \A m \in seen : Children(m) \subseteq seen
  BY <1>0, <1>1 DEF PathInv
<1>3. \A n \in 1..MaxObject : parent[n] \in seen => n \in seen
  BY <1>2 DEF Children
<1>4. \A n \in 1..MaxObject : parent[n] \in 0..(n-1)
  BY <1>0 DEF ParseTypeOK, Objects
<1> DEFINE Missed == Objects \ seen
<1>5. CASE Missed = {}
  BY <1>0, <1>5
<1>6. CASE Missed # {}
  <2>1. Missed \subseteq Nat
    BY <1>0 DEF Objects
  <2>2. PICK n \in Missed : \A k \in Missed : ~(<<k, n>> \in OpToRel(<, Nat))
    BY <1>6, <2>1, NatLessThanWellFounded, WFMin
  <2>3. \A k \in Missed : ~(k < n)
    BY <2>1, <2>2 DEF OpToRel
  <2>4. n \in 1..MaxObject
    BY <1>0, <1>1 DEF Objects
  <2>5. parent[n] \in Objects /\ parent[n] < n
    BY <1>0, <1>4, <2>4 DEF Objects
  <2> QED
    BY <1>3, <2>3, <2>4, <2>5
<1> QED
  BY <1>5, <1>6

(* Every step keeps the types of the parser and the path of the walk.       *)
LEMMA ParseTypes == ParseTypeOK /\ PathInv /\ [ParseNext]_parseVars => ParseTypeOK' /\ PathInv'
<1> SUFFICES ASSUME ParseTypeOK, PathInv, [ParseNext]_parseVars PROVE ParseTypeOK' /\ PathInv'
  OBVIOUS
<1>0. UNCHANGED frame
  BY DEF ParseNext, Leave, NotJSON, Find, FindEnds, Fill, FillEnds, Gate, ExtractMint, parseVars, frame
<1>1. path' \in Seq(Objects) /\ seen' \subseteq Objects /\ PathInv'
  <2>1. ASSUME NEW n \in Objects, Enters(n) PROVE path' \in Seq(Objects) /\ seen' \subseteq Objects /\ PathInv'
    BY <1>0, <2>1, Deeper
  <2>2. ASSUME NEW stage, EndWalk(stage) PROVE path' \in Seq(Objects) /\ seen' \subseteq Objects /\ PathInv'
    BY <2>2, Afresh
  <2>3. CASE Leave
    BY <2>3, Back DEF Leave, ParseTypeOK
  <2>4. CASE NotJSON \/ FindEnds \/ FillEnds
    BY <2>2, <2>4 DEF NotJSON, FindEnds, FillEnds
  <2>5. CASE Find \/ Fill
    BY <2>1, <2>5 DEF Find, Fill
  <2>6. CASE ExtractMint
    BY <2>1, <2>2, <2>6 DEF ExtractMint
  <2>7. CASE UNCHANGED <<path, seen>>
    BY <1>0, <2>7 DEF PathInv, Children, frame, ParseTypeOK
  <2> QED
    BY <2>3, <2>4, <2>5, <2>6, <2>7 DEF ParseNext, Gate, parseVars
<1>2. pc' \in {"find", "fill", "extract", "gate", "done"}
  BY DEF ParseTypeOK, ParseNext, Leave, NotJSON, Find, FindEnds, Fill, FillEnds, Gate, ExtractMint,
     EndWalk, parseVars
<1>3. /\ parent' \in [1..MaxObject -> Objects] /\ has' \in [Objects -> SUBSET Fields]
      /\ \A n \in 1..MaxObject : parent'[n] < n
  BY <1>0 DEF ParseTypeOK, frame
<1>4. mint' \in Objects \cup {None}
  BY DEF ParseTypeOK, ParseNext, Leave, NotJSON, Find, FindEnds, Fill, FillEnds, Gate, ExtractMint,
     parseVars, Fields
<1>5. ev' \in [Fields -> Objects \cup {None}] /\ \A f \in Fields : ev'[f] # None => f \in has'[ev'[f]]
  <2>1. ev \in [Fields -> Objects \cup {None}] /\ has' = has
        /\ \A f \in Fields : ev[f] # None => f \in has[ev[f]]
    BY <1>0 DEF ParseTypeOK, frame
  <2>2. CASE ev' = ev
    BY <2>1, <2>2
  <2>3. CASE Find
    BY <2>1, <2>3 DEF Find, Fields
  <2>4. CASE Fill
    BY <2>1, <2>4 DEF Fill
  <2> QED
    BY <2>2, <2>3, <2>4 DEF ParseNext, Leave, NotJSON, FindEnds, FillEnds, Gate, ExtractMint, parseVars
<1> QED
  BY <1>1, <1>2, <1>3, <1>4, <1>5 DEF ParseTypeOK

(* A field is read only where none of the objects visited before has it,    *)
(* and what ends a walk in vain is that all were visited.                   *)
LEMMA FoundInduction == ParseInv /\ [ParseNext]_parseVars => FoundInv'
<1> SUFFICES ASSUME ParseInv, [ParseNext]_parseVars PROVE FoundInv'
  OBVIOUS
<1>0. /\ ParseTypeOK /\ PathInv /\ FoundInv
      /\ ev \in [Fields -> Objects \cup {None}] /\ seen \subseteq Objects
      /\ Objects \subseteq Nat /\ None \notin Objects /\ mint \in Objects \cup {None}
  BY DEF ParseInv, ParseTypeOK, Objects, None
<1>1. has' = has /\ parent' = parent
  BY DEF ParseNext, Leave, NotJSON, Find, FindEnds, Fill, FillEnds, Gate, ExtractMint, parseVars, frame
<1>2. \A n : Above(n)' = Above(n)
  BY <1>1 DEF Above, Encloses
<1>3. \A f, S : Absent(f, S)' = Absent(f, S)
  BY <1>1 DEF Absent
<1>4. \A n \in Objects : Enters(n) => Above(n) \subseteq seen
  BY <1>0, AroundIsSeen
<1>5. Exhausted => seen = Objects
  BY <1>0, ExhaustedIsAll
<1>6. CASE Leave \/ UNCHANGED parseVars
  BY <1>0, <1>2, <1>3, <1>6 DEF Leave, parseVars, FoundInv, NoUngatedMint, Absent
<1>7. CASE NotJSON
  BY <1>0, <1>2, <1>3, <1>7 DEF NotJSON, EndWalk, FoundInv, NoUngatedMint
<1>8. CASE Find
  <2>1. PICK n \in Objects :
          /\ Enters(n) /\ pc = "find" /\ pc' = "find" /\ ev["mint"] = None /\ mint' = mint
          /\ \/ "mint" \notin has[n] /\ ev' = ev
             \/ "mint" \in has[n] /\ ev' = [ev EXCEPT !["mint"] = n]
    BY <1>8 DEF Find
  <2>2. seen' = seen \cup {n} /\ Above(n) \subseteq seen
    BY <1>4, <2>1 DEF Enters
  <2>3. Absent("mint", seen) /\ mint = None /\ ev["mcap"] = None
    BY <1>0, <2>1 DEF FoundInv
  <2>4. ev'["mcap"] = None
    BY <1>0, <2>1, <2>3 DEF Fields
  <2>5. ev'["mint"] = None => Absent("mint", seen')
    BY <1>0, <2>1, <2>2, <2>3 DEF Absent, Fields
  <2>6. \A m \in Objects : ev'["mint"] = m => Absent("mint", Above(m))
    BY <1>0, <2>1, <2>2, <2>3 DEF Absent, Fields
  <2> QED
    BY <1>0, <1>1, <1>2, <2>1, <2>3, <2>4, <2>5, <2>6 DEF FoundInv, NoUngatedMint, Absent
<1>9. CASE FindEnds
  <2>1. pc = "find" /\ pc' = "fill" /\ seen' = {} /\ ev' = ev /\ mint' = mint
        /\ (ev["mint"] # None \/ seen = Objects)
    BY <1>5, <1>9 DEF FindEnds, EndWalk
  <2> QED
    BY <1>0, <1>1, <1>2, <2>1 DEF FoundInv, NoUngatedMint, Absent
<1>10. CASE Fill
  <2>1. PICK n \in Objects :
          /\ Enters(n) /\ pc = "fill" /\ pc' = "fill" /\ mint' = mint
          /\ ev' = [f \in Fields |->
                      IF f \notin has[n] \/ f = "mint" THEN ev[f]
                      ELSE IF f = "mcap" /\ ev[f] # None THEN ev[f] ELSE n]
    BY <1>10 DEF Fill
  <2>2. seen' = seen \cup {n} /\ Above(n) \subseteq seen
    BY <1>4, <2>1 DEF Enters
  <2>3. ev'["mint"] = ev["mint"]
        /\ ev'["mcap"] = IF "mcap" \notin has[n] \/ ev["mcap"] # None THEN ev["mcap"] ELSE n
    BY <2>1 DEF Fields
  <2>4. ev["mcap"] = None => Absent("mcap", seen)
    BY <1>0, <2>1 DEF FoundInv
  <2>5. ev'["mcap"] = None => Absent("mcap", seen')
    BY <1>0, <2>2, <2>3, <2>4 DEF Absent
  <2>6. \A m \in Objects : ev'["mcap"] = m => Absent("mcap", Above(m))
    <3> SUFFICES ASSUME NEW m \in Objects, ev'["mcap"] = m PROVE Absent("mcap", Above(m))
      OBVIOUS
    <3>1. CASE ev["mcap"] = m
      BY <1>0, <3>1 DEF FoundInv
    <3>2. CASE ev["mcap"] # m
      BY <1>0, <2>2, <2>3, <2>4, <3>2 DEF Absent
    <3> QED
      BY <3>1, <3>2
  <2> QED
    BY <1>0, <1>1, <1>2, <2>1, <2>3, <2>5, <2>6 DEF FoundInv, NoUngatedMint, Absent
<1>11. CASE FillEnds
  <2>1. /\ pc = "fill" /\ seen = Objects /\ ev' = ev /\ mint' = mint
        /\ pc' = IF ev["mint"] # None THEN "gate" ELSE "extract"
    BY <1>5, <1>11 DEF FillEnds, EndWalk
  <2> QED
    BY <1>0, <1>1, <1>2, <2>1 DEF FoundInv, NoUngatedMint, Absent
<1>12. CASE Gate
  BY <1>0, <1>1, <1>2, <1>12 DEF Gate, FoundInv, NoUngatedMint, Absent
<1>13. CASE ExtractMint
  <2>1. Absent("mint", Objects) /\ mint = None
    BY <1>0, <1>13 DEF ExtractMint, FoundInv
  <2>2. mint' = None /\ ev' = ev /\ pc = "extract" /\ pc' \in {"extract", "done"}
    BY <1>13, <2>1 DEF ExtractMint, EndWalk, Absent
  <2> QED
    BY <1>0, <1>1, <1>2, <2>1, <2>2 DEF FoundInv, NoUngatedMint, Absent
<1> QED
  BY <1>6, <1>7, <1>8, <1>9, <1>10, <1>11, <1>12, <1>13 DEF ParseNext

(* The invariant of the parser holds in every state.                        *)
LEMMA ParseAlways == ParseSpec => []ParseInv
<1>1. ParseInit => ParseInv
  <2> SUFFICES ASSUME ParseInit PROVE ParseInv
    OBVIOUS
  <2>1. ParseTypeOK /\ PathInv
    BY FrameAssumption DEF ParseInit, ParseTypeOK, PathInv, Objects
  <2>2. FoundInv
    BY DEF ParseInit, FoundInv, NoUngatedMint, Absent, Fields, None, Objects
  <2> QED
    BY <2>1, <2>2 DEF ParseInv
<1>2. ParseInv /\ [ParseNext]_parseVars => ParseInv'
  BY ParseTypes, FoundInduction DEF ParseInv
<1> QED
  BY <1>1, <1>2, PTL DEF ParseSpec

(* ParseStreamEvent, in Go's random order of a map: which object a field is *)
(* read from depends on the order, but never is it one inside another that  *)
(* has the field, and a field that is there is found.                       *)
THEOREM RootWins == ParseSpec => []OuterWins
<1>1. ParseInv => OuterWins
  <2> SUFFICES ASSUME ParseInv, NEW f \in {"mint", "mcap"}
               PROVE  /\ Parsed => (ev[f] = None <=> \A n \in Objects : f \notin has[n])
                      /\ ev[f] # None => \A a \in Above(ev[f]) : f \notin has[a]
    BY DEF OuterWins
  <2>1. /\ f \in Fields /\ ev[f] \in Objects \cup {None} /\ FoundInv
        /\ ev[f] # None => f \in has[ev[f]]
    BY DEF ParseInv, ParseTypeOK, Fields
  <2>2. Parsed /\ ev[f] = None => Absent(f, Objects)
    BY <2>1 DEF FoundInv, Parsed
  <2>3. ev[f] # None => Absent(f, Above(ev[f]))
    BY <2>1 DEF FoundInv
  <2> QED
    BY <2>1, <2>2, <2>3 DEF Absent
<1> QED
  BY <1>1, ParseAlways, PTL

(* onMsg falls back to ExtractMint, without a gate, when ParseStreamEvent   *)
(* found no mint: it finds none either, in whatever order it walks.         *)
THEOREM FallbackIsVain == ParseSpec => []NoUngatedMint
<1>1. ParseInv => NoUngatedMint
  BY DEF ParseInv, FoundInv
<1> QED
  BY <1>1, ParseAlways, PTL

-----------------------------------------------------------------------------
(* The connection.  The least pause after so many short failures in a row,  *)
(* and the one after the next failure: six is where they are counted to.    *)
Least(f) == 2^(f - 1)
NextFailure(f) == IF f < 6 THEN f + 1 ELSE 6

(* The pause that is about to be made, and the one that the next failure    *)
(* would make.                                                              *)
Enough(f) == backoff >= Ceiling \/ backoff >= Least(f)

BackoffInv ==
  /\ backoff <= Cooldown
  /\ conn = "sleep" => /\ failures > 0 => Enough(failures)
                       /\ policy /\ ~long => backoff >= Cooldown
  /\ conn # "sleep" => Enough(NextFailure(failures))

ConnInv == ConnTypeOK /\ BackoffInv /\ BackoffGrows

(* Those pauses double, at most, from one failure to the next.              *)
LEMMA Leasts ==
  /\ \A f \in 1..6 : Least(f) \in Nat \ {0}
  /\ \A f \in 1..6 : Least(NextFailure(f)) <= 2 * Least(f)
  /\ Least(NextFailure(0)) = 1
<1>1. Least(1) = 1 /\ Least(2) = 2 /\ Least(3) = 4 /\ Least(4) = 8 /\ Least(5) = 16 /\ Least(6) = 32
  BY DEF Least
<1>2. /\ NextFailure(0) = 1 /\ NextFailure(1) = 2 /\ NextFailure(2) = 3 /\ NextFailure(3) = 4
      /\ NextFailure(4) = 5 /\ NextFailure(5) = 6 /\ NextFailure(6) = 6
  BY DEF NextFailure
<1>3. \A f \in 1..6 : f = 1 \/ f = 2 \/ f = 3 \/ f = 4 \/ f = 5 \/ f = 6
  OBVIOUS
<1> QED
  BY <1>1, <1>2, <1>3

(* Every step keeps the types of the connection.                            *)
LEMMA ConnTypes == ConnTypeOK /\ [ConnNext]_connVars => ConnTypeOK'
<1> SUFFICES ASSUME ConnTypeOK, [ConnNext]_connVars PROVE ConnTypeOK'
  OBVIOUS
<1> USE DEF ConnNext, Loop, Top, DialFails, Connect, Breaks, AfterClose, SleepBackoff, Shutdown, Lasts,
            HandlerPanics, connVars
<1>1. conn' \in {"top", "dial", "read", "closed", "sleep", "stopped"}
  BY DEF ConnTypeOK
<1>2. ctxDone' \in BOOLEAN /\ long' \in BOOLEAN /\ policy' \in BOOLEAN
  BY Zenon DEF ConnTypeOK
<1>3. backoff' \in Nat \ {0} /\ slept' \in Nat /\ failures' \in 0..6 /\ panics' \in 0..MaxPanics
  <2>1. /\ backoff \in Nat \ {0} /\ slept \in Nat /\ failures \in 0..6 /\ panics \in 0..MaxPanics
        /\ Cooldown \in Nat \ {0} /\ MaxPanics \in Nat
    BY ConnAssumption DEF ConnTypeOK
  <2>2. backoff' \in Nat \ {0}
    BY <2>1
  <2>3. slept' \in Nat
    BY <2>1
  <2>4. failures' \in 0..6
    BY <2>1
  <2>5. panics' \in 0..MaxPanics
    BY <2>1
  <2> QED
    BY <2>2, <2>3, <2>4, <2>5
<1> QED
  BY <1>1, <1>2, <1>3 DEF ConnTypeOK

(* Only a pause that was made doubles the next one, and only a connection   *)
(* that lasted starts again.                                                *)
LEMMA BackoffInduction == ConnInv /\ [ConnNext]_connVars => BackoffInv' /\ BackoffGrows'
<1> SUFFICES ASSUME ConnInv, [ConnNext]_connVars PROVE BackoffInv' /\ BackoffGrows'
  OBVIOUS
<1>0. /\ backoff \in Nat \ {0} /\ slept \in Nat /\ failures \in 0..6 /\ backoff <= Cooldown
      /\ Cooldown \in Nat \ {0} /\ Ceiling \in Nat \ {0} /\ Cooldown >= 2 * Ceiling
      /\ BackoffInv /\ BackoffGrows
  BY ConnAssumption, CooldownIsLong DEF ConnInv, ConnTypeOK, BackoffInv
<1>1. /\ Least(NextFailure(0)) = 1 /\ Least(NextFailure(failures)) \in Nat
      /\ NextFailure(failures) \in 1..6
      /\ failures > 0 => Least(failures) \in Nat /\ Least(NextFailure(failures)) <= 2 * Least(failures)
  BY <1>0, Leasts DEF NextFailure
<1>2. ASSUME UNCHANGED <<backoff, failures>>, conn # "sleep", conn' # "sleep",
             slept' = slept \/ slept' = 0,
             conn' = "top" => conn = "top" /\ UNCHANGED <<slept, policy, long>>
      PROVE  BackoffInv' /\ BackoffGrows'
  BY <1>0, <1>2 DEF BackoffInv, BackoffGrows, Enough, Least, NextFailure
<1>3. CASE Top \/ Connect \/ Breaks \/ Lasts \/ HandlerPanics
  BY <1>2, <1>3 DEF Top, Connect, Breaks, Lasts, HandlerPanics
<1>4. CASE Shutdown \/ UNCHANGED connVars
  BY <1>0, <1>4 DEF Shutdown, connVars, BackoffInv, BackoffGrows, Enough, Least, NextFailure
<1>5. CASE DialFails
  <2>1. /\ conn = "dial" /\ conn' = "sleep" /\ policy' = FALSE /\ failures' = NextFailure(failures)
        /\ backoff' = backoff
    BY <1>5 DEF DialFails, NextFailure
  <2>2. backoff' >= Ceiling \/ backoff' >= Least(failures')
    BY <1>0, <2>1 DEF BackoffInv, Enough
  <2> QED
    BY <1>0, <2>1, <2>2 DEF BackoffInv, BackoffGrows, Enough, Least
<1>6. CASE AfterClose
  <2>1. CASE ctxDone
    BY <1>2, <1>6, <2>1 DEF AfterClose
  <2>2. CASE ~ctxDone
    <3>1. /\ conn = "closed" /\ conn' = "sleep" /\ policy' = policy /\ long' = long
          /\ backoff' = IF long THEN 1 ELSE IF policy THEN Cooldown ELSE backoff
          /\ failures' = IF long THEN 0 ELSE NextFailure(failures)
      BY <1>6, <2>2 DEF AfterClose, NextFailure
    <3>2. backoff' <= Cooldown
      BY <1>0, <3>1
    <3>3. failures' > 0 => backoff' >= Ceiling \/ backoff' >= Least(failures')
      <4>1. CASE long
        BY <3>1, <4>1
      <4>2. CASE ~long /\ policy
        BY <1>0, <3>1, <4>2
      <4>3. CASE ~long /\ ~policy
        BY <1>0, <3>1, <4>3 DEF BackoffInv, Enough
      <4> QED
        BY <4>1, <4>2, <4>3
    <3>4. policy' /\ ~long' => backoff' >= Cooldown
      BY <1>0, <3>1
    <3> QED
      BY <3>1, <3>2, <3>3, <3>4 DEF BackoffInv, BackoffGrows, Enough, Least
  <2> QED
    BY <2>1, <2>2
<1>7. CASE SleepBackoff
  <2>1. /\ conn = "sleep" /\ conn' = "top" /\ policy' = policy /\ long' = long /\ failures' = failures
        /\ slept' = 0 \/ slept' = backoff
        /\ backoff' = IF backoff < Ceiling THEN 2 * backoff ELSE backoff
    BY <1>7 DEF SleepBackoff
  <2>2. backoff' <= Cooldown
    BY <1>0, <2>1
  <2>3. backoff' >= Ceiling \/ backoff' >= Least(NextFailure(failures))
    <3>1. CASE failures = 0
      BY <1>0, <1>1, <2>1, <3>1
    <3>2. CASE failures > 0
      <4>1. backoff >= Ceiling \/ backoff >= Least(failures)
        BY <1>0, <2>1, <3>2 DEF BackoffInv, Enough
      <4> QED
        BY <1>0, <1>1, <2>1, <3>2, <4>1
    <3> QED
      BY <1>0, <3>1, <3>2
  <2>4. BackoffInv'
    BY <2>1, <2>2, <2>3 DEF BackoffInv, Enough, Least, NextFailure
  <2>5. BackoffGrows'
    BY <1>0, <2>1 DEF BackoffInv, BackoffGrows, Enough, Least
  <2> QED
    BY <2>4, <2>5
<1> QED
  BY <1>3, <1>4, <1>5, <1>6, <1>7 DEF ConnNext, Loop

(* runLoop, where a sleep, a policy violation and a connection that lasted  *)
(* all set the backoff: it never retries faster than the doubling up to the *)
(* ceiling, and never waits longer than the cooldown.                       *)
THEOREM NeverHammers == ConnSpec => []BackoffGrows
<1>1. ConnInit => ConnInv
  <2> SUFFICES ASSUME ConnInit PROVE ConnInv
    OBVIOUS
  <2>1. ConnTypeOK
    <3>1. ctxDone \in BOOLEAN /\ long \in BOOLEAN /\ policy \in BOOLEAN
      BY Zenon DEF ConnInit
    <3>2. /\ conn = "top" /\ backoff \in Nat \ {0} /\ slept \in Nat /\ failures \in 0..6
          /\ panics \in 0..MaxPanics
      BY ConnAssumption DEF ConnInit
    <3> QED
      BY <3>1, <3>2 DEF ConnTypeOK
  <2>2. /\ conn = "top" /\ backoff = 1 /\ failures = 0 /\ slept = 0 /\ Least(NextFailure(0)) = 1
        /\ Cooldown \in Nat \ {0}
    BY Leasts, ConnAssumption DEF ConnInit
  <2> QED
    BY <2>1, <2>2 DEF ConnInv, BackoffInv, BackoffGrows, Enough
<1>2. ConnInv /\ [ConnNext]_connVars => ConnInv'
  BY ConnTypes, BackoffInduction DEF ConnInv
<1>3. ConnInv => BackoffGrows
  BY DEF ConnInv
<1> QED
  BY <1>1, <1>2, <1>3, PTL DEF ConnSpec

=============================================================================
