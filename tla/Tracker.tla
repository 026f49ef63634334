------------------------------ MODULE Tracker -------------------------------
(***************************************************************************)
(* The activity tracker of pumpws for one mint: stream goroutines append   *)
(* buy and sell events, HandleMint reads the activity of the last seconds, *)
(* and the pruner drops a tracker that has gone quiet.  A time stamp is    *)
(* taken before the lock, and a reader fetches the tracker and its events  *)
(* under two separate read locks and takes the time between them, so that  *)
(* each of them can work with a time, or a tracker, that is no longer the  *)
(* present one.  What is done under one lock is one action.                *)
(***************************************************************************)
EXTENDS Integers, Sequences

CONSTANTS Writers,     \* stream goroutines, in onMsg
          Readers,     \* goroutines in HandleMint
          Window,      \* FILTER_ACTIVITY_WINDOW_SEC
          MaxAge,      \* 2 minutes in StartWorkerWithContext
          MaxDelay,    \* bound: time between a time stamp and its use
          MaxTime,     \* bound of the clock
          MaxEvents    \* bound on the events of the mint

ASSUME TrackerAssumption ==
  {Window, MaxAge, MaxDelay, MaxTime, MaxEvents} \subseteq Nat

VARIABLES now,
          log,       \* history: the time stamps of all appended events
          tracked,   \* the events, by their place in log, of the tracker in
                     \* the map; {} when there is none
          stamp,     \* the time stamps of TrackEvent and GetMintActivity
          tpc,       \* stage of each goroutine
          detached,  \* the events of a reader's tracker that left the map
          due,       \* history: the events that a reader has to count
          counted,   \* the events it counted
          pruning, cutoff   \* the pruner holds a cutoff

tracking == <<now, log, tracked, stamp, tpc, detached, due, counted, pruning, cutoff>>

Events == 1..MaxEvents
Goroutines == Writers \cup Readers

TrackerTypeOK ==
  /\ now \in 0..MaxTime
  /\ Len(log) <= MaxEvents /\ \A i \in DOMAIN log : log[i] \in 0..now
  /\ tracked \subseteq DOMAIN log
  /\ stamp \in [Goroutines -> 0..now]
  /\ tpc \in [Goroutines -> {"idle", "append", "fetched", "scan", "scanned", "nil"}]
  /\ {detached, due, counted} \subseteq [Readers -> SUBSET Events]
  /\ pruning \in BOOLEAN /\ cutoff \in -MaxAge..MaxTime

TrackerInit ==
  /\ now = 0 /\ log = <<>> /\ tracked = {}
  /\ stamp = [g \in Goroutines |-> 0] /\ tpc = [g \in Goroutines |-> "idle"]
  /\ detached = [r \in Readers |-> {}]
  /\ due = [r \in Readers |-> {}] /\ counted = [r \in Readers |-> {}]
  /\ pruning = FALSE /\ cutoff = 0

Goto(g, stage) == tpc' = [tpc EXCEPT ![g] = stage]

-----------------------------------------------------------------------------
(* TrackEvent: the time stamp of a buy or sell, ...                         *)
TakeTime(w) ==
  /\ tpc[w] = "idle" /\ Len(log) < MaxEvents
  /\ Goto(w, "append")
  /\ stamp' = [stamp EXCEPT ![w] = now]
  /\ UNCHANGED <<now, log, tracked, detached, due, counted, pruning, cutoff>>

(* ... and the append, to a new tracker when there is none.                 *)
TrackEvent(w) ==
  /\ tpc[w] = "append"
  /\ Len(log) < MaxEvents
  /\ log' = Append(log, stamp[w])
  /\ tracked' = tracked \cup {Len(log) + 1}
  /\ Goto(w, "idle")
  /\ stamp' = [stamp EXCEPT ![w] = 0]
  /\ UNCHANGED <<now, detached, due, counted, pruning, cutoff>>

-----------------------------------------------------------------------------
InWindow(S, t) == {i \in S : log[i] >= t - Window}

(* Those of them that no prune may have dropped by the end of the reading.  *)
(* Nothing bounds FILTER_ACTIVITY_WINDOW_SEC; the age of a prune is fixed.  *)
InReach(S, t) == {i \in InWindow(S, t) : log[i] >= t - MaxAge + MaxDelay}

(* GetMintActivity: the tracker under the first lock, ...                   *)
FetchTracker(r) ==
  /\ tpc[r] = "idle"
  /\ Goto(r, IF tracked = {} THEN "nil" ELSE "fetched")
  /\ due' = [due EXCEPT ![r] = InReach(DOMAIN log, now)]
  /\ UNCHANGED <<now, log, tracked, stamp, detached, counted, pruning, cutoff>>

(* ... the time that says where the window starts, after it, ...            *)
TakeStart(r) ==
  /\ tpc[r] = "fetched"
  /\ Goto(r, "scan")
  /\ stamp' = [stamp EXCEPT ![r] = now]
  /\ due' = [due EXCEPT ![r] = InReach(due[r], now)]
  /\ UNCHANGED <<now, log, tracked, detached, counted, pruning, cutoff>>

Held(r) == IF detached[r] # {} THEN detached[r] ELSE tracked

(* Faulty variant: only what is after the start of the window counts. *)
GetMintActivityStrict(r) ==
  /\ tpc[r] = "scan"
  /\ Goto(r, "scanned")
  /\ counted' = [counted EXCEPT ![r] = InWindow(Held(r), stamp[r] + 1)]
  /\ UNCHANGED <<now, log, tracked, stamp, detached, due, pruning, cutoff>>

(* ... and the events of the window, of the tracker that it fetched.        *)
GetMintActivity(r) ==
  /\ tpc[r] = "scan"
  /\ Goto(r, "scanned")
  /\ counted' = [counted EXCEPT ![r] = InWindow(Held(r), stamp[r])]
  /\ UNCHANGED <<now, log, tracked, stamp, detached, due, pruning, cutoff>>

(* The activity filter has decided.                                         *)
Decided(r) ==
  /\ tpc[r] \in {"scanned", "nil"}
  /\ Goto(r, "idle")
  /\ stamp' = [stamp EXCEPT ![r] = 0] /\ detached' = [detached EXCEPT ![r] = {}]
  /\ due' = [due EXCEPT ![r] = {}] /\ counted' = [counted EXCEPT ![r] = {}]
  /\ UNCHANGED <<now, log, tracked, pruning, cutoff>>

-----------------------------------------------------------------------------
(* PruneTracker: the cutoff, ...                                            *)
TakeCutoff ==
  /\ ~pruning
  /\ pruning' = TRUE /\ cutoff' = now - MaxAge
  /\ UNCHANGED <<now, log, tracked, stamp, tpc, detached, due, counted>>

(* Faulty variant: the first event decides, not the last. *)
QuietFirst == \E i \in tracked : log[i] < cutoff /\ \A j \in tracked : i <= j

Quiet == \E i \in tracked : log[i] < cutoff /\ \A j \in tracked : j <= i

(* ... and the sweep: a quiet tracker goes, whoever has fetched it; another *)
(* one loses its events up to the first that is not old.                    *)
PruneTracker ==
  /\ pruning /\ pruning' = FALSE /\ cutoff' = 0
  /\ \/ /\ Quiet
        /\ tracked' = {}
        /\ detached' = [r \in Readers |-> IF tpc[r] \in {"fetched", "scan"} THEN Held(r) ELSE {}]
     \/ /\ ~Quiet
        /\ tracked' = {i \in tracked : \E j \in tracked : j <= i /\ log[j] >= cutoff}
        /\ UNCHANGED detached
  /\ UNCHANGED <<now, log, stamp, tpc, due, counted>>

(* Nobody holds on to a time stamp for longer than the delay. *)
Tick ==
  /\ now < MaxTime
  /\ \A g \in Goroutines : tpc[g] \in {"append", "scan"} => now < stamp[g] + MaxDelay
  /\ pruning => now < cutoff + MaxAge + MaxDelay
  /\ now' = now + 1
  /\ UNCHANGED <<log, tracked, stamp, tpc, detached, due, counted, pruning, cutoff>>

-----------------------------------------------------------------------------
(* The activity filter decides on complete data: whatever has been tracked  *)
(* when GetMintActivity begins and is in the window that it then takes is   *)
(* counted, although prunes and other events come between its two locks.    *)
(* Of a window that reaches back further than a prune leaves events (two    *)
(* minutes, less the delay of a goroutine after its time stamp) this is said *)
(* of that part only.                                                       *)
ActivityComplete ==
  \A r \in Readers : tpc[r] \in {"scanned", "nil"} => due[r] \subseteq counted[r]

(* A token keeps its age: its tracker, with firstSeen, goes only after all  *)
(* its events have become old, give or take the delay of a goroutine between *)
(* its time stamp and its append.                                           *)
AgeKept ==
  [][tracked' = {} => \A i \in tracked : log[i] < now - MaxAge + MaxDelay]_tracking
=============================================================================
