----------------------------- MODULE MintStream -----------------------------
(***************************************************************************)
(* What onMsg and HandleMint do to the shared state of pumpws for one      *)
(* mint.  A stream goroutine takes each event first to the tracker, then   *)
(* to the bus; a HandleMint goroutine reads the tracker for the activity   *)
(* filter and, when it has bought, subscribes to the bus; the pruner runs  *)
(* beside them.  Two locks guard the two structures; nobody holds both.    *)
(***************************************************************************)
EXTENDS EventBus, Tracker

ASSUME StreamAssumption == Writers = Publishers /\ Readers \subseteq Monitors

streamVars == <<vars, tracking>>

StreamTypeOK == TypeOK /\ TrackerTypeOK
StreamInit   == Init /\ TrackerInit

(* onMsg: TrackEvent looks at buys and sells only, then every event is      *)
(* published.                                                               *)
StartTrack(p) ==
  /\ ppc[p] = "idle"
  /\ TakeTime(p)
  /\ UNCHANGED vars

TrackThenPublish(p) == TrackEvent(p) /\ Frame(p)

PublishOther(p) ==
  /\ tpc[p] = "idle"
  /\ Frame(p)
  /\ UNCHANGED tracking

Fanout(p) == Publish(p) /\ UNCHANGED tracking

(* HandleMint: the activity filter, when it is on.  A mint without a        *)
(* tracker, or with too little activity, is left alone.                     *)
ReadActivity(m) ==
  /\ mpc[m] = "new" /\ m \in Readers
  /\ FetchTracker(m) \/ TakeStart(m) \/ GetMintActivity(m) \/ Decided(m)
  /\ UNCHANGED vars

(* Bought, it becomes the monitor; and that ends.                           *)
StartLock(m) ==
  /\ m \in Readers => tpc[m] = "idle"
  /\ WantLock(m)
  /\ UNCHANGED tracking

Locked(m)  == Lock(m) /\ UNCHANGED tracking
Holding(m) == (Register(m) \/ Cancel(m)) /\ UNCHANGED tracking
Watch(m)   == Receive(m) /\ UNCHANGED tracking

Prune == (TakeCutoff \/ PruneTracker \/ Tick) /\ UNCHANGED vars

StreamNext ==
  \/ Prune
  \/ \E p \in Publishers : StartTrack(p) \/ TrackThenPublish(p) \/ PublishOther(p) \/ Fanout(p)
  \/ \E m \in Monitors : \/ ReadActivity(m) \/ StartLock(m) \/ Locked(m)
                         \/ Holding(m) \/ Watch(m)

StreamSpec == StreamInit /\ [][StreamNext]_streamVars

(* Goroutines run.  Nothing is assumed of the lock of the bus but its rule  *)
(* that a waiting writer keeps new readers out.                             *)
FairStream ==
  /\ StreamSpec
  /\ \A p \in Publishers : WF_streamVars(Fanout(p))
  /\ \A m \in Monitors : WF_streamVars(Locked(m)) /\ WF_streamVars(Holding(m))
=============================================================================
