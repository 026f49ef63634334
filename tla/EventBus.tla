------------------------------ MODULE EventBus ------------------------------
(***************************************************************************)
(* The in-process bus of pumpws for one mint: the stream goroutines fan    *)
(* out events under the read lock, monitors register a buffered channel    *)
(* under the write lock and, when they end, remove it under the write lock *)
(* and close it after the unlock.  A send on a closed channel would panic  *)
(* and, caught by the recover of pumpws.runLoop, end the stream.           *)
(***************************************************************************)
EXTENDS Integers

CONSTANTS Publishers,   \* stream goroutines: primary and fallback connection
          Monitors,     \* goroutines that watch the mint, one after another
          Cap           \* 16, the buffer of a channel

ASSUME BusAssumption == Cap \in Nat \ {0}

VARIABLES readers,    \* publishers that hold busMu.RLock
          writer,     \* the monitors that hold busMu.Lock, at most one
          waiting,    \* monitors blocked in busMu.Lock
          bus,        \* registered channels, named by their monitor
          closed,     \* closed channels
          chan,       \* number of events in each channel
          ppc, left,  \* publishers: stage, channels still to be served
          mpc         \* stage of each monitor

vars == <<readers, writer, waiting, bus, closed, chan, ppc, left, mpc>>

TypeOK ==
  /\ readers \subseteq Publishers /\ writer \subseteq Monitors /\ waiting \subseteq Monitors
  /\ bus \subseteq Monitors /\ closed \subseteq Monitors
  /\ chan \in [Monitors -> 0..Cap]
  /\ ppc \in [Publishers -> {"idle", "rlock", "fanout"}]
  /\ left \in [Publishers -> SUBSET Monitors]
  /\ mpc \in [Monitors -> {"new", "subscribe", "watch", "cancel", "close", "over"}]

Init ==
  /\ readers = {} /\ writer = {} /\ waiting = {}
  /\ bus = {} /\ closed = {}
  /\ chan = [m \in Monitors |-> 0]
  /\ ppc = [p \in Publishers |-> "idle"] /\ left = [p \in Publishers |-> {}]
  /\ mpc = [m \in Monitors |-> "new"]

-----------------------------------------------------------------------------
(* sync.RWMutex: a waiting writer keeps new readers out. *)
RLockFree == writer = {} /\ waiting = {}
LockFree  == writer = {} /\ readers = {}

(* A frame has been parsed: PublishStreamEvent is called. *)
Frame(p) ==
  /\ ppc[p] = "idle"
  /\ ppc' = [ppc EXCEPT ![p] = "rlock"]
  /\ UNCHANGED <<readers, writer, waiting, bus, closed, chan, left, mpc>>

RLock(p) ==
  /\ ppc[p] = "rlock" /\ RLockFree
  /\ readers' = readers \cup {p}
  /\ left' = [left EXCEPT ![p] = bus]
  /\ ppc' = [ppc EXCEPT ![p] = "fanout"]
  /\ UNCHANGED <<writer, waiting, bus, closed, chan, mpc>>

(* Faulty variant: a send that waits for room. *)
SendBlocks(p) ==
  /\ ppc[p] = "fanout"
  /\ \E m \in left[p] :
       /\ chan[m] < Cap
       /\ left' = [left EXCEPT ![p] = @ \ {m}]
       /\ chan' = [chan EXCEPT ![m] = @ + 1]
  /\ UNCHANGED <<readers, writer, waiting, bus, closed, ppc, mpc>>

(* The non-blocking send: a full buffer drops the event.                    *)
Send(p) ==
  /\ ppc[p] = "fanout"
  /\ \E m \in left[p] :
       /\ left' = [left EXCEPT ![p] = @ \ {m}]
       /\ chan' = [chan EXCEPT ![m] = IF @ < Cap THEN @ + 1 ELSE @]
  /\ UNCHANGED <<readers, writer, waiting, bus, closed, ppc, mpc>>

RUnlock(p) ==
  /\ ppc[p] = "fanout" /\ left[p] = {}
  /\ readers' = readers \ {p}
  /\ ppc' = [ppc EXCEPT ![p] = "idle"]
  /\ UNCHANGED <<writer, waiting, bus, closed, chan, left, mpc>>

-----------------------------------------------------------------------------
(* SubscribeMint or cancel calls busMu.Lock.                                *)
WantLock(m) ==
  /\ mpc[m] \in {"new", "watch"}
  /\ mpc' = [mpc EXCEPT ![m] = IF @ = "new" THEN "subscribe" ELSE "cancel"]
  /\ waiting' = waiting \cup {m}
  /\ UNCHANGED <<readers, writer, bus, closed, chan, ppc, left>>

Lock(m) ==
  /\ m \in waiting /\ LockFree
  /\ waiting' = waiting \ {m}
  /\ writer' = {m}
  /\ UNCHANGED <<readers, bus, closed, chan, ppc, left, mpc>>

Register(m) ==
  /\ mpc[m] = "subscribe" /\ m \in writer
  /\ bus' = bus \cup {m}
  /\ writer' = {}
  /\ mpc' = [mpc EXCEPT ![m] = "watch"]
  /\ UNCHANGED <<readers, waiting, closed, chan, ppc, left>>

(* The monitor takes an event in an iteration of its loop.                  *)
Receive(m) ==
  /\ mpc[m] = "watch" /\ chan[m] > 0
  /\ chan' = [chan EXCEPT ![m] = @ - 1]
  /\ UNCHANGED <<readers, writer, waiting, bus, closed, ppc, left, mpc>>

Unregister(m) ==
  /\ mpc[m] = "cancel" /\ m \in writer
  /\ bus' = bus \ {m}
  /\ writer' = {}
  /\ mpc' = [mpc EXCEPT ![m] = "close"]
  /\ UNCHANGED <<readers, waiting, closed, chan, ppc, left>>

(* Faulty variant: cancel closes the channel before it is off the bus. *)
CloseFirst(m) ==
  /\ mpc[m] \in {"cancel", "close"}
  /\ closed' = closed \cup {m}
  /\ mpc' = [mpc EXCEPT ![m] = IF @ = "close" THEN "over" ELSE @]
  /\ UNCHANGED <<readers, writer, waiting, bus, chan, ppc, left>>

Close(m) ==
  /\ mpc[m] = "close"
  /\ closed' = closed \cup {m}
  /\ mpc' = [mpc EXCEPT ![m] = "over"]
  /\ UNCHANGED <<readers, writer, waiting, bus, chan, ppc, left>>

Publish(p) == RLock(p) \/ Send(p) \/ RUnlock(p)
Cancel(m)  == Unregister(m) \/ Close(m)

Next == \/ \E p \in Publishers : Frame(p) \/ Publish(p)
        \/ \E m \in Monitors : WantLock(m) \/ Lock(m) \/ Register(m) \/ Receive(m) \/ Cancel(m)
Spec == Init /\ [][Next]_vars

-----------------------------------------------------------------------------
(* bus.go:19, no publisher ever sends on a channel that has been closed:    *)
(* whatever it still has to serve is open, however its fan-out interleaves  *)
(* with monitors that end.                                                  *)
NoSendOnClosed == \A p \in Publishers : left[p] \cap closed = {}

(* The bus keeps no channel of a monitor that is over.                      *)
NoLeak == \A m \in bus : mpc[m] \in {"watch", "cancel"}

(* Publishing never blocks for good, neither on a slow monitor nor on the   *)
(* lock.                                                                    *)
PublishReturns == \A p \in Publishers : ppc[p] # "idle" ~> ppc[p] = "idle"
=============================================================================
