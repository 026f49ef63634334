----------------------------- MODULE ParseEvent -----------------------------
(***************************************************************************)
(* From a WebSocket frame to a mint: onMsg, ParseStreamEvent, ExtractMint. *)
(* A frame is a tree of JSON objects in which any field may occur in any   *)
(* object.  Every walk over it is depth first, but Go visits the entries   *)
(* of a map in random order, anew in every walk.  The value of a field is  *)
(* named by the object it was read from.                                   *)
(***************************************************************************)
EXTENDS Integers, Sequences, FiniteSets

CONSTANTS MaxObject    \* bound: a frame has the objects 0..MaxObject, 0 the root

ASSUME FrameAssumption == MaxObject \in Nat \ {0}

Objects == 0..MaxObject
None    == -1
(* "mint" stands for all fields that a walk of their own looks for (mint,   *)
(* txType, solAmount...), "mcap" for those that fillTradeFromMap fills once. *)
Fields  == {"mint", "mcap", "initialBuy"}

VARIABLES valid,    \* the frame is JSON
          parent,   \* the tree
          has,      \* the fields of each object
          pc,       \* "find", "fill", "extract", "done"
          path,     \* the objects from the root to where the walk is
          seen,     \* objects visited in this walk
          ev,       \* the StreamEvent: for each field an object, or None
          mint      \* the mint that is dispatched, or None

parseVars == <<valid, parent, has, pc, path, seen, ev, mint>>
frame     == <<valid, parent, has>>

Children(n) == {m \in 1..MaxObject : parent[m] = n}

(* The objects around n: the least set that has its parent and theirs.      *)
Encloses(S, n) == \A m \in S \cup {n} : m # 0 => parent[m] \in S
Above(n) == {a \in Objects : \A S \in SUBSET Objects : Encloses(S, n) => a \in S}
Depth(n) == Cardinality(Above(n))

Here == path[Len(path)]

ParseTypeOK ==
  /\ parent \in [1..MaxObject -> Objects] /\ has \in [Objects -> SUBSET Fields]
  /\ \A n \in 1..MaxObject : parent[n] < n
  /\ pc \in {"find", "fill", "extract", "gate", "done"}
  /\ path \in Seq(Objects) /\ seen \subseteq Objects
  /\ ev \in [Fields -> Objects \cup {None}] /\ mint \in Objects \cup {None}
  /\ \A f \in Fields : ev[f] # None => f \in has[ev[f]]

ParseInit ==
  /\ valid \in BOOLEAN
  /\ parent \in {t \in [1..MaxObject -> Objects] : \A n \in 1..MaxObject : t[n] < n}
  /\ has \in [Objects -> SUBSET Fields]
  /\ ~valid => \A n \in Objects : has[n] = {}
  /\ pc = "find" /\ path = <<>> /\ seen = {}
  /\ ev = [f \in Fields |-> None] /\ mint = None

-----------------------------------------------------------------------------
(* The next object of the walk, below the deepest one that is not finished. *)
Enters(n) ==
  /\ IF path = <<>> THEN n = 0 ELSE n \in Children(Here) \ seen
  /\ path' = Append(path, n) /\ seen' = seen \cup {n}

Leave ==
  /\ pc \in {"find", "fill", "extract"}
  /\ path # <<>> /\ Children(Here) \subseteq seen /\ Len(path) > 1
  /\ path' = SubSeq(path, 1, Len(path) - 1)
  /\ UNCHANGED <<frame, pc, seen, ev, mint>>

EndWalk(next) == pc' = next /\ path' = <<>> /\ seen' = {}

(* Every object below the root has been visited. *)
Exhausted == path # <<>> /\ Len(path) = 1 /\ Children(0) \subseteq seen

(* The frame is not JSON: neither parser gets anything from it.             *)
NotJSON ==
  /\ pc = "find" /\ ~valid
  /\ EndWalk("done")
  /\ UNCHANGED <<frame, ev, mint>>

(* walkForMint and findFirst...: the first object with the key ends it.     *)
Find ==
  /\ pc = "find" /\ valid
  /\ \/ \E n \in Objects :
          /\ Enters(n) /\ "mint" \notin has[n]
          /\ UNCHANGED <<pc, ev>>
     \/ \E n \in Objects :
          /\ Enters(n) /\ "mint" \in has[n]
          /\ ev' = [ev EXCEPT !["mint"] = n]
          /\ UNCHANGED pc
  /\ ev["mint"] = None
  /\ UNCHANGED <<frame, mint>>

(* Faulty variant: findFirstString looks at the root object only. *)
FindEndsEarly ==
  /\ pc = "find" /\ (ev["mint"] # None \/ path # <<>>)
  /\ EndWalk("fill")
  /\ UNCHANGED <<frame, ev, mint>>

FindEnds ==
  /\ pc = "find" /\ (ev["mint"] # None \/ Exhausted)
  /\ EndWalk("fill")
  /\ UNCHANGED <<frame, ev, mint>>

(* Faulty variant: every field is overwritten, not only initialBuy. *)
FillOverwrites ==
  /\ pc = "fill"
  /\ \E n \in Objects :
       /\ Enters(n)
       /\ ev' = [f \in Fields |-> IF f \notin has[n] \/ f = "mint" THEN ev[f] ELSE n]
  /\ UNCHANGED <<frame, pc, mint>>

(* fillTradeFromMap on one object: market cap and the like only when they   *)
(* are still empty, initialBuy in any case.                                 *)
Fill ==
  /\ pc = "fill"
  /\ \E n \in Objects :
       /\ Enters(n)
       /\ ev' = [f \in Fields |->
                   IF f \notin has[n] \/ f = "mint" THEN ev[f]
                   ELSE IF f = "mcap" /\ ev[f] # None THEN ev[f] ELSE n]
  /\ UNCHANGED <<frame, pc, mint>>

(* onMsg: with a mint, the event is tracked, published and goes through the *)
(* gate; without one ExtractMint walks the frame once more.                 *)
FillEnds ==
  /\ pc = "fill" /\ Exhausted
  /\ EndWalk(IF ev["mint"] # None THEN "gate" ELSE "extract")
  /\ UNCHANGED <<frame, ev, mint>>

(* AllowStreamEvent (EntryFilter.tla) refuses the event, or the event is    *)
(* dispatched with its mint.                                                *)
Gate ==
  /\ pc = "gate"
  /\ pc' = "done"
  /\ mint' \in {None, ev["mint"]}
  /\ UNCHANGED <<frame, path, seen, ev>>

ExtractMint ==
  /\ pc = "extract"
  /\ \/ \E n \in Objects :
          /\ Enters(n)
          /\ mint' = IF "mint" \in has[n] THEN n ELSE None
          /\ pc' = IF "mint" \in has[n] THEN "done" ELSE pc
     \/ Exhausted /\ EndWalk("done") /\ UNCHANGED mint
  /\ UNCHANGED <<frame, ev>>

ParseNext == Leave \/ NotJSON \/ Find \/ FindEnds \/ Fill \/ FillEnds \/ Gate \/ ExtractMint
ParseSpec == ParseInit /\ [][ParseNext]_parseVars

-----------------------------------------------------------------------------
Parsed == pc \in {"gate", "extract"}

(* What a parse depends on in spite of the random order: a field is found   *)
(* if any object of the frame has it, and it is not read from an object     *)
(* inside another one that has it too, so that the root always wins.        *)
OuterWins ==
  \A f \in {"mint", "mcap"} :
    /\ Parsed => (ev[f] = None <=> \A n \in Objects : f \notin has[n])
    /\ ev[f] # None => \A a \in Above(ev[f]) : f \notin has[a]

(* No mint gets past the WSS gate: the fallback to ExtractMint, which has   *)
(* no event to show to the gate, never finds a mint that ParseStreamEvent   *)
(* did not, although it walks in another order.                             *)
NoUngatedMint == mint # None => mint = ev["mint"]

-----------------------------------------------------------------------------
(* stream_event.go:94, only a field that is still empty is filled: when an  *)
(* object has initialBuy, objects inside it do not replace the value.       *)
InitialBuyFilledOnce ==
  Parsed /\ ev["initialBuy"] # None
    => \A a \in Above(ev["initialBuy"]) : "initialBuy" \notin has[a]

(* stream_event.go:95, the shallower object wins over a deeper one.         *)
ShallowWins ==
  Parsed /\ ev["mcap"] # None
    => \A n \in Objects : "mcap" \in has[n] => Depth(ev["mcap"]) <= Depth(n)
=============================================================================
