------------------------------- MODULE Report -------------------------------
(***************************************************************************)
(* NotifyTradeSavedWithTrade: every seller that has recorded a trade looks *)
(* at one Redis key to see whether a summary is due, loads the trades,     *)
(* sends it, and writes the time of its own call to the key.  Nothing      *)
(* keeps two sellers from doing so at once.  sendPeriodicSnapshot posts    *)
(* beside them, by its own ticker, without looking at the key, and is left *)
(* out.                                                                    *)
(***************************************************************************)
EXTENDS Integers

CONSTANTS Sellers,     \* goroutines that record trades, of all workers
          Interval,    \* REPORT_INTERVAL_MIN, in ticks
          MaxCall,     \* longest call: Redis, the load, and three posts
          MaxTime      \* bound of the clock

ASSUME ReportAssumption ==
  {Interval, MaxCall} \subseteq Nat /\ Interval > MaxCall /\ MaxTime \in Nat \ {0}

VARIABLES now,
          last,        \* report:last_sent, 0 when there is none
          call, stamp, \* of each seller; stamp is the call's time.Now()
          latest       \* history: latest time ever written to the key

report == <<now, last, call, stamp, latest>>

Step(s, stage) == call' = [call EXCEPT ![s] = stage]
InCall(s)      == call[s] \notin {"none", "over"}

ReportTypeOK ==
  /\ now \in 1..MaxTime /\ last \in 0..now
  /\ call \in [Sellers -> {"none", "get", "first", "send", "set", "over"}]
  /\ stamp \in [Sellers -> 0..now]
  /\ latest \in 0..now

ReportInit ==
  /\ now = 1 /\ last = 0
  /\ call = [s \in Sellers |-> "none"]
  /\ stamp = [s \in Sellers |-> 0] /\ latest = 0

Return(s) == /\ Step(s, "over")
             /\ stamp' = [stamp EXCEPT ![s] = 0]

Notify(s) ==
  /\ call[s] = "none"
  /\ Step(s, "get")
  /\ stamp' = [stamp EXCEPT ![s] = now]
  /\ UNCHANGED <<now, last, latest>>

(* Faulty variant: the interval is not looked at. *)
GetLastAnyTime(s) ==
  /\ call[s] = "get"
  /\ Step(s, IF last = 0 THEN "first" ELSE "send")
  /\ UNCHANGED <<now, last, stamp, latest>>

(* GET: no key yet, too early, or a summary is due.                         *)
GetLast(s) ==
  /\ call[s] = "get"
  /\ \/ last = 0 /\ Step(s, "first") /\ UNCHANGED stamp
     \/ last # 0 /\ stamp[s] - last < Interval /\ Return(s)
     \/ /\ last # 0 /\ stamp[s] - last >= Interval
        /\ Step(s, "send") /\ UNCHANGED stamp
  /\ UNCHANGED <<now, last, latest>>

(* SET, whose error is ignored.                                             *)
Set(s) == /\ \/ last' = stamp[s] /\ latest' = IF stamp[s] > latest THEN stamp[s] ELSE latest
             \/ UNCHANGED <<last, latest>>
          /\ Return(s)
          /\ UNCHANGED now

(* The answer to SET is lost, and the client sends the command again.       *)
SetAgain(s) ==
  /\ call[s] \in {"first", "set"}
  /\ last' = stamp[s] /\ latest' = IF stamp[s] > latest THEN stamp[s] ELSE latest
  /\ UNCHANGED <<now, call, stamp>>

(* The first trade, ever or since the reset, only starts the interval.      *)
SetFirst(s) == call[s] = "first" /\ Set(s)

(* LRANGE finds trades, and the summary is posted at the first, second or   *)
(* third attempt.                                                           *)
SendSummary(s, some) ==
  /\ call[s] = "send" /\ some
  /\ Step(s, "set")
  /\ UNCHANGED <<now, last, stamp, latest>>

SetLast(s) == call[s] = "set" /\ Set(s)

(* A Redis error, no trades, no attempt that succeeded, or the worker dies. *)
Abort(s) ==
  /\ InCall(s)
  /\ Return(s)
  /\ UNCHANGED <<now, last, latest>>

(* The operator's reset deletes the key.                                    *)
ResetReportState ==
  /\ last' = 0
  /\ UNCHANGED <<now, call, stamp, latest>>

Tick ==
  /\ now < MaxTime
  /\ \A s \in Sellers : InCall(s) => now - stamp[s] < MaxCall
  /\ now' = now + 1
  /\ UNCHANGED <<last, call, stamp, latest>>

GoOn(s, some) == \/ GetLast(s) \/ SetAgain(s) \/ SetFirst(s)
                 \/ SendSummary(s, some) \/ SetLast(s) \/ Abort(s)
=============================================================================
