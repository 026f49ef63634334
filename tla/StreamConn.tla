----------------------------- MODULE StreamConn -----------------------------
(***************************************************************************)
(* pumpws.runLoop: one WebSocket connection that is dialled, subscribed,   *)
(* read until it breaks, and dialled again after a backoff.  Durations are *)
(* in seconds; the jitter of a sleep only adds to it and is left out.      *)
(***************************************************************************)
EXTENDS Integers

CONSTANTS Cooldown,    \* 60, after a policy violation
          Ceiling,     \* 30, the backoff doubles below it
          MaxPanics    \* bound: panics in the message handler

ASSUME ConnAssumption == {Cooldown, Ceiling} \subseteq Nat \ {0} /\ MaxPanics \in Nat
ASSUME CooldownIsLong == Cooldown >= 2 * Ceiling

VARIABLES conn,      \* "top", "dial", "read", "closed", "sleep", "stopped"
          ctxDone,   \* the worker is shutting down
          backoff,
          long,      \* the connection has lasted more than 10 seconds
          policy,    \* the last read error was a policy violation (1008)
          slept,     \* history: the last sleep, 0 while connected
          failures,  \* history: short failures in a row, at most 6
          panics

connVars == <<conn, ctxDone, backoff, long, policy, slept, failures, panics>>

ConnTypeOK ==
  /\ conn \in {"top", "dial", "read", "closed", "sleep", "stopped"}
  /\ ctxDone \in BOOLEAN /\ long \in BOOLEAN /\ policy \in BOOLEAN
  /\ backoff \in Nat \ {0} /\ slept \in Nat
  /\ failures \in 0..6 /\ panics \in 0..MaxPanics

ConnInit ==
  /\ conn = "top" /\ ctxDone = FALSE /\ backoff = 1
  /\ long = FALSE /\ policy = FALSE
  /\ slept = 0 /\ failures = 0 /\ panics = 0

Shutdown ==
  /\ ~ctxDone /\ ctxDone' = TRUE
  /\ UNCHANGED <<conn, backoff, long, policy, slept, failures, panics>>

(* Faulty variant: the context is not looked at before the dial. *)
TopUnchecked ==
  /\ conn = "top"
  /\ conn' = "dial"
  /\ UNCHANGED <<ctxDone, backoff, long, policy, slept, failures, panics>>

Top ==
  /\ conn = "top"
  /\ conn' = IF ctxDone THEN "stopped" ELSE "dial"
  /\ UNCHANGED <<ctxDone, backoff, long, policy, slept, failures, panics>>

DialFails ==
  /\ conn = "dial"
  /\ conn' = "sleep"
  /\ policy' = FALSE
  /\ failures' = IF failures < 6 THEN failures + 1 ELSE 6
  /\ UNCHANGED <<ctxDone, backoff, long, slept, panics>>

(* Connected and subscribed; a failed subscription is only logged.          *)
Connect ==
  /\ conn = "dial"
  /\ conn' = "read"
  /\ long' = FALSE /\ policy' = FALSE /\ slept' = 0
  /\ UNCHANGED <<ctxDone, backoff, failures, panics>>

(* Ten seconds pass while messages arrive.                                  *)
Lasts ==
  /\ conn = "read" /\ ~long
  /\ long' = TRUE
  /\ UNCHANGED <<conn, ctxDone, backoff, policy, slept, failures, panics>>

(* The read ends: an error, the 60 s deadline, or the context.              *)
Breaks ==
  /\ conn = "read"
  /\ policy' \in BOOLEAN
  /\ conn' = "closed"
  /\ UNCHANGED <<ctxDone, backoff, long, slept, failures, panics>>

(* The message handler panics: the recover is outside the loop.             *)
HandlerPanics ==
  /\ conn = "read" /\ panics < MaxPanics
  /\ panics' = panics + 1
  /\ conn' = "stopped"
  /\ UNCHANGED <<ctxDone, backoff, long, policy, slept, failures>>

(* After the close: the cooldown of a policy violation, then the reset      *)
(* after a connection that lasted.                                          *)
AfterClose ==
  /\ conn = "closed"
  /\ IF ctxDone
       THEN conn' = "stopped" /\ UNCHANGED <<backoff, failures>>
       ELSE /\ conn' = "sleep"
            /\ backoff' = IF long THEN 1 ELSE IF policy THEN Cooldown ELSE backoff
            /\ failures' = IF long THEN 0 ELSE IF failures < 6 THEN failures + 1 ELSE 6
  /\ UNCHANGED <<ctxDone, long, policy, slept, panics>>

(* Faulty variant: the backoff does not grow. *)
SleepConstant ==
  /\ conn = "sleep"
  /\ conn' = "top"
  /\ slept' = IF ctxDone THEN 0 ELSE backoff
  /\ UNCHANGED <<ctxDone, backoff, long, policy, failures, panics>>

(* A sleep that the shutdown cuts short does not count.                     *)
SleepBackoff ==
  /\ conn = "sleep"
  /\ conn' = "top"
  /\ slept' = IF ctxDone THEN 0 ELSE backoff
  /\ backoff' = IF backoff < Ceiling THEN 2 * backoff ELSE backoff
  /\ UNCHANGED <<ctxDone, long, policy, failures, panics>>

Loop == \/ Top \/ DialFails \/ Connect \/ Breaks \/ AfterClose \/ SleepBackoff
ConnNext == Loop \/ Shutdown \/ Lasts \/ HandlerPanics
ConnSpec == ConnInit /\ [][ConnNext]_connVars

(* Dials, reads and sleeps are bounded by their time-outs.                  *)
FairConn == ConnSpec /\ WF_connVars(Loop)

-----------------------------------------------------------------------------
(* Reconnection never hammers the provider, although three places set the   *)
(* backoff: after k short failures in a row the pause is 2^(k-1) seconds up *)
(* to the ceiling; after a short connection that ended in a policy          *)
(* violation it is the cooldown, whatever the backoff was; and it never     *)
(* exceeds the cooldown.                                                    *)
BackoffGrows ==
  conn = "top" /\ slept > 0
    => /\ slept <= Cooldown
       /\ failures > 0 => slept >= Ceiling \/ slept >= 2^(failures - 1)
       /\ policy /\ ~long => slept >= Cooldown

(* A cancelled worker leaves the loop, whatever it is doing.                *)
Stops == ctxDone ~> conn = "stopped"

-----------------------------------------------------------------------------
(* pumpws.go:73, a policy violation forces the cooldown.                    *)
PolicyCools == conn = "top" /\ slept > 0 /\ policy => slept >= Cooldown

(* pumpws.go:29, Run keeps the connection up: it stops for a shutdown only. *)
KeepsConnection == conn = "stopped" => ctxDone
=============================================================================
