---------------------------- MODULE ActiveHours -----------------------------
(***************************************************************************)
(* guard.ActiveHourWindowContains: the daily window in which BUYs are      *)
(* allowed, both ends inclusive, possibly across midnight, and switched    *)
(* off by a negative end.                                                  *)
(***************************************************************************)
EXTENDS Integers

CONSTANT HoursPerDay   \* 24; a run can use a shorter clock face

ASSUME HoursAssumption == HoursPerDay \in Nat \ {0}

VARIABLES startH, endH,   \* ACTIVE_START_HOUR and ACTIVE_END_HOUR
          hour            \* the local hour

window == <<startH, endH>>

Off == -1
Hours == 0..(HoursPerDay - 1)

(* Faulty variant: the end hour is left out. *)
ContainsExclusive(s, e, h) ==
  IF s < 0 \/ e < 0 THEN TRUE
  ELSE IF s <= e THEN h >= s /\ h < e
  ELSE h >= s \/ h < e

Contains(s, e, h) ==
  IF s < 0 \/ e < 0 THEN TRUE
  ELSE IF s <= e THEN h >= s /\ h <= e
  ELSE h >= s \/ h <= e

(* The configuration check accepts two hours, or none. *)
HoursInit ==
  /\ startH \in Hours \cup {Off} /\ endH \in Hours \cup {Off}
  /\ startH = Off <=> endH = Off
  /\ hour \in Hours

(* One clock hour after the other.  The local time zone of TZ is assumed to *)
(* have no daylight-saving time, whose changes skip an hour or repeat one;  *)
(* neither the default, UTC, nor the documented Asia/Jakarta has any.       *)
HourPasses ==
  /\ hour' = IF hour = HoursPerDay - 1 THEN 0 ELSE hour + 1
  /\ UNCHANGED window

HoursSpec == HoursInit /\ [][HourPasses]_<<window, hour>>

(* Hours from a forward to b on the clock face. *)
Forward(a, b) == IF b >= a THEN b - a ELSE b - a + HoursPerDay

(* The window is an arc of the clock face: it contains the hours met on the *)
(* way from its start to its end, wherever midnight lies.                   *)
WindowIsArc ==
  startH # Off /\ endH # Off
    => (Contains(startH, endH, hour) <=> Forward(startH, hour) <= Forward(startH, endH))

(* A day's window opens at its start only and closes after its end only; it *)
(* never flickers in between.  In a zone with daylight-saving time this is  *)
(* not so on the two days of the change (see HourPasses).                   *)
OneOpening ==
  [][LET open == Contains(startH, endH, hour)
         next == Contains(startH, endH, hour')
     IN  /\ ~open /\ next => hour' = startH
         /\ open /\ ~next => hour = endH]_<<window, hour>>
=============================================================================
