------------------------------ MODULE Duration -------------------------------
(***************************************************************************)
(* utils.cpp: duration_string, with which a query's elapsed time is        *)
(* logged.  A duration is a number of milliseconds here; the microseconds  *)
(* of the code, and its fractions of a millisecond, are left out.          *)
(*                                                                         *)
(* One step formats one duration and goes on to another.                   *)
(***************************************************************************)
EXTENDS Integers, Sequences

CONSTANTS
    Hours, Minutes, Seconds, Millis     \* the parts of the durations looked at

PerSecond == 1000
PerMinute == 60 * PerSecond
PerHour == 60 * PerMinute

VARIABLES d, shown      \* a duration, and the parts that are printed of it
vars == <<d, shown>>

hours(t) == t \div PerHour
minutes(t) == t \div PerMinute - hours(t) * 60
seconds(t) == t \div PerSecond - (hours(t) * 3600 + minutes(t) * 60)

\* What is left of the microseconds: as many are taken off as there are
\* milliseconds in the whole seconds.
millis(t) == t - (hours(t) * 3600 + minutes(t) * 60 + seconds(t))

duration_string(t) ==
    LET show_h == hours(t) > 0
        show_m == minutes(t) > 0 \/ show_h
        show_s == seconds(t) > 0 \/ show_m
        show_ms == ~show_h /\ millis(t) > 0
        Part(show, unit, n) == IF show THEN <<[unit |-> unit, n |-> n]>> ELSE <<>>
    IN  Part(show_h, "h", hours(t)) \o Part(show_m, "m", minutes(t))
          \o Part(show_s, "s", seconds(t)) \o Part(show_ms, "ms", millis(t))
          \o Part(~show_s /\ ~show_ms, "s", 0)

Durations ==
    {h * PerHour + m * PerMinute + s * PerSecond + ms :
        h \in Hours, m \in Minutes, s \in Seconds, ms \in Millis}

Init == d \in Durations /\ shown = <<>>

Format == d' \in Durations /\ shown' = duration_string(d')

Spec == Init /\ [][Format]_vars

-----------------------------------------------------------------------------
Shows(unit) == {k \in DOMAIN shown : shown[k].unit = unit}
Of(unit) == IF Shows(unit) = {} THEN 0 ELSE shown[CHOOSE k \in Shows(unit) : TRUE].n

\* The milliseconds have had the hours, minutes and seconds taken off: what is
\* printed behind the seconds is less than one.
RestSubtracted == Of("ms") < PerSecond
=============================================================================
