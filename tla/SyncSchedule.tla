--------------------------- MODULE SyncSchedule ---------------------------
(* The auto-sync control of a source (web/components/app/sync-schedule.tsx), *)
(* a controlled component: the parent owns the switch and the interval, the  *)
(* component the state of its custom editor.  Times are in seconds; a value  *)
(* the user types is counted in halves, so that "1.5" can be typed, and 0    *)
(* stands for an empty or a zero input.                                      *)
EXTENDS Integers

CONSTANTS
    Presets,  \* the intervals on offer
    Halves,   \* bound: what may be typed into the editor, in halves of a unit
    NoEditor  \* the component is not mounted

MIN_SECONDS == 60
UNITS == {60, 3600, 86400}

\* The server's bounds (server.go:53), which hold when auto-sync is on.
minSyncIntervalSeconds == 60
maxSyncIntervalSeconds == 30 * 24 * 60 * 60

ASSUME ScheduleAssumption ==
    Halves \subseteq Nat /\ Presets \subseteq minSyncIntervalSeconds..maxSyncIntervalSeconds

\* Math.round of n / d, for n >= 0: a half goes up.
Round(n, d) == (2 * n + d) \div (2 * d)

AtLeastOne(n) == IF n < 1 THEN 1 ELSE n

\* A decompose that takes the first unit that divides, not the largest.
SmallestUnit(seconds) == [value |-> 2 * AtLeastOne(Round(seconds, 60)), unit |-> 3600]

\* The largest unit that divides evenly; else whole minutes, rounded.
decompose(seconds) ==
    LET even == {u \in UNITS : seconds % u = 0}
    IN  IF even = {} THEN [value |-> 2 * AtLeastOne(Round(seconds, 60)), unit |-> 60]
        ELSE LET u == CHOOSE u \in even : \A v \in even : v <= u
             IN  [value |-> 2 * (seconds \div u), unit |-> u]

\* useState: custom starts on when the interval is not a preset.
Editor(seconds, custom) ==
    [custom |-> custom, value |-> decompose(seconds).value, unit |-> decompose(seconds).unit]

Editors == [custom: BOOLEAN, value: Nat, unit: UNITS]

Opened(seconds) == Editor(seconds, seconds \notin Presets)

customSeconds(e) == Round(e.value * e.unit, 2)

belowMin(e) == e.custom /\ customSeconds(e) < MIN_SECONDS

\* The segment "Custom" of the frequency control.
Custom == 0

\* applyCustom: the interval the parent holds after the editor became e.
applyCustom(e, seconds) ==
    IF e.value <= 0 \/ customSeconds(e) < MIN_SECONDS THEN seconds ELSE customSeconds(e)
=============================================================================
