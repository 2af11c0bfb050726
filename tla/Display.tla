------------------------------ MODULE Display ------------------------------
(* How the pages put values into words: how long ago something happened,    *)
(* how often a source syncs, and how far the sync is.  A phrase is a count  *)
(* and a unit in seconds.                                                   *)
EXTENDS SyncSchedule, Sequences

MINUTE == 60
HOUR == 3600
DAY == 86400
WEEK == 604800
MONTH == 2592000
YEAR == 31536000

Phrase(n, unit) == [n |-> n, unit |-> unit]
Span(p) == p.n * p.unit

\* Less than this is "just now".
Below45(seconds) == seconds < 45

\* RelativeTime: "just now", then the count rounded down, at least one.
formatRelative(seconds) ==
    IF Below45(seconds) THEN Phrase(0, 1)
    ELSE LET unit == IF seconds < HOUR THEN MINUTE ELSE IF seconds < DAY THEN HOUR
                     ELSE IF seconds < MONTH THEN DAY ELSE IF seconds < YEAR THEN MONTH ELSE YEAR
         IN Phrase(AtLeastOne(seconds \div unit), unit)

\* Math.round of a negative quotient: a half goes up, towards zero.
RoundPast(n, d) == (2 * n + d - 1) \div (2 * d)

\* The audit log's phrase: the largest unit that fits, the count rounded.
timeAgo(seconds) ==
    LET fits == {u \in {1, MINUTE, HOUR, DAY, WEEK, MONTH, YEAR} : seconds >= u \/ u = 1}
        unit == CHOOSE u \in fits : \A v \in fits : v <= u
    IN Phrase(RoundPast(seconds, unit), unit)

\* "in the largest clean unit", else whole minutes.
humanizeInterval(seconds) ==
    IF seconds % DAY = 0 THEN Phrase(seconds \div DAY, DAY)
    ELSE IF seconds % HOUR = 0 THEN Phrase(seconds \div HOUR, HOUR)
    ELSE Phrase(Round(seconds, 60), MINUTE)

\* progressLabel: the count, of the estimate once there is one.
progressLabel(p) ==
    IF p.estimate > 0 THEN <<p.count, p.estimate>> ELSE IF p.count > 0 THEN <<p.count>> ELSE <<0>>

\* Totals over the selected projects.
Total(projects, f) ==
    LET Plus[i \in 0..Len(projects)] ==
            IF i = 0 THEN 0
            ELSE (IF projects[i].selected THEN projects[i][f] ELSE 0) + Plus[i - 1]
    IN Plus[Len(projects)]

\* The "Items synced" line.
ItemsSynced(projects) ==
    LET items == Total(projects, "count")
        estimate == Total(projects, "estimate")
    IN IF estimate > 0 THEN <<items, estimate>> ELSE <<items>>

-----------------------------------------------------------------------------
(* Properties, over ages and intervals around every boundary.               *)

Around(n) == {m \in {n - 1, n, n + 1} : m >= 0}
Ages ==
    UNION {Around(n) : n \in {0, 45, MINUTE, 90, HOUR - 30, HOUR, 5400, DAY - 1800, DAY,
                              WEEK - 43200, WEEK, 4 * WEEK, MONTH, MONTH + 1296000,
                              YEAR - 1296000, YEAR, YEAR + 15768000}}

\* relative-time.tsx:76 and audit/page.tsx:177: of two moments the older one
\* never reads as the younger, across every change of unit, and no phrase is
\* off by more than the unit it names.
OlderReadsOlder ==
    \A a, b \in Ages : a <= b =>
        /\ Span(formatRelative(a)) <= Span(formatRelative(b))
        /\ Span(timeAgo(a)) <= Span(timeAgo(b))
        /\ Span(formatRelative(a)) <= a + 15 /\ a - Span(formatRelative(a)) < 45 + formatRelative(a).unit
        /\ Span(timeAgo(a)) - a \in -timeAgo(a).unit..timeAgo(a).unit

Intervals == {60, 90, 900, 1800, 3600, 5400, 7200, 86400, 90000, 172800, 2592000}

\* humanizeInterval on the page of a source and decompose in the editor put a
\* stored interval the same way (sources/[id]/page.tsx:336, sync-schedule.tsx:26).
PagesSayTheSame ==
    \A s \in Intervals :
        LET d == decompose(s) IN humanizeInterval(s) = Phrase(d.value \div 2, d.unit)

ProjectRows == [selected: BOOLEAN, count: {0, 2}, estimate: {0, 3}]

\* "unselected projects don't sync, so they must not inflate the numerator or
\* the out-of total" (sources/[id]/page.tsx:136): the line says no more than
\* the rows of the list below it.
TotalsAreOfTheList ==
    \A p, q \in ProjectRows :
        /\ ~q.selected => ItemsSynced(<<p, q>>) = ItemsSynced(<<p>>)
        /\ p.selected /\ ~q.selected => ItemsSynced(<<p, q>>) = progressLabel(p)
=============================================================================
