------------------------------ MODULE MCManage ------------------------------
(* Two projects, one of them found by the search word, and three sources.   *)
EXTENDS ManageSource

MCStreams == {"connections", "projects"}
MCProjects == {"a", "b"}
MCMatches == {"a"}
MCPresets == {900}
\* An empty input, half a unit, and 31 of them.
MCHalves == {0, 1, 62}

Row(onboarded, every, unit, sel) ==
    [exists |-> TRUE, onboarded |-> onboarded, discovered |-> onboarded, on |-> TRUE, every |-> every,
     list |-> [unit |-> unit, sel |-> sel]]

\* A source in discovery, one in use, and one without projects whose schedule
\* is as slow as it may be.
Setup == Row(FALSE, 900, [p \in Projects |-> IF p = "b" THEN "sized" ELSE "absent"], {})
InUse == Row(TRUE, 900, [p \in Projects |-> "sized"], {"b"})
Slow == Row(TRUE, maxSyncIntervalSeconds, [p \in Projects |-> "absent"], {})

\* What may still happen: to the source in use two edits and two saves, or one
\* of each with something more; to the others two edits of the schedule, or
\* what discovery or a fault does.  The panel, which has no schedule, saves once.
MCInit ==
    /\ ManageInit({Setup, InUse, Slow})
    /\ <<MaxEdits - edits, MaxEvents - events, MaxFaults - faults>>
          \in IF db = InUse THEN {<<2, 0, 0>>, <<1, 1, 0>>, <<1, 0, 1>>}
              ELSE IF db = Slow THEN {<<2, 0, 0>>} ELSE {<<1, 0, 1>>, <<0, 1, 0>>}
    /\ saves[1].at = IF edits = 0 /\ db = InUse /\ kind = "manage" THEN "unused" ELSE "done"
    /\ saves[2].at = "unused"
    /\ db = Slow => kind = "manage"

MCSpec == MCInit /\ [][ManageNext]_mvars /\ Fairness
=============================================================================
