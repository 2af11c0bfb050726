------------------------------ MODULE SyncRun ------------------------------
(* What runConnection promises, whatever signals, failures and resumptions  *)
(* it meets: a connection is at rest or in one run, a run keeps an allowed  *)
(* set of units in flight, each unit once, and comes to rest with none in   *)
(* flight, unless it is aborted and abandons them all.                      *)

CONSTANTS
    Units,
    Pools  \* the sets of units that may be in flight at once

VARIABLES
    phase,  \* "rest" or "run"
    pool    \* the units in flight

svars == <<phase, pool>>

Init == phase = "rest" /\ pool = {}

Begin ==
    /\ phase = "rest"
    /\ phase' = "run"
    /\ UNCHANGED pool

Launch(S) ==
    /\ phase = "run"
    /\ S \cap pool = {}
    /\ pool \cup S \in Pools
    /\ pool' = pool \cup S
    /\ UNCHANGED phase

Finish(u) ==
    /\ phase = "run"
    /\ u \in pool
    /\ pool' = pool \ {u}
    /\ UNCHANGED phase

End ==
    /\ phase = "run" /\ pool = {}
    /\ phase' = "rest"
    /\ UNCHANGED pool

Abort ==
    /\ phase = "run"
    /\ phase' = "rest"
    /\ pool' = {}

Next ==
    \/ Begin \/ End \/ Abort
    \/ \E S \in SUBSET Units : Launch(S)
    \/ \E u \in Units : Finish(u)

Spec == Init /\ [][Next]_svars
=============================================================================
