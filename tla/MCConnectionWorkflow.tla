------------------------ MODULE MCConnectionWorkflow ------------------------
(* Instances of ConnectionWorkflow for TLC.                                 *)
EXTENDS ConnectionWorkflow

TwoUnits == {1, 2}

(* The source lists everything.                                             *)
WholeListing == {Units}

(* The source lists everything, one unit less, or nothing.                  *)
AnyListing == {Units, Units \ {2}, {}}

SourceMishaps == {"chunk", "auth", "throttle", "failure", "crash"}
AllMishaps == SourceMishaps \cup {"timeout", "outage", "blip", "schedule"}

SyncRequests == {"trigger", "stop", "select"}
AllRequests == SyncRequests \cup {"list", "disconnect", "connect", "schedule"}

(* Small choices of mishaps and requests, for the runs about one of them.   *)
HarmlessMishaps == {"chunk", "failure", "auth", "timeout", "schedule"}
ScheduleChanges == {"trigger", "stop", "schedule"}
=============================================================================
