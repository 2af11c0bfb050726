------------------------ MODULE ConnectionWorkflow ------------------------
(* The life of one connection: the Temporal workflow that drives its syncs  *)
(* (integrations/internal/workflow/connection.go), the activities it runs   *)
(* (internal/activity/run.go, activity.go), the RPCs that signal it         *)
(* (internal/server/server.go) and the rows they share.                     *)
(*                                                                          *)
(* A step is one workflow task, one activity's database work, or one RPC's  *)
(* database write or signal.  Unit ids are numbers so that ORDER BY         *)
(* external_id is their order.  External: Temporal keeps signals until the  *)
(* workflow receives them, drops unreceived ones when an execution ends or  *)
(* continues as new, and retries an activity attempt.                       *)
EXTENDS Integers, FiniteSets

CONSTANTS
    Units,               \* external ids the source can list, ordered
    MaxP,                \* the largest batch size Capacity returns
    MaxAttempts,         \* syncCtx's MaximumAttempts
    ContinueAsNewUnits,  \* continueAsNewUnits
    RuntimeBound,        \* whether a run may outlast continueAsNewRuntime
    Observations,        \* what one listing of the source may return
    MishapKinds,         \* what may go wrong: see Mishap below
    MaxMishaps,          \* bound: how many times something goes wrong
    MaxRequests,         \* bound: how many RPCs the user makes
    RequestKinds,        \* the RPCs the user makes
    AutoSync             \* auto_sync_enabled at the start

ASSUME UnitsAssumption == Units \subseteq Nat /\ IsFiniteSet(Units)

ASSUME BoundsAssumption ==
    /\ MaxP \in Nat \ {0}
    /\ MaxAttempts \in Nat \ {0}
    /\ ContinueAsNewUnits \in Nat \ {0}
    /\ MaxMishaps \in Nat
    /\ MaxRequests \in Nat

ASSUME ChoicesAssumption ==
    /\ RuntimeBound \in BOOLEAN
    /\ AutoSync \in BOOLEAN
    /\ Observations \subseteq SUBSET Units

VARIABLES
    conn,      \* the connector_connection row: status, deleted, auto
    unit,      \* the sync_unit rows: status, selected, committed, backoff
    pc,        \* where the workflow is; "none" when no execution is running
    local,     \* the locals of ConnectionWorkflow and runConnection
    inFlight,  \* runConnection's inFlight set
    signals,   \* unreceived signals, counted per channel
    act,       \* the SyncUnit activity of each unit in flight
    orphan,    \* units an attempt still works on that Temporal gave up on
    sending,   \* signals an RPC is about to send after its database write
    requests,  \* RPCs made
    mishaps,   \* things gone wrong
    hist       \* history, read by the properties only

vars == <<conn, unit, pc, local, inFlight, signals, act, orphan, sending,
          requests, mishaps, hist>>

SignalNames == {"trigger", "stop", "disconnect", "selection", "refresh", "schedule"}

(* Sent with SignalWithStart, which starts the workflow when none runs.     *)
Restarting == {"trigger", "selection", "refresh", "schedule"}

(* The connection statuses the code writes.                                 *)
ConnStatuses == {"connected", "connected_warnings", "backfilling", "syncing",
                 "needs_reauth", "disabled", "error"}

(* "absent": discovery has not seen the unit yet, so it has no row.         *)
UnitStatuses == {"absent", "idle", "syncing", "synced", "error", "removed"}

Places == {"none", "schedule", "idle", "refresh", "refreshing", "startRun",
           "discover", "discovering", "refill", "batch", "await", "settle",
           "settling"}

NoSignals == [s \in SignalNames |-> 0]

NoActivity == [at |-> "none", attempt |-> 0]

(* The locals at the start of an execution or of a run.                     *)
FreshLocals(midRun) ==
    [midRun |-> midRun, armed |-> FALSE, p |-> 1, processed |-> 0,
     stop |-> FALSE, disconnect |-> FALSE, rerun |-> FALSE, canStop |-> FALSE,
     seen |-> "connected", verdict |-> "connected"]

Running == pc \in {"startRun", "discover", "discovering", "refill", "batch",
                   "await", "settle", "settling"}

(* A connected connection, some of whose units have been discovered and     *)
(* some of those selected; provisionConnection has started its workflow.    *)
Init ==
    /\ conn = [status |-> "connected", deleted |-> FALSE, auto |-> AutoSync]
    /\ \E known \in SUBSET Units, chosen \in SUBSET Units :
         /\ chosen \subseteq known
         /\ unit = [u \in Units |->
                      [status |-> IF u \in known THEN "idle" ELSE "absent",
                       selected |-> u \in chosen, committed |-> FALSE, backoff |-> FALSE]]
    /\ pc = "schedule"
    /\ local = FreshLocals(FALSE)
    /\ inFlight = {}
    /\ signals = NoSignals
    /\ act = [u \in Units |-> NoActivity]
    /\ orphan = {}
    /\ sending = {}
    /\ requests = 0
    /\ mishaps = 0
    /\ hist = [stopped |-> FALSE]

rows == <<conn, unit>>
execution == <<pc, local, inFlight, signals>>
activities == <<act, orphan>>
budgets == <<sending, requests, mishaps>>

(* Something outside the code's control goes wrong, at most MaxMishaps      *)
(* times.                                                                   *)
Mishap(kind) ==
    /\ kind \in MishapKinds
    /\ mishaps < MaxMishaps
    /\ mishaps' = mishaps + 1

-----------------------------------------------------------------------------
(* Temporal: ending an execution, starting one, delivering a signal.        *)

(* The execution closes.  Unreceived signals are gone; an activity attempt  *)
(* already on a worker goes on until its next heartbeat is refused.         *)
Close ==
    /\ pc' = "none"
    /\ local' = FreshLocals(FALSE)
    /\ inFlight' = {}
    /\ signals' = NoSignals
    /\ act' = [u \in Units |-> NoActivity]
    /\ orphan' = orphan \cup {u \in Units : act[u].at = "running"}
    /\ hist' = [hist EXCEPT !.stopped = FALSE]

(* NewContinueAsNewError: a new execution with a fresh history, which knows *)
(* only MidRun; the flags of the old one are not carried over.              *)
ContinueAsNew(midRun) ==
    /\ pc' = IF midRun THEN "refill" ELSE "schedule"
    /\ local' = FreshLocals(midRun)
    /\ signals' = NoSignals

(* SignalWorkflow or SignalWithStartWorkflow, depending on the signal.      *)
Deliver(s) ==
    \/ /\ pc # "none"
       /\ signals' = [signals EXCEPT ![s] = @ + 1]
       /\ UNCHANGED <<pc, local, inFlight>>
    \/ /\ pc = "none" /\ s \in Restarting
       /\ pc' = "schedule"
       /\ local' = FreshLocals(FALSE)
       /\ signals' = [NoSignals EXCEPT ![s] = 1]
       /\ UNCHANGED inFlight
    \/ /\ pc = "none" /\ s \notin Restarting
       /\ UNCHANGED execution

-----------------------------------------------------------------------------
(* The server's RPCs.  Each first loads the connection of its tenant, so it *)
(* is refused once the row is soft-deleted.                                 *)

Request(kind) ==
    /\ kind \in RequestKinds
    /\ requests < MaxRequests
    /\ requests' = requests + 1

TriggerSync ==
    /\ Request("trigger") /\ ~conn.deleted
    /\ Deliver("trigger")
    /\ UNCHANGED <<rows, activities, sending, mishaps, hist>>

StopSync ==
    /\ Request("stop") /\ ~conn.deleted
    /\ Deliver("stop")
    /\ UNCHANGED <<rows, activities, sending, mishaps, hist>>

(* Fires a best-effort RefreshCatalog before it lists the units.            *)
ListProjects ==
    /\ Request("list") /\ ~conn.deleted
    /\ Deliver("refresh")
    /\ UNCHANGED <<rows, activities, sending, mishaps, hist>>

(* DeleteConnection soft-deletes the row; the signal goes out afterwards.   *)
Disconnect ==
    /\ Request("disconnect") /\ ~conn.deleted
    /\ conn' = [conn EXCEPT !.deleted = TRUE, !.status = "disabled"]
    /\ sending' = sending \cup {"disconnect"}
    /\ UNCHANGED <<unit, execution, activities, mishaps, hist>>

(* CompleteConnection and its variants: UpsertConnection revives the row,   *)
(* then provisionConnection signals RefreshCatalog.                         *)
CompleteConnection ==
    /\ Request("connect")
    /\ conn' = [conn EXCEPT !.deleted = FALSE, !.status = "connected"]
    /\ sending' = sending \cup {"refresh"}
    /\ UNCHANGED <<unit, execution, activities, mishaps, hist>>

SetProjectSelection(chosen) ==
    /\ Request("select") /\ ~conn.deleted
    /\ unit' = [u \in Units |-> [unit[u] EXCEPT !.selected =
                   IF unit[u].status = "absent" THEN @ ELSE u \in chosen]]
    /\ sending' = sending \cup {"selection"}
    /\ UNCHANGED <<conn, execution, activities, mishaps, hist>>

UpdateSyncSchedule(enabled) ==
    /\ Request("schedule") /\ ~conn.deleted
    /\ conn' = [conn EXCEPT !.auto = enabled]
    /\ sending' = sending \cup {"schedule"}
    /\ UNCHANGED <<unit, execution, activities, mishaps, hist>>

SendSignal(s) ==
    /\ s \in sending
    /\ sending' = sending \ {s}
    /\ Deliver(s)
    /\ UNCHANGED <<rows, activities, requests, mishaps, hist>>

(* A signal sent after the database write is best effort: its failure is    *)
(* only logged.                                                             *)
SignalFails(s) ==
    /\ s \in sending
    /\ Mishap("blip")
    /\ sending' = sending \ {s}
    /\ UNCHANGED <<rows, execution, activities, requests, hist>>

-----------------------------------------------------------------------------
(* The idle loop of ConnectionWorkflow.                                     *)

(* Mutant: a failed read of the cadence arms no timer.                      *)
ReadScheduleOrSleep ==
    /\ pc = "schedule"
    /\ pc' = "idle"
    /\ \/ /\ local' = [local EXCEPT !.armed = conn.auto]
          /\ UNCHANGED mishaps
       \/ /\ Mishap("schedule")
          /\ local' = [local EXCEPT !.armed = FALSE]
    /\ UNCHANGED <<rows, inFlight, signals, activities, sending, requests, hist>>

(* GetSyncSchedule: arm the timer when auto-sync is on, and also when the   *)
(* read fails.                                                              *)
ReadSchedule ==
    /\ pc = "schedule"
    /\ pc' = "idle"
    /\ \/ /\ local' = [local EXCEPT !.armed = conn.auto]
          /\ UNCHANGED mishaps
       \/ /\ Mishap("schedule")
          /\ local' = [local EXCEPT !.armed = TRUE]
    /\ UNCHANGED <<rows, inFlight, signals, activities, sending, requests, hist>>

(* The selector receives one signal.  A disconnect ends the workflow, a     *)
(* trigger runs, a refresh discovers, and the others only wake the loop.    *)
ReceiveIdle(s) ==
    /\ pc = "idle" /\ signals[s] > 0
    /\ \/ /\ s = "disconnect"
          /\ Close
       \/ /\ s # "disconnect"
          /\ pc' = CASE s = "trigger" -> "startRun"
                     [] s = "refresh" -> "refresh"
                     [] OTHER -> "schedule"
          /\ signals' = [signals EXCEPT ![s] = @ - 1]
          /\ UNCHANGED <<local, inFlight, activities, hist>>
    /\ UNCHANGED <<rows, budgets>>

TimerFires ==
    /\ pc = "idle" /\ local.armed
    /\ pc' = "startRun"
    /\ UNCHANGED <<rows, local, inFlight, signals, activities, budgets, hist>>

-----------------------------------------------------------------------------
(* The head of a run: StartRun and DiscoverUnits.                           *)

(* startRunSQL: terminal units of the last run are to be checked again.     *)
Rearmed(u) ==
    IF unit[u].selected /\ unit[u].status \in {"synced", "error"}
    THEN [unit[u] EXCEPT !.status = "idle"]
    ELSE unit[u]

(* The units are re-armed before the connection is loaded, so they are even *)
(* when the load fails because the row is gone.                             *)
StartRun ==
    /\ pc = "startRun"
    /\ unit' = [u \in Units |-> Rearmed(u)]
    /\ \/ /\ conn.deleted
          /\ Close
          /\ UNCHANGED conn
       \/ /\ ~conn.deleted
          /\ conn' = [conn EXCEPT !.status =
                        IF @ \in {"needs_reauth", "disabled"} THEN @ ELSE "syncing"]
          /\ pc' = "discover"
          /\ local' = FreshLocals(local.midRun)
          /\ UNCHANGED <<inFlight, signals, activities, hist>>
    /\ UNCHANGED budgets

(* A failed discovery ends a run, but not an idle refresh.                  *)
DiscoveryFails ==
    IF pc \in {"discover", "discovering"}
    THEN Close
    ELSE pc' = "schedule" /\ UNCHANGED <<local, inFlight, signals, activities, hist>>

(* DiscoverUnits loads the connection and remembers its status.             *)
DiscoverLoad ==
    /\ pc \in {"discover", "refresh"}
    /\ \/ /\ conn.deleted
          /\ DiscoveryFails
       \/ /\ ~conn.deleted
          /\ local' = [local EXCEPT !.seen = conn.status]
          /\ pc' = IF pc = "discover" THEN "discovering" ELSE "refreshing"
          /\ UNCHANGED <<inFlight, signals, activities, hist>>
    /\ UNCHANGED <<rows, budgets>>

(* The source rejects the credentials: classify marks needs_reauth.         *)
DiscoverAuth ==
    /\ pc \in {"discovering", "refreshing"}
    /\ Mishap("auth")
    /\ conn' = [conn EXCEPT !.status = "needs_reauth"]
    /\ DiscoveryFails
    /\ UNCHANGED <<unit, sending, requests>>

Live == {u \in Units : unit[u].status \notin {"absent", "removed"}}

(* The degraded-discovery guard: nothing, or less than half of what was     *)
(* known.                                                                   *)
Degraded(observed) ==
    Live # {} /\ (observed = {} \/ 2 * Cardinality(observed) < Cardinality(Live))

(* The mark: a new unit gets a row, unselected; a known one keeps its       *)
(* status, a tombstoned one included.                                       *)
Marked(u, observed) ==
    IF u \in observed /\ unit[u].status = "absent"
    THEN [unit[u] EXCEPT !.status = "idle", !.selected = FALSE]
    ELSE unit[u]

(* The sweep: a live unit that was not observed is tombstoned.              *)
Swept(u, observed) ==
    IF u \in Live \ observed THEN [unit[u] EXCEPT !.status = "removed"]
    ELSE Marked(u, observed)

(* A degraded pass writes back the status it loaded, with a warning.        *)
DiscoverUnits(observed) ==
    /\ pc \in {"discovering", "refreshing"}
    /\ \/ /\ Degraded(observed)
          /\ unit' = [u \in Units |-> Marked(u, observed)]
          /\ conn' = [conn EXCEPT !.status = local.seen]
       \/ /\ ~Degraded(observed)
          /\ unit' = [u \in Units |-> Swept(u, observed)]
          /\ UNCHANGED conn
    /\ pc' = IF pc = "discovering" THEN "refill" ELSE "schedule"
    /\ UNCHANGED <<local, inFlight, signals, activities, budgets, hist>>

-----------------------------------------------------------------------------
(* The drain: a pool of at most P SyncUnit activities.                      *)

(* nextUnitBatchSQL's WHERE.                                                *)
Pending == {u \in Units : /\ unit[u].selected
                          /\ unit[u].status \in {"idle", "syncing"}
                          /\ ~unit[u].backoff}

(* ORDER BY external_id LIMIT n.                                            *)
First(n, S) == {u \in S : Cardinality({v \in S : v < u}) < n}

(* Mutant: the ids in flight are not skipped.                               *)
LaunchInFlightAgain == First(local.p - Cardinality(inFlight), First(local.p, Pending))

(* Mutant: the batch asks only for as many ids as there are free slots.     *)
LaunchFromShortBatch ==
    First(local.p - Cardinality(inFlight), Pending) \ inFlight

(* What one pass over a batch launches: the first ids not yet in flight,    *)
(* until the pool is full.                                                  *)
ToLaunch == First(local.p - Cardinality(inFlight), First(local.p, Pending) \ inFlight)

(* Mutant: settles with one unit still in flight.                           *)
SettleEarly(pool) == IF Cardinality(pool) <= 1 THEN "settle" ELSE "await"

(* Where a refill that launches no more goes.                               *)
AfterRefill(pool) == IF pool = {} THEN "settle" ELSE "await"

(* While stopping nothing is launched.  Otherwise Capacity gives P, at      *)
(* least 1.                                                                 *)
Refill ==
    /\ pc = "refill"
    /\ \/ /\ local.stop \/ local.canStop
          /\ pc' = AfterRefill(inFlight)
          /\ UNCHANGED local
       \/ /\ ~local.stop /\ ~local.canStop
          /\ \E p \in 1..MaxP :
               /\ local' = [local EXCEPT !.p = p]
               /\ pc' = IF Cardinality(inFlight) < p THEN "batch"
                        ELSE AfterRefill(inFlight)
    /\ UNCHANGED <<rows, inFlight, signals, activities, budgets, hist>>

(* One NextUnitBatch and the launches from it.  The loop asks again until   *)
(* the pool is full or a batch brings nothing new.                          *)
NextUnitBatch ==
    /\ pc = "batch"
    /\ inFlight' = inFlight \cup ToLaunch
    /\ act' = [u \in Units |-> IF u \in ToLaunch
                                THEN [at |-> "queued", attempt |-> 1] ELSE act[u]]
    /\ pc' = IF ToLaunch = {} \/ Cardinality(inFlight') >= local.p
             THEN AfterRefill(inFlight') ELSE "batch"
    /\ UNCHANGED <<rows, local, signals, orphan, budgets, hist>>

(* Mutant: the stop flag is the last poll's, not this run's.                *)
DrainedForgettingStop ==
    [local EXCEPT !.stop = signals["stop"] > 0 \/ signals["disconnect"] > 0,
                  !.disconnect = @ \/ signals["disconnect"] > 0,
                  !.rerun = @ \/ signals["trigger"] > 0]

(* Mutant: a stop is taken for a disconnect.                                *)
DrainedStopDisconnects ==
    LET stop == signals["stop"] > 0 \/ signals["disconnect"] > 0
    IN  [local EXCEPT !.stop = @ \/ stop, !.disconnect = @ \/ stop,
                      !.rerun = @ \/ signals["trigger"] > 0]

(* drainSignals: every buffered signal is received; a disconnect also       *)
(* stops; selection, refresh and schedule changes need no action here.      *)
Drained ==
    [local EXCEPT !.stop = @ \/ signals["stop"] > 0 \/ signals["disconnect"] > 0,
                  !.disconnect = @ \/ signals["disconnect"] > 0,
                  !.rerun = @ \/ signals["trigger"] > 0]

(* shouldContinueAsNew, after one more completed unit.                      *)
HistoryBound(processed, slow) == processed >= ContinueAsNewUnits \/ slow

(* The selector wakes for one finished activity: free its slot, drain the   *)
(* signals, and continue as new once a history bound has tripped and the    *)
(* pool is empty.                                                           *)
Complete(u) ==
    /\ pc = "await" /\ u \in inFlight /\ act[u].at = "finished"
    /\ inFlight' = inFlight \ {u}
    /\ act' = [act EXCEPT ![u] = NoActivity]
    /\ \E slow \in (IF RuntimeBound THEN BOOLEAN ELSE {FALSE}) :
         LET n == IF local.processed < ContinueAsNewUnits
                  THEN local.processed + 1 ELSE local.processed
             bound == local.canStop \/ HistoryBound(n, slow)
         IN  \/ /\ bound /\ inFlight' = {}
                /\ ContinueAsNew(TRUE)
             \/ /\ ~(bound /\ inFlight' = {})
                /\ local' = [Drained EXCEPT !.processed = n, !.canStop = bound]
                /\ pc' = "refill"
                /\ signals' = NoSignals
    /\ hist' = [hist EXCEPT !.stopped =
                 @ \/ signals["stop"] > 0 \/ signals["disconnect"] > 0]
    /\ UNCHANGED <<rows, orphan, budgets>>

-----------------------------------------------------------------------------
(* SettleConnection and the end of a run.                                   *)

Selected == {u \in Units : unit[u].selected /\ unit[u].status \notin {"absent", "removed"}}

Errored == {u \in Selected : unit[u].status = "error"}

Uncommitted == {u \in Selected : ~unit[u].committed}

settleStatus(total, errored, uncommitted) ==
    CASE total = 0 -> "connected"
      [] total # 0 /\ errored = total -> "error"
      [] errored < total /\ uncommitted > errored -> "backfilling"
      [] errored < total /\ uncommitted <= errored /\ errored > 0 -> "connected_warnings"
      [] OTHER -> "connected"

(* The counts, then the row: SettleConnection fails on a deleted one.       *)
SettleLoad ==
    /\ pc = "settle"
    /\ \/ /\ conn.deleted
          /\ Close
       \/ /\ ~conn.deleted
          /\ pc' = "settling"
          /\ local' = [local EXCEPT !.seen = conn.status,
                         !.verdict = settleStatus(Cardinality(Selected),
                                       Cardinality(Errored), Cardinality(Uncommitted))]
          /\ UNCHANGED <<inFlight, signals, activities, hist>>
    /\ UNCHANGED <<rows, budgets>>

(* Mutant: needs_reauth is not sticky.                                      *)
SettledRegardless == local.verdict

(* Mutant: a stopped run leaves the row as it was.                          *)
SettledUnlessStopped == IF local.stop THEN conn.status ELSE local.verdict

(* setConnectionSettled keeps a row that was loaded in needs_reauth.        *)
SettledStatus == IF local.seen = "needs_reauth" THEN conn.status ELSE local.verdict

(* The write, then: end after a disconnect, continue as new for a coalesced *)
(* trigger, end when this execution was a resumed one, or go back to the    *)
(* idle loop.                                                               *)
SettleWrite ==
    /\ pc = "settling"
    /\ conn' = [conn EXCEPT !.status = SettledStatus]
    /\ LET again == local.rerun /\ ~local.stop
       IN  \/ /\ local.disconnect
              /\ Close
           \/ /\ ~local.disconnect /\ again
              /\ ContinueAsNew(FALSE)
              /\ hist' = [hist EXCEPT !.stopped = FALSE]
              /\ UNCHANGED <<inFlight, activities>>
           \/ /\ ~local.disconnect /\ ~again /\ local.midRun
              /\ Close
           \/ /\ ~local.disconnect /\ ~again /\ ~local.midRun
              /\ pc' = "schedule"
              /\ local' = FreshLocals(FALSE)
              /\ hist' = [hist EXCEPT !.stopped = FALSE]
              /\ UNCHANGED <<inFlight, signals, activities>>
    /\ UNCHANGED <<unit, budgets>>

(* A control activity fails five times: the workflow returns its error.     *)
(* During an idle refresh it only goes back to waiting.                     *)
ControlFails ==
    /\ Mishap("outage")
    /\ \/ /\ Running /\ pc # "await"
          /\ pc = "refill" => ~local.stop /\ ~local.canStop
          /\ Close
       \/ /\ pc \in {"refresh", "refreshing"}
          /\ DiscoveryFails
    /\ UNCHANGED <<rows, sending, requests>>

-----------------------------------------------------------------------------
(* The SyncUnit activity.  One attempt loads its rows, marks the unit       *)
(* 'syncing', drains a chunk and records how that ended.                    *)

At(u, where) == act[u].at = where

Finished(u) == act' = [act EXCEPT ![u].at = "finished"]

(* A failed attempt is tried again unless it was the last one or the drain  *)
(* has been cancelled.                                                      *)
RetryOrFinish(u) ==
    IF act[u].attempt < MaxAttempts /\ ~local.stop
    THEN act' = [act EXCEPT ![u] = [at |-> "queued", attempt |-> @.attempt + 1]]
    ELSE Finished(u)

unitOnly == <<conn, execution, budgets, orphan>>

(* loadConnection, then SetUnitStatus 'syncing'.  A deleted connection      *)
(* fails the attempt before it touches the unit.                            *)
BeginSync(u) ==
    /\ At(u, "queued")
    /\ \/ /\ conn.deleted
          /\ RetryOrFinish(u)
          /\ UNCHANGED unit
       \/ /\ ~conn.deleted
          /\ act' = [act EXCEPT ![u].at = "running"]
          /\ unit' = [unit EXCEPT ![u].status = "syncing"]
    /\ UNCHANGED <<unitOnly, hist>>

(* Mutant: the unit keeps its status.                                       *)
CommittedOnly(u) ==
    /\ unit' = [unit EXCEPT ![u] = [@ EXCEPT !.committed = TRUE, !.backoff = FALSE]]
    /\ UNCHANGED <<conn, hist>>

(* The effects of the ways a drain ends, on the rows.                       *)
CaughtUp(u) ==
    /\ unit' = [unit EXCEPT ![u] = [@ EXCEPT !.status = "synced", !.committed = TRUE,
                                             !.backoff = FALSE]]
    /\ UNCHANGED <<conn, hist>>

Poisoned(u) ==
    /\ unit' = [unit EXCEPT ![u] = [@ EXCEPT !.status = "error", !.backoff = TRUE]]
    /\ UNCHANGED <<conn, hist>>

Rejected(u) ==
    /\ conn' = [conn EXCEPT !.status = "needs_reauth"]
    /\ UNCHANGED <<unit, hist>>

(* Caught up with the source: CommitUnit, 'synced', ClearUnitRetry.         *)
SyncDone(u) ==
    /\ At(u, "running")
    /\ Finished(u)
    /\ CaughtUp(u)
    /\ UNCHANGED <<execution, orphan, budgets>>

(* The chunk budget ran out: Done = false, the unit stays 'syncing'.        *)
SyncChunk(u) ==
    /\ At(u, "running") /\ Mishap("chunk")
    /\ Finished(u)
    /\ UNCHANGED <<rows, execution, orphan, sending, requests, hist>>

(* The source rejects the credentials: not retried.                         *)
SyncAuth(u) ==
    /\ At(u, "running") /\ Mishap("auth")
    /\ Finished(u)
    /\ Rejected(u)
    /\ UNCHANGED <<execution, orphan, sending, requests>>

(* Refused by the admission limiter or throttled by the source.             *)
SyncThrottled(u) ==
    /\ At(u, "running") /\ Mishap("throttle")
    /\ RetryOrFinish(u)
    /\ UNCHANGED <<rows, execution, orphan, sending, requests, hist>>

(* Any other error: SetUnitRetry backs the unit off, and the attempt is     *)
(* retried all the same.                                                    *)
SyncFails(u) ==
    /\ At(u, "running") /\ Mishap("failure")
    /\ RetryOrFinish(u)
    /\ Poisoned(u)
    /\ UNCHANGED <<execution, orphan, sending, requests>>

(* cancelDrain reaches the attempt at a chunk boundary, or before it began. *)
SyncCancelled(u) ==
    /\ At(u, "queued") \/ At(u, "running")
    /\ local.stop
    /\ Finished(u)
    /\ UNCHANGED <<rows, execution, orphan, budgets, hist>>

(* The worker dies: the attempt misses its heartbeat.                       *)
WorkerDies(u) ==
    /\ At(u, "running") /\ Mishap("crash")
    /\ RetryOrFinish(u)
    /\ UNCHANGED <<rows, execution, orphan, sending, requests, hist>>

(* The attempt misses its heartbeat but its worker is alive and goes on.    *)
MissedHeartbeat(u) ==
    /\ At(u, "running") /\ Mishap("timeout")
    /\ RetryOrFinish(u)
    /\ orphan' = orphan \cup {u}
    /\ UNCHANGED <<rows, execution, sending, requests, hist>>

(* An attempt Temporal gave up on ends, with whatever it then writes.       *)
OrphanEnds(u) ==
    /\ u \in orphan
    /\ orphan' = orphan \ {u}
    /\ \/ CaughtUp(u) /\ UNCHANGED mishaps
       \/ Poisoned(u) /\ Mishap("failure")
       \/ Rejected(u) /\ Mishap("auth")
       \/ UNCHANGED <<rows, hist, mishaps>>
    /\ UNCHANGED <<execution, act, sending, requests>>

(* next_retry_at passes.                                                    *)
BackoffElapses(u) ==
    /\ unit[u].backoff
    /\ unit' = [unit EXCEPT ![u].backoff = FALSE]
    /\ UNCHANGED <<conn, execution, activities, budgets, hist>>

-----------------------------------------------------------------------------
User ==
    \/ TriggerSync \/ StopSync \/ ListProjects \/ Disconnect \/ CompleteConnection
    \/ \E chosen \in SUBSET Units : SetProjectSelection(chosen)
    \/ \E enabled \in BOOLEAN : UpdateSyncSchedule(enabled)

Workflow ==
    \/ ReadSchedule
    \/ \E s \in SignalNames : ReceiveIdle(s)
    \/ StartRun \/ DiscoverLoad
    \/ \E observed \in Observations : DiscoverUnits(observed)
    \/ Refill \/ NextUnitBatch
    \/ \E u \in Units : Complete(u)
    \/ SettleLoad \/ SettleWrite

Attempt(u) == BeginSync(u) \/ SyncDone(u) \/ SyncCancelled(u)

Trouble ==
    \/ \E s \in SignalNames : SignalFails(s)
    \/ DiscoverAuth \/ ControlFails
    \/ \E u \in Units : \/ SyncChunk(u) \/ SyncAuth(u) \/ SyncThrottled(u)
                        \/ SyncFails(u) \/ WorkerDies(u) \/ MissedHeartbeat(u)

Next ==
    \/ User \/ Workflow \/ Trouble \/ TimerFires
    \/ \E s \in SignalNames : SendSignal(s)
    \/ \E u \in Units : Attempt(u) \/ OrphanEnds(u) \/ BackoffElapses(u)

Spec == Init /\ [][Next]_vars

(* Temporal runs a workflow task and an activity attempt that are due, an   *)
(* RPC that has written its row goes on to send its signal, an armed timer  *)
(* fires and a backoff passes.  Nothing obliges the user or the mishaps.    *)
Fairness ==
    /\ WF_vars(Workflow)
    /\ WF_vars(TimerFires)
    /\ \A s \in SignalNames : WF_vars(SendSignal(s))
    /\ \A u \in Units : WF_vars(Attempt(u)) /\ WF_vars(OrphanEnds(u))
                         /\ WF_vars(BackoffElapses(u))

FairSpec == Spec /\ Fairness

-----------------------------------------------------------------------------
(* Properties.                                                              *)

ConnRow == [status : ConnStatuses, deleted : BOOLEAN, auto : BOOLEAN]

UnitRow == [status : UnitStatuses, selected : BOOLEAN, committed : BOOLEAN,
            backoff : BOOLEAN]

Locals == [midRun : BOOLEAN, armed : BOOLEAN, p : 1..MaxP,
           processed : 0..ContinueAsNewUnits, stop : BOOLEAN, disconnect : BOOLEAN,
           rerun : BOOLEAN, canStop : BOOLEAN, seen : ConnStatuses,
           verdict : ConnStatuses]

Activity == [at : {"none", "queued", "running", "finished"}, attempt : 0..MaxAttempts]

History == [stopped : BOOLEAN]

(* Every variable has its type; an activity is attempted at most            *)
(* MaxAttempts times (syncCtx).                                             *)
TypeOK ==
    /\ conn \in ConnRow
    /\ unit \in [Units -> UnitRow]
    /\ pc \in Places
    /\ local \in Locals
    /\ inFlight \in SUBSET Units
    /\ signals \in [SignalNames -> Nat]
    /\ act \in [Units -> Activity]
    /\ orphan \in SUBSET Units
    /\ sending \in SUBSET SignalNames
    /\ requests \in 0..MaxRequests
    /\ mishaps \in 0..MaxMishaps
    /\ hist \in History

(* runConnection's inFlight set is exactly the activities Temporal still    *)
(* runs for it, never more than the largest P, and nothing is in flight     *)
(* outside the drain: no run settles, and no execution continues as new or  *)
(* waits idle, with a future abandoned.                                     *)
PoolExact ==
    /\ inFlight = {u \in Units : act[u].at # "none"}
    /\ Cardinality(inFlight) <= MaxP
    /\ pc \notin {"refill", "batch", "await"} => inFlight = {}

(* A unit in flight is never launched again: an activity under way only     *)
(* moves on, to its end or to its next attempt ("must NOT double-launch").  *)
SingleFlight ==
    [][\A u \in inFlight \cap inFlight' :
          act'[u] # act[u] =>
             \/ /\ act'[u].attempt = act[u].attempt
                /\ act[u].at # "finished" /\ act'[u].at # "queued"
             \/ act'[u].attempt = act[u].attempt + 1]_vars

(* A refill stops only when P units are in flight or no pending unit is     *)
(* left out, so a slow unit never idles the other slots, and a run that was *)
(* not stopped never settles while a unit still needs work.                 *)
WorkConserving ==
    [][pc = "batch" /\ pc' \in {"await", "settle"} =>
          Cardinality(inFlight') >= local.p \/ Pending \subseteq inFlight']_vars

(* needs_reauth is sticky: only a reconnect or a disconnect leaves it,      *)
(* whatever a run, a settle or a refresh does meanwhile.                    *)
NeedsReauthSticky ==
    [][conn.status = "needs_reauth" /\ conn'.status # "needs_reauth" =>
          CompleteConnection \/ Disconnect]_vars

(* A stop is a stop: once the drain has seen a stop or a disconnect, the    *)
(* run launches nothing more.                                               *)
StopIsAStop == [][hist.stopped => inFlight' \subseteq inFlight]_vars

(* The row of a live connection says 'syncing' only while a run is under    *)
(* way: no way out of a run strands it.                                     *)
NoStrandedSyncing == conn.status = "syncing" /\ ~conn.deleted => Running

(* A live connection with working credentials, and no RPC about to signal   *)
(* it, has a workflow to wake.                                              *)
LiveConnectionHasWorkflow ==
    ~conn.deleted /\ conn.status # "needs_reauth" /\ sending = {} => pc # "none"

(* Every run comes to rest.                                                 *)
RunSettles == Running ~> ~Running

(* While auto-sync stays on for a live connection whose credentials work,   *)
(* runs go on for ever: a failed read of the cadence, a stop or a change of *)
(* schedule never leaves the workflow without its timer.                    *)
AutoSyncGoesOn ==
    []<>(pc = "startRun" \/ ~conn.auto \/ conn.deleted \/ conn.status = "needs_reauth")

Abstract == INSTANCE SyncRun WITH phase <- IF Running THEN "run" ELSE "rest",
                                  pool <- inFlight,
                                  Pools <- {S \in SUBSET Units : Cardinality(S) <= MaxP}

(* The workflow implements SyncRun: two runs of one connection never        *)
(* overlap, a unit is in flight at most once, at most MaxP are, and a run   *)
(* comes to rest with none, across every continue-as-new.                   *)
ImplementsSyncRun == Abstract!Spec

-----------------------------------------------------------------------------
(* What the comments and documents say and the code does not always do.     *)

=============================================================================
