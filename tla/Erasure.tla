------------------------------ MODULE Erasure ------------------------------
(* Erasing what a tenant no longer wants: the erasure outbox and its driver *)
(* (integrations/internal/activity/erasure.go, workflow/maintenance.go),    *)
(* and everything that writes to the manifest and the object store beside   *)
(* it: the emit closure of SyncUnit and the sweep of DiscoverUnits          *)
(* (activity/activity.go), and the RPCs that hide and restore files         *)
(* (server/server.go).                                                      *)
(*                                                                          *)
(* One connection, each of its units with one artifact.  An object's key is *)
(* its content, so two artifacts may share an object.  Each statement and   *)
(* each call of the object store is one step.                               *)
EXTENDS Integers, FiniteSets

CONSTANTS
    Units,        \* the sync units of the connection
    Contents,     \* the contents an artifact can have
    NoRow,        \* not a content: the artifact has no manifest row
    PurgeBatch,   \* purgeBatch
    MaxBatches,   \* maintenanceMaxPurgeBatches
    MaxAttempts,  \* MaximumAttempts of a maintenance activity
    MaxRequests,  \* bound: requests of the user and discoveries
    MaxEmits,     \* bound: changed artifacts emitted
    MaxMishaps    \* bound: statements, activities and attempts that fail

ASSUME ContentsAssumption == NoRow \notin Contents

ASSUME UnitsAssumption == IsFiniteSet(Units)

ASSUME ErasureBoundsAssumption ==
    /\ {PurgeBatch, MaxBatches, MaxAttempts} \subseteq Nat \ {0}
    /\ {MaxRequests, MaxEmits, MaxMishaps} \subseteq Nat

VARIABLES
    deleted,    \* connector_connection.deleted_at IS NOT NULL
    unit,       \* sync_unit: selected, its status, past the grace cutoff
    row,        \* raw_artifact: object_key, deleted_at IS NOT NULL,
                \* purge_pending, deleted_at older than the SLA
    objects,    \* the object store
    storeUp,    \* the object store answers deletes
    emit,       \* per unit, the artifact SyncUnit is writing
    disconnect, \* the artifact statement the Disconnect handler is at
    sweep,      \* DiscoverUnits has tombstoned units and not marked their rows
    maint,      \* the MaintenanceWorkflow and its activity
    paged,      \* the rows the last CheckPurgeSLA reported
    requests, emits, mishaps,  \* how much of the bounds is used up
    abandoned,  \* history: objects whose pointer was replaced or never made
    rewritten   \* history: contents put or committed since the purge batch was listed

ingestion == <<emit, emits>>
connection == <<deleted, disconnect>>
history == <<abandoned, rewritten>>
vars == <<connection, unit, row, objects, storeUp, ingestion, sweep, maint, paged,
          requests, mishaps, history>>

-----------------------------------------------------------------------------
Absent == [key |-> NoRow, deleted |-> FALSE, pending |-> FALSE, overdue |-> FALSE]

NoEmit == [at |-> "idle", content |-> NoRow]

Pending(u) == row[u].pending

Mishap ==
    /\ mishaps < MaxMishaps
    /\ mishaps' = mishaps + 1

Request ==
    /\ requests < MaxRequests
    /\ requests' = requests + 1

(* A synced connection: selected units, each with its artifact, some of     *)
(* them of equal content; or the same after a disconnect.                   *)
Init ==
    /\ deleted \in BOOLEAN
    /\ unit = [u \in Units |-> [selected |-> TRUE, status |-> "live", old |-> FALSE]]
    /\ \E key \in [Units -> Contents] :
          /\ row = [u \in Units |-> [Absent EXCEPT !.key = key[u], !.deleted = deleted,
                                                   !.pending = deleted]]
          /\ objects = {key[u] : u \in Units}
    /\ storeUp = TRUE
    /\ emit = [u \in Units |-> NoEmit]
    /\ disconnect = "none"
    /\ sweep = FALSE
    /\ maint = [at |-> "sleep", batch |-> {}, confirmed |-> {}, round |-> 0, tries |-> 0]
    /\ paged = {}
    /\ requests = 0 /\ emits = 0 /\ mishaps = 0
    /\ abandoned = {}
    /\ rewritten = {}

-----------------------------------------------------------------------------
(* Hiding, restoring and marking rows.                                      *)

Hide(r) == IF r.key = NoRow \/ r.deleted THEN r
           ELSE [r EXCEPT !.deleted = TRUE, !.overdue = FALSE]

(* deleted_at = NULL; purge_pending is left as it is.                       *)
Undelete(r) == [r EXCEPT !.deleted = FALSE, !.overdue = FALSE]

(* purge_pending, deleted_at kept if it is set.  purge_deadline only orders *)
(* the purge.                                                               *)
MarkPending(r) ==
    IF r.key = NoRow \/ r.pending THEN r ELSE [Hide(r) EXCEPT !.pending = TRUE]

(* Disconnect: the connection's row first, then two statements about its    *)
(* artifacts whose failures are ignored.                                    *)
DeleteConnection ==
    /\ ~deleted /\ disconnect = "none"
    /\ Request
    /\ deleted' = TRUE
    /\ disconnect' = "hide"
    /\ UNCHANGED <<unit, row, objects, storeUp, ingestion, sweep, maint, paged, mishaps,
                   history>>

SoftDeleteConnectionArtifacts ==
    /\ disconnect = "hide"
    /\ disconnect' = "mark"
    /\ \/ row' = [u \in Units |-> Hide(row[u])] /\ UNCHANGED mishaps
       \/ Mishap /\ UNCHANGED row
    /\ UNCHANGED <<deleted, unit, objects, storeUp, ingestion, sweep, maint, paged,
                   requests, history>>

MarkConnectionArtifactsPurgePending ==
    /\ disconnect = "mark"
    /\ disconnect' = "none"
    /\ \/ row' = [u \in Units |-> MarkPending(row[u])] /\ UNCHANGED mishaps
       \/ Mishap /\ UNCHANGED row
    /\ UNCHANGED <<deleted, unit, objects, storeUp, ingestion, sweep, maint, paged,
                   requests, history>>

(* The connection is completed again: its row comes back, then its files,   *)
(* unless that statement fails.                                             *)
CompleteConnection ==
    /\ deleted
    /\ Request
    /\ deleted' = FALSE
    /\ \/ row' = [u \in Units |-> Undelete(row[u])] /\ UNCHANGED mishaps
       \/ Mishap /\ UNCHANGED row
    /\ UNCHANGED <<disconnect, unit, objects, storeUp, ingestion, sweep, maint, paged,
                   history>>

(* The files of deselected units are hidden, those of selected ones come    *)
(* back; either statement may fail.  Saving the selection touches           *)
(* updated_at of every unit, which starts its grace anew.                   *)
SelectUnitArtifacts(S) ==
    /\ ~deleted
    /\ Request
    /\ unit' = [u \in Units |->
          IF unit[u].status = "gone" THEN unit[u]
          ELSE [unit[u] EXCEPT !.selected = u \in S, !.old = FALSE]]
    /\ \E failed \in {{}, S, Units \ S} :
          /\ IF failed = {} THEN UNCHANGED mishaps ELSE Mishap
          /\ row' = [u \in Units |->
                IF unit[u].status = "gone" \/ u \in failed THEN row[u]
                ELSE IF u \in S THEN Undelete(row[u]) ELSE Hide(row[u])]
    /\ UNCHANGED <<connection, objects, storeUp, ingestion, sweep, maint, paged, history>>

-----------------------------------------------------------------------------
(* Discovery.                                                               *)

LiveUnits == {u \in Units : unit[u].status = "live"}

Degraded(S) == LiveUnits # {} /\ 2 * Cardinality(S) < Cardinality(LiveUnits)

(* The source lists S: its units are marked, a unit listed again after its  *)
(* garbage collection is a new one, and a healthy listing tombstones the    *)
(* others.                                                                  *)
DiscoverUnits(S) ==
    /\ ~deleted /\ ~sweep
    /\ Request
    /\ LET swept == IF Degraded(S) THEN {} ELSE LiveUnits \ S
       IN  /\ unit' = [u \in Units |->
                 IF u \in swept THEN [unit[u] EXCEPT !.status = "removed", !.old = FALSE]
                 ELSE IF u \notin S THEN unit[u]
                 ELSE IF unit[u].status = "gone"
                      THEN [selected |-> FALSE, status |-> "live", old |-> FALSE]
                      ELSE [unit[u] EXCEPT !.old = FALSE]]
           /\ sweep' = (swept # {})
    /\ UNCHANGED <<connection, row, objects, storeUp, ingestion, maint, paged, mishaps,
                   history>>

(* The sweep's second statement.  When it fails the activity is tried again *)
(* and then tombstones nothing, so that it is skipped.                      *)
MarkRemovedUnitArtifacts ==
    /\ sweep
    /\ sweep' = FALSE
    /\ \/ /\ row' = [u \in Units |->
                IF unit[u].status = "removed" THEN MarkPending(row[u]) ELSE row[u]]
          /\ UNCHANGED mishaps
       \/ Mishap /\ UNCHANGED row
    /\ UNCHANGED <<connection, unit, objects, storeUp, ingestion, maint, paged, requests,
                   history>>

-----------------------------------------------------------------------------
(* SyncUnit's emit closure, writing content c as unit u's artifact.         *)

SyncUnit(u, c) ==
    /\ ~deleted /\ unit[u].status = "live" /\ unit[u].selected
    /\ emit[u].at = "idle"
    /\ emits < MaxEmits
    /\ emits' = emits + 1
    /\ emit' = [emit EXCEPT ![u] = [at |-> "check", content |-> c]]
    /\ UNCHANGED <<connection, unit, row, objects, storeUp, sweep, maint, paged, requests,
                   mishaps, history>>

(* An unchanged artifact is skipped, whatever is to become of its row.      *)
Check(u) ==
    /\ emit[u].at = "check"
    /\ emit' = IF row[u].key = emit[u].content THEN [emit EXCEPT ![u] = NoEmit]
               ELSE [emit EXCEPT ![u].at = "put"]
    /\ UNCHANGED <<connection, unit, row, objects, storeUp, emits, sweep, maint, paged,
                   requests, mishaps, history>>

Put(u) ==
    /\ emit[u].at = "put"
    /\ objects' = objects \cup {emit[u].content}
    /\ rewritten' = rewritten \cup {emit[u].content}
    /\ emit' = [emit EXCEPT ![u].at = "commit"]
    /\ UNCHANGED <<connection, unit, row, storeUp, emits, sweep, maint, paged, requests,
                   mishaps, abandoned>>

(* UpsertRawArtifact: a new row, or a new key in a row that keeps its       *)
(* deletion marks.  The object the row pointed at is left behind.           *)
UpsertRawArtifact(u) ==
    /\ emit[u].at = "commit"
    /\ row' = [row EXCEPT ![u].key = emit[u].content]
    /\ abandoned' = abandoned \cup ({row[u].key} \ {NoRow})
    /\ rewritten' = rewritten \cup {emit[u].content}
    /\ emit' = [emit EXCEPT ![u] = NoEmit]
    /\ UNCHANGED <<connection, unit, objects, storeUp, emits, sweep, maint, paged,
                   requests, mishaps>>

EmitCutShort(u) ==
    /\ emit[u].at # "idle"
    /\ Mishap
    /\ abandoned' = abandoned \cup (IF emit[u].at = "commit" THEN {emit[u].content} ELSE {})
    /\ emit' = [emit EXCEPT ![u] = NoEmit]
    /\ UNCHANGED <<connection, unit, row, objects, storeUp, emits, sweep, maint, paged,
                   requests, rewritten>>

-----------------------------------------------------------------------------
(* The MaintenanceWorkflow: purge in batches, check the SLA, collect units, *)
(* sleep, continue as new.                                                  *)

maintained == <<connection, unit, storeUp, ingestion, sweep, requests>>

Wake ==
    /\ maint.at = "sleep"
    /\ maint' = [maint EXCEPT !.at = "list", !.round = 1]
    /\ UNCHANGED <<maintained, row, objects, paged, mishaps, history>>

(* ListPurgePendingArtifacts: the first PurgeBatch rows of the outbox.      *)
ListPurgePending(S) ==
    /\ maint.at = "list"
    /\ \A u \in S : Pending(u)
    /\ Cardinality(S) = PurgeBatch \/ S = {u \in Units : Pending(u)}
    /\ Cardinality(S) <= PurgeBatch
    /\ maint' = [maint EXCEPT !.at = "delete", !.confirmed = {},
                              !.batch = {[unit |-> u, key |-> row[u].key] : u \in S}]
    /\ rewritten' = {}
    /\ UNCHANGED <<maintained, row, objects, paged, mishaps, abandoned>>

(* A variant of Delete: a failed delete is confirmed too (the v0.1 bug).    *)
DeleteAssumed(e) ==
    /\ maint.at = "delete" /\ e \in maint.batch
    /\ objects' = IF storeUp THEN objects \ {e.key} ELSE objects
    /\ maint' = [maint EXCEPT !.batch = @ \ {e}, !.confirmed = @ \cup {e.unit}]
    /\ UNCHANGED <<maintained, row, paged, mishaps, history>>

(* Delete the object of one listed row; one already gone counts as deleted. *)
(* A delete that fails leaves its row for the next pass.                    *)
Delete(e) ==
    /\ maint.at = "delete" /\ e \in maint.batch
    /\ IF storeUp
       THEN /\ objects' = objects \ {e.key}
            /\ maint' = [maint EXCEPT !.batch = @ \ {e}, !.confirmed = @ \cup {e.unit}]
       ELSE /\ maint' = [maint EXCEPT !.batch = @ \ {e}]
            /\ UNCHANGED objects
    /\ UNCHANGED <<maintained, row, paged, mishaps, history>>

(* Purge again while a pass clears something, MaxBatches times at most.     *)
AfterPurge(m) ==
    IF m.confirmed = {} \/ m.round = MaxBatches
    THEN [m EXCEPT !.at = "sla", !.confirmed = {}, !.round = 0, !.tries = 0]
    ELSE [m EXCEPT !.at = "list", !.confirmed = {}, !.round = @ + 1, !.tries = 0]

(* A variant of ConfirmArtifactDeletes: only hidden rows are dropped.       *)
ConfirmHiddenDeletes ==
    LET dropped == {u \in maint.confirmed : Pending(u) /\ row[u].deleted} IN
    /\ maint.at = "delete" /\ maint.batch = {}
    /\ row' = [u \in Units |-> IF u \in dropped THEN Absent ELSE row[u]]
    /\ abandoned' = abandoned \cup ({row[u].key : u \in dropped} \cap rewritten)
    /\ maint' = AfterPurge(maint)
    /\ UNCHANGED <<maintained, objects, paged, mishaps, rewritten>>

(* ConfirmArtifactDeletes: drop the rows, by id, that are still pending.    *)
ConfirmArtifactDeletes ==
    LET dropped == {u \in maint.confirmed : Pending(u)} IN
    /\ maint.at = "delete" /\ maint.batch = {}
    /\ row' = [u \in Units |-> IF u \in dropped THEN Absent ELSE row[u]]
    /\ abandoned' = abandoned \cup ({row[u].key : u \in dropped} \cap rewritten)
    /\ maint' = AfterPurge(maint)
    /\ UNCHANGED <<maintained, objects, paged, mishaps, rewritten>>

(* A variant of CheckPurgeSLA: a row whose unit was collected is overlooked.*)
CheckPurgeSLAOfUnits ==
    /\ maint.at = "sla"
    /\ paged' = {u \in Units : /\ Pending(u) /\ row[u].deleted /\ row[u].overdue
                               /\ unit[u].status # "gone"}
    /\ maint' = [maint EXCEPT !.at = "gc", !.tries = 0]
    /\ UNCHANGED <<maintained, row, objects, mishaps, history>>

(* The rows hidden for longer than the SLA and still in the outbox.         *)
CheckPurgeSLA ==
    /\ maint.at = "sla"
    /\ paged' = {u \in Units : Pending(u) /\ row[u].deleted /\ row[u].overdue}
    /\ maint' = [maint EXCEPT !.at = "gc", !.tries = 0]
    /\ UNCHANGED <<maintained, row, objects, mishaps, history>>

(* Tombstoned units past the grace cutoff are dropped.                      *)
GCRemovedUnits ==
    /\ maint.at = "gc"
    /\ unit' = [u \in Units |->
          IF unit[u].status = "removed" /\ unit[u].old
          THEN [selected |-> FALSE, status |-> "gone", old |-> FALSE] ELSE unit[u]]
    /\ maint' = [maint EXCEPT !.at = "sleep", !.tries = 0]
    /\ UNCHANGED <<connection, row, objects, storeUp, ingestion, sweep, paged, requests,
                   mishaps, history>>

(* An activity fails, or its worker dies: it is tried again from its start, *)
(* and the workflow fails with its last attempt.                            *)
ActivityFails ==
    /\ maint.at \in {"list", "delete", "sla", "gc"}
    /\ Mishap
    /\ maint' = [maint EXCEPT !.tries = @ + 1, !.batch = {}, !.confirmed = {},
                     !.at = IF maint.tries + 1 = MaxAttempts THEN "failed"
                            ELSE IF @ = "delete" THEN "list" ELSE @]
    /\ UNCHANGED <<maintained, row, objects, paged, history>>

Maintain ==
    \/ Wake
    \/ \E S \in SUBSET Units : ListPurgePending(S)
    \/ \E e \in maint.batch : Delete(e)
    \/ ConfirmArtifactDeletes
    \/ CheckPurgeSLA
    \/ GCRemovedUnits

-----------------------------------------------------------------------------
(* Time and the object store.                                               *)

(* A unit has been 'removed' for purgeGraceDays.                            *)
CollectGraceElapses(u) ==
    /\ unit[u].status = "removed" /\ ~unit[u].old
    /\ unit' = [unit EXCEPT ![u].old = TRUE]
    /\ UNCHANGED <<connection, row, objects, storeUp, ingestion, sweep, maint, paged,
                   requests, mishaps, history>>

(* purgeSLADays have passed since deleted_at; only a row in the outbox      *)
(* tells the difference.                                                    *)
SLAElapses(u) ==
    /\ Pending(u) /\ row[u].deleted /\ ~row[u].overdue
    /\ row' = [row EXCEPT ![u].overdue = TRUE]
    /\ UNCHANGED <<maintained, objects, maint, paged, mishaps, history>>

StoreFails ==
    /\ storeUp
    /\ Mishap
    /\ storeUp' = FALSE
    /\ UNCHANGED <<connection, unit, row, objects, ingestion, sweep, maint, paged, requests,
                   history>>

StoreRecovers ==
    /\ ~storeUp
    /\ storeUp' = TRUE
    /\ UNCHANGED <<connection, unit, row, objects, ingestion, sweep, maint, paged, requests,
                   mishaps, history>>

Next ==
    \/ DeleteConnection \/ SoftDeleteConnectionArtifacts \/ MarkConnectionArtifactsPurgePending
    \/ CompleteConnection
    \/ \E S \in SUBSET Units : SelectUnitArtifacts(S) \/ DiscoverUnits(S)
    \/ MarkRemovedUnitArtifacts
    \/ \E u \in Units : \/ \E c \in Contents : SyncUnit(u, c)
                        \/ Check(u) \/ Put(u) \/ UpsertRawArtifact(u) \/ EmitCutShort(u)
    \/ Maintain \/ ActivityFails
    \/ \E u \in Units : CollectGraceElapses(u) \/ SLAElapses(u)
    \/ StoreFails \/ StoreRecovers

Spec == Init /\ [][Next]_vars

(* The maintenance workflow goes on and time passes.  Nothing is assumed of *)
(* the object store, the user or the source.                                *)
FairSpec ==
    /\ Spec
    /\ WF_vars(Maintain)
    /\ \A u \in Units : WF_vars(SLAElapses(u))

-----------------------------------------------------------------------------
Keys == Contents \cup {NoRow}

RowSet == [key : Keys, deleted : BOOLEAN, pending : BOOLEAN, overdue : BOOLEAN]

UnitSet == [selected : BOOLEAN, status : {"live", "removed", "gone"}, old : BOOLEAN]

MaintSet ==
    [at : {"sleep", "list", "delete", "sla", "gc", "failed"},
     batch : SUBSET [unit : Units, key : Contents], confirmed : SUBSET Units,
     round : 0..MaxBatches, tries : 0..MaxAttempts]

Unmarked(r) == ~r.deleted /\ ~r.pending /\ ~r.overdue

(* Every variable keeps its type, an absent row carries no marks, and the   *)
(* retries of maintenance stay within bounds.                               *)
ErasureTypeOK ==
    /\ deleted \in BOOLEAN
    /\ unit \in [Units -> UnitSet]
    /\ row \in [Units -> RowSet]
    /\ \A u \in Units : row[u].key = NoRow => Unmarked(row[u])
    /\ objects \subseteq Contents
    /\ storeUp \in BOOLEAN
    /\ emit \in [Units -> [at : {"idle", "check", "put", "commit"}, content : Keys]]
    /\ \A u \in Units : emit[u].at # "idle" => emit[u].content \in Contents
    /\ disconnect \in {"none", "hide", "mark"}
    /\ sweep \in BOOLEAN
    /\ maint \in MaintSet
    /\ maint.tries = MaxAttempts => maint.at = "failed"
    /\ paged \subseteq Units
    /\ requests \in 0..MaxRequests
    /\ emits \in 0..MaxEmits
    /\ mishaps \in 0..MaxMishaps
    /\ abandoned \subseteq Contents
    /\ rewritten \subseteq Contents

(* The outbox invariant: "never drop the pointer to un-erased bytes"        *)
(* (erasure.go:56).  Every object in the store has a manifest row, or is    *)
(* being written, or lost its pointer to an ingest that replaced it, was    *)
(* cut short, or wrote it while its row was being purged: the purge itself, *)
(* with its failures and retries, loses none.                               *)
BytesAccountedFor ==
    objects \subseteq {row[u].key : u \in Units}
                      \cup {emit[u].content : u \in {v \in Units : emit[v].at = "commit"}}
                      \cup abandoned

(* A row in the outbox leaves it, unless the object store is down or the    *)
(* maintenance workflow has failed.                                         *)
OutboxDrains ==
    \A u \in Units : Pending(u) ~> (~Pending(u) \/ ~storeUp \/ maint.at = "failed")

(* "Erasure is guaranteed-or-surfaced" (ADR-0039): whatever the object      *)
(* store does, a hidden row in the outbox is erased, restored or paged.     *)
ErasedOrPaged ==
    \A u \in Units : (Pending(u) /\ row[u].deleted) ~>
        (~Pending(u) \/ ~row[u].deleted \/ u \in paged \/ maint.at = "failed")

=============================================================================
