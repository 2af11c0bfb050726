---------------------------- MODULE SourceProofs ----------------------------
(* A source on the server and in the browser.  First the erasure of what a  *)
(* tenant no longer wants: the types of Erasure and the outbox invariant    *)
(* BytesAccountedFor, for any finite set of units, any contents, and any    *)
(* batches, retries and bounds.  Then a client of the change feed: it is    *)
(* never silently behind, whatever the rows, the queries, the number of     *)
(* streams, of writers and of faults; and what the page that manages a      *)
(* source guarantees on top of it, for any projects and any number of       *)
(* edits, saves and events.                                                 *)
EXTENDS Erasure, ManageSource, TLAPS

SoundRow(r) == r \in RowSet /\ (r.key = NoRow => Unmarked(r))

SoundEmit(e) ==
    /\ e \in [at : {"idle", "check", "put", "commit"}, content : Keys]
    /\ e.at # "idle" => e.content \in Contents

BatchSet == SUBSET [unit : Units, key : Contents]

(* The rows a purge batch holds are still as they were listed, or a content *)
(* written since is now theirs; the object of a confirmed row is gone, or   *)
(* was written again since the batch was listed.                            *)
Listed(e) == row[e.unit].key = e.key \/ row[e.unit].key \in rewritten
Erased(u) == row[u].key \notin objects \/ row[u].key \in rewritten

BatchKnown ==
    /\ \A e \in maint.batch : Listed(e)
    /\ \A u \in maint.confirmed : Erased(u)

IInv == ErasureTypeOK /\ BatchKnown /\ BytesAccountedFor

-----------------------------------------------------------------------------
(* The operators.                                                           *)

(* Hiding, restoring and marking a row change its marks, never its key.     *)
LEMMA RowOps ==
    ASSUME NEW r, SoundRow(r)
    PROVE  /\ SoundRow(Hide(r)) /\ Hide(r).key = r.key
           /\ SoundRow(Undelete(r)) /\ Undelete(r).key = r.key
           /\ SoundRow(MarkPending(r)) /\ MarkPending(r).key = r.key
<1> USE DEF SoundRow, RowSet, Unmarked
<1>1. SoundRow(Hide(r)) /\ Hide(r).key = r.key
  BY Zenon DEF Hide
<1>2. SoundRow(Undelete(r)) /\ Undelete(r).key = r.key
  BY Zenon DEF Undelete
<1>3. SoundRow(MarkPending(r)) /\ MarkPending(r).key = r.key
  BY <1>1, Zenon DEF MarkPending
<1> QED BY <1>1, <1>2, <1>3

(* An absent row and an idle emit are sound.                                *)
LEMMA Empties == SoundRow(Absent) /\ Absent.key = NoRow /\ SoundEmit(NoEmit) /\ NoEmit.at = "idle"
  BY DEF SoundRow, SoundEmit, RowSet, Unmarked, Absent, NoEmit, Keys

(* What the type of a row says, row by row.                                 *)
LEMMA SoundRows ==
    /\ ErasureTypeOK => \A u \in Units : SoundRow(row[u])
    /\ ErasureTypeOK => \A u \in Units : SoundEmit(emit[u])
  BY DEF ErasureTypeOK, SoundRow, SoundEmit

(* A table whose rows are sound has the type of one.                        *)
LEMMA RowsBuilt ==
    ASSUME NEW f, f = [u \in Units |-> f[u]], \A u \in Units : SoundRow(f[u])
    PROVE  f \in [Units -> RowSet] /\ \A u \in Units : f[u].key = NoRow => Unmarked(f[u])
  BY DEF SoundRow

(* After a purge pass nothing is confirmed, and the rest keeps its type.    *)
LEMMA AfterPurgeType ==
    ASSUME maint \in MaintSet
    PROVE  /\ AfterPurge(maint) \in MaintSet
           /\ AfterPurge(maint).batch = maint.batch /\ AfterPurge(maint).confirmed = {}
           /\ AfterPurge(maint).tries = 0
<1>1. maint.round # MaxBatches => maint.round + 1 \in 0..MaxBatches
  BY ErasureBoundsAssumption DEF MaintSet
<1>2. 0 \in 0..MaxBatches /\ 0 \in 0..MaxAttempts
  BY ErasureBoundsAssumption
<1> QED BY <1>1, <1>2, Zenon DEF AfterPurge, MaintSet

-----------------------------------------------------------------------------
(* Types.                                                                   *)

(* The types hold at the start.                                             *)
LEMMA InitType == Init => ErasureTypeOK
<1> SUFFICES ASSUME Init PROVE ErasureTypeOK
  OBVIOUS
<1>1. PICK key \in [Units -> Contents] :
          /\ row = [u \in Units |-> [Absent EXCEPT !.key = key[u], !.deleted = deleted,
                                                   !.pending = deleted]]
          /\ objects = {key[u] : u \in Units}
  BY Zenon DEF Init
<1>2. \A u \in Units : SoundRow(row[u])
  <2> SUFFICES ASSUME NEW u \in Units PROVE SoundRow(row[u])
    OBVIOUS
  <2>1. deleted \in BOOLEAN /\ key[u] \in Contents /\ key[u] # NoRow
    BY ContentsAssumption, Zenon DEF Init
  <2>2. row[u] = [Absent EXCEPT !.key = key[u], !.deleted = deleted, !.pending = deleted]
    BY <1>1, Zenon
  <2>3. row[u] = [key |-> key[u], deleted |-> deleted, pending |-> deleted, overdue |-> FALSE]
    BY <2>2, Zenon DEF Absent
  <2> QED BY <2>1, <2>3 DEF SoundRow, RowSet, Keys
<1>3. row = [u \in Units |-> row[u]]
  BY <1>1, Zenon
<1>4. row \in [Units -> RowSet] /\ \A u \in Units : row[u].key = NoRow => Unmarked(row[u])
  BY <1>2, <1>3, RowsBuilt
<1>5. unit \in [Units -> UnitSet]
  BY Zenon DEF Init, UnitSet
<1>6. maint \in MaintSet
  <2>1. maint = [at |-> "sleep", batch |-> {}, confirmed |-> {}, round |-> 0, tries |-> 0]
    BY Zenon DEF Init
  <2>2. 0 \in 0..MaxBatches /\ 0 \in 0..MaxAttempts
    BY ErasureBoundsAssumption
  <2> QED BY <2>1, <2>2 DEF MaintSet
<1>m. maint.tries # MaxAttempts
  BY ErasureBoundsAssumption, Zenon DEF Init
<1>7. \A u \in Units : SoundEmit(emit[u])
  BY Empties, Zenon DEF Init
<1>8. emit \in [Units -> [at : {"idle", "check", "put", "commit"}, content : Keys]]
  BY Empties, Zenon DEF Init, SoundEmit
<1>9. objects \subseteq Contents
  BY <1>1, Zenon
<1>10. \A u \in Units : emit[u].at # "idle" => emit[u].content \in Contents
  BY <1>7 DEF SoundEmit
<1>11. /\ deleted \in BOOLEAN /\ storeUp \in BOOLEAN /\ sweep \in BOOLEAN
       /\ disconnect = "none" /\ paged = {} /\ abandoned = {} /\ rewritten = {}
       /\ requests = 0 /\ emits = 0 /\ mishaps = 0
  BY Zenon DEF Init
<1>12. 0 \in 0..MaxRequests /\ 0 \in 0..MaxEmits /\ 0 \in 0..MaxMishaps
  BY ErasureBoundsAssumption
<1> QED BY <1>4, <1>5, <1>6, <1>8, <1>9, <1>10, <1>11, <1>12, <1>m DEF ErasureTypeOK

RowType == row \in [Units -> RowSet] /\ \A u \in Units : row[u].key = NoRow => Unmarked(row[u])

KeysStay == \A u \in Units : row'[u].key = row[u].key

(* A step that replaces every row by a sound one of the same key.           *)
LEMMA Rewritten ==
    ASSUME NEW f, row' = f, f = [u \in Units |-> f[u]],
           \A u \in Units : SoundRow(f[u]) /\ f[u].key = row[u].key
    PROVE  RowType' /\ KeysStay
  BY RowsBuilt DEF RowType, KeysStay

(* Rows keep their type; only an emit that commits and a purge that is      *)
(* confirmed change a key.                                                  *)
LEMMA ManifestKept ==
    ASSUME ErasureTypeOK, [Next]_vars
    PROVE  RowType' /\ (KeysStay \/ (\E u \in Units : UpsertRawArtifact(u)) \/ ConfirmArtifactDeletes)
<1> DEFINE Goal == RowType' /\ (KeysStay \/ (\E u \in Units : UpsertRawArtifact(u)) \/ ConfirmArtifactDeletes)
<1> SUFFICES Goal
  OBVIOUS
<1>0. row \in [Units -> RowSet] /\ RowType /\ \A u \in Units : SoundRow(row[u])
  BY SoundRows DEF ErasureTypeOK, RowType
<1>s. ASSUME row' = row PROVE Goal
  BY <1>s, <1>0 DEF RowType, KeysStay
<1>1. CASE SoftDeleteConnectionArtifacts
  <2>1. ASSUME row' = [u \in Units |-> Hide(row[u])] PROVE Goal
    BY <2>1, <1>0, RowOps, Rewritten
  <2> QED BY <1>1, <2>1, <1>s DEF SoftDeleteConnectionArtifacts
<1>2. CASE MarkConnectionArtifactsPurgePending
  <2>1. ASSUME row' = [u \in Units |-> MarkPending(row[u])] PROVE Goal
    BY <2>1, <1>0, RowOps, Rewritten
  <2> QED BY <1>2, <2>1, <1>s DEF MarkConnectionArtifactsPurgePending
<1>3. CASE CompleteConnection
  <2>1. ASSUME row' = [u \in Units |-> Undelete(row[u])] PROVE Goal
    BY <2>1, <1>0, RowOps, Rewritten
  <2> QED BY <1>3, <2>1, <1>s DEF CompleteConnection
<1>4. ASSUME NEW S \in SUBSET Units, SelectUnitArtifacts(S) PROVE Goal
  <2>1. PICK failed \in {{}, S, Units \ S} :
            row' = [u \in Units |->
                IF unit[u].status = "gone" \/ u \in failed THEN row[u]
                ELSE IF u \in S THEN Undelete(row[u]) ELSE Hide(row[u])]
    BY <1>4, Zenon DEF SelectUnitArtifacts
  <2> QED BY <2>1, <1>0, RowOps, Rewritten
<1>5. CASE MarkRemovedUnitArtifacts
  <2>1. ASSUME row' = [u \in Units |->
                IF unit[u].status = "removed" THEN MarkPending(row[u]) ELSE row[u]]
        PROVE Goal
    BY <2>1, <1>0, RowOps, Rewritten
  <2> QED BY <1>5, <2>1, <1>s DEF MarkRemovedUnitArtifacts
<1>6. ASSUME NEW u \in Units, UpsertRawArtifact(u) PROVE Goal
  <2>1. row' = [row EXCEPT ![u].key = emit[u].content] /\ emit[u].content \in Contents
    BY <1>6 DEF UpsertRawArtifact, ErasureTypeOK
  <2>2. row' = [row EXCEPT ![u] = [row[u] EXCEPT !.key = emit[u].content]]
    BY <2>1
  <2>3. SoundRow([row[u] EXCEPT !.key = emit[u].content])
    BY <2>1, <1>0, ContentsAssumption DEF SoundRow, RowSet, Keys
  <2>4. \A v \in Units : SoundRow(row'[v])
    BY <2>2, <2>3, <1>0
  <2>5. RowType'
    BY <2>2, <2>4, <1>0, RowsBuilt, Zenon DEF RowType
  <2> QED BY <2>5, <1>6
<1>7. CASE ConfirmArtifactDeletes
  <2>1. row' = [u \in Units |-> IF u \in {v \in maint.confirmed : Pending(v)} THEN Absent ELSE row[u]]
    BY <1>7 DEF ConfirmArtifactDeletes
  <2>2. \A u \in Units : SoundRow(row'[u])
    BY <2>1, <1>0, Empties
  <2>3. RowType'
    BY <2>1, <2>2, RowsBuilt DEF RowType
  <2> QED BY <2>3, <1>7
<1>8. ASSUME NEW u \in Units, SLAElapses(u) PROVE Goal
  <2>1. row' = [row EXCEPT ![u] = [row[u] EXCEPT !.overdue = TRUE]] /\ row[u].pending
    BY <1>8 DEF SLAElapses, Pending
  <2>2. SoundRow([row[u] EXCEPT !.overdue = TRUE]) /\ [row[u] EXCEPT !.overdue = TRUE].key = row[u].key
    BY <2>1, <1>0, Zenon DEF SoundRow, RowSet, Unmarked
  <2>3. row' = [v \in Units |-> row'[v]] /\ \A v \in Units : SoundRow(row'[v]) /\ row'[v].key = row[v].key
    BY <2>1, <2>2, <1>0, Zenon
  <2> QED BY <2>3, Rewritten
<1>9. CASE \/ DeleteConnection \/ \E S \in SUBSET Units : DiscoverUnits(S)
           \/ \E u \in Units : (\E c \in Contents : SyncUnit(u, c)) \/ Check(u) \/ Put(u) \/ EmitCutShort(u)
  BY <1>9, <1>s, Zenon DEF DeleteConnection, DiscoverUnits, SyncUnit, Check, Put, EmitCutShort
<1>10. CASE \/ Wake \/ (\E S \in SUBSET Units : ListPurgePending(S)) \/ (\E e \in maint.batch : Delete(e))
            \/ CheckPurgeSLA \/ GCRemovedUnits \/ ActivityFails
  BY <1>10, <1>s, Zenon DEF Wake, ListPurgePending, Delete, CheckPurgeSLA, GCRemovedUnits, ActivityFails
<1>11. CASE \/ (\E u \in Units : CollectGraceElapses(u)) \/ StoreFails \/ StoreRecovers \/ UNCHANGED vars
  BY <1>11, <1>s DEF CollectGraceElapses, StoreFails, StoreRecovers, vars
<1> HIDE DEF Goal
<1> QED BY <1>1, <1>2, <1>3, <1>4, <1>5, <1>6, <1>7, <1>8, <1>9, <1>10, <1>11 DEF Next, Maintain

EmitType ==
    /\ emit \in [Units -> [at : {"idle", "check", "put", "commit"}, content : Keys]]
    /\ \A u \in Units : emit[u].at # "idle" => emit[u].content \in Contents

(* A step that replaces one emit by a sound one.                            *)
LEMMA EmitBuilt ==
    ASSUME ErasureTypeOK, NEW u \in Units, NEW e, SoundEmit(e), emit' = [emit EXCEPT ![u] = e]
    PROVE  EmitType'
<1>1. /\ emit \in [Units -> [at : {"idle", "check", "put", "commit"}, content : Keys]]
      /\ \A v \in Units : SoundEmit(emit[v])
  BY SoundRows DEF ErasureTypeOK
<1>2. \A v \in Units : emit'[v] = (IF v = u THEN e ELSE emit[v])
  BY <1>1
<1>3. \A v \in Units : SoundEmit(emit'[v])
  BY <1>1, <1>2
<1> QED BY <1>1, <1>3, SMTT(30) DEF EmitType, SoundEmit

(* The emits keep their type.                                               *)
LEMMA EmitsKept ==
    ASSUME ErasureTypeOK, [Next]_vars
    PROVE  EmitType'
<1>s. ASSUME emit' = emit PROVE EmitType'
  BY <1>s DEF ErasureTypeOK, EmitType
<1>e. \A u \in Units : SoundEmit(emit[u])
  BY SoundRows
<1>1. ASSUME NEW u \in Units, NEW c \in Contents, SyncUnit(u, c) PROVE EmitType'
  <2>1. SoundEmit([at |-> "check", content |-> c])
    BY DEF SoundEmit, Keys
  <2> QED BY <1>1, <2>1, EmitBuilt, Zenon DEF SyncUnit
<1>2. ASSUME NEW u \in Units, Check(u) PROVE EmitType'
  <2>1. SoundEmit([emit[u] EXCEPT !.at = "put"])
    BY <1>2, <1>e DEF SoundEmit, Check
  <2>2. emit' = [emit EXCEPT ![u] = NoEmit] \/ emit' = [emit EXCEPT ![u] = [emit[u] EXCEPT !.at = "put"]]
    BY <1>2 DEF Check
  <2> QED BY <2>1, <2>2, EmitBuilt, Empties
<1>3. ASSUME NEW u \in Units, Put(u) PROVE EmitType'
  <2>1. SoundEmit([emit[u] EXCEPT !.at = "commit"])
    BY <1>3, <1>e DEF SoundEmit, Put
  <2>2. emit' = [emit EXCEPT ![u] = [emit[u] EXCEPT !.at = "commit"]]
    BY <1>3 DEF Put
  <2> QED BY <2>1, <2>2, EmitBuilt, Zenon
<1>4. ASSUME NEW u \in Units, UpsertRawArtifact(u) \/ EmitCutShort(u) PROVE EmitType'
  BY <1>4, EmitBuilt, Empties DEF UpsertRawArtifact, EmitCutShort
<1>5. CASE \/ DeleteConnection \/ SoftDeleteConnectionArtifacts \/ MarkConnectionArtifactsPurgePending
           \/ CompleteConnection \/ MarkRemovedUnitArtifacts
           \/ \E S \in SUBSET Units : SelectUnitArtifacts(S) \/ DiscoverUnits(S)
  BY <1>5, <1>s, Zenon DEF DeleteConnection, SoftDeleteConnectionArtifacts, MarkConnectionArtifactsPurgePending,
     CompleteConnection, MarkRemovedUnitArtifacts, SelectUnitArtifacts, DiscoverUnits, ingestion
<1>6. CASE Maintain \/ ActivityFails
  BY <1>6, <1>s, Zenon DEF Maintain, Wake, ListPurgePending, Delete, ConfirmArtifactDeletes, CheckPurgeSLA,
     GCRemovedUnits, ActivityFails, maintained, ingestion
<1>7. CASE \/ (\E u \in Units : CollectGraceElapses(u) \/ SLAElapses(u)) \/ StoreFails \/ StoreRecovers \/ UNCHANGED vars
  BY <1>7, <1>s, SMTT(30) DEF CollectGraceElapses, SLAElapses, StoreFails, StoreRecovers, vars, maintained, ingestion
<1> QED BY <1>1, <1>2, <1>3, <1>4, <1>5, <1>6, <1>7 DEF Next

(* The units keep their type.                                               *)
LEMMA UnitsKept ==
    ASSUME ErasureTypeOK, [Next]_vars
    PROVE  unit' \in [Units -> UnitSet]
<1>0. unit \in [Units -> UnitSet] /\ [selected |-> FALSE, status |-> "gone", old |-> FALSE] \in UnitSet
      /\ [selected |-> FALSE, status |-> "live", old |-> FALSE] \in UnitSet
  BY DEF ErasureTypeOK, UnitSet
<1>1. \A x \in UnitSet : /\ [x EXCEPT !.status = "removed", !.old = FALSE] \in UnitSet
                         /\ [x EXCEPT !.old = FALSE] \in UnitSet /\ [x EXCEPT !.old = TRUE] \in UnitSet
                         /\ \A b \in BOOLEAN : [x EXCEPT !.selected = b, !.old = FALSE] \in UnitSet
  <2> SUFFICES ASSUME NEW x \in UnitSet
               PROVE  /\ [x EXCEPT !.status = "removed", !.old = FALSE] \in UnitSet
                      /\ [x EXCEPT !.old = FALSE] \in UnitSet /\ [x EXCEPT !.old = TRUE] \in UnitSet
                      /\ \A b \in BOOLEAN : [x EXCEPT !.selected = b, !.old = FALSE] \in UnitSet
    BY Zenon
  <2>1. [x EXCEPT !.status = "removed", !.old = FALSE] \in UnitSet
    BY Zenon DEF UnitSet
  <2>2. [x EXCEPT !.old = FALSE] \in UnitSet /\ [x EXCEPT !.old = TRUE] \in UnitSet
    BY Zenon DEF UnitSet
  <2>3. \A b \in BOOLEAN : [x EXCEPT !.selected = b, !.old = FALSE] \in UnitSet
    BY Zenon DEF UnitSet
  <2> QED BY <2>1, <2>2, <2>3, Zenon
<1>2. ASSUME NEW S \in SUBSET Units, SelectUnitArtifacts(S) PROVE unit' \in [Units -> UnitSet]
  <2> DEFINE saved(u) == [unit[u] EXCEPT !.selected = u \in S, !.old = FALSE]
  <2>1. ASSUME NEW u \in Units PROVE saved(u) \in UnitSet
    <3>1. (u \in S) \in BOOLEAN
      OBVIOUS
    <3>2. PICK b \in BOOLEAN : b = (u \in S)
      BY <3>1, Zenon
    <3>3. saved(u) = [unit[u] EXCEPT !.selected = b, !.old = FALSE]
      BY <3>2, Zenon
    <3> QED BY <3>3, <1>0, <1>1, Zenon
  <2>2. unit' = [u \in Units |-> IF unit[u].status = "gone" THEN unit[u] ELSE saved(u)]
    BY <1>2, Zenon DEF SelectUnitArtifacts
  <2> HIDE DEF saved
  <2> QED BY <2>1, <2>2, <1>0
<1>3. ASSUME NEW S \in SUBSET Units, DiscoverUnits(S) PROVE unit' \in [Units -> UnitSet]
  <2> DEFINE swept == IF Degraded(S) THEN {} ELSE LiveUnits \ S
  <2>1. unit' = [u \in Units |->
                 IF u \in swept THEN [unit[u] EXCEPT !.status = "removed", !.old = FALSE]
                 ELSE IF u \notin S THEN unit[u]
                 ELSE IF unit[u].status = "gone"
                      THEN [selected |-> FALSE, status |-> "live", old |-> FALSE]
                      ELSE [unit[u] EXCEPT !.old = FALSE]]
    BY <1>3, Zenon DEF DiscoverUnits
  <2> HIDE DEF swept
  <2> QED BY <2>1, <1>0, <1>1, Zenon
<1>4. CASE GCRemovedUnits
  BY <1>4, <1>0 DEF GCRemovedUnits
<1>5. ASSUME NEW u \in Units, CollectGraceElapses(u) PROVE unit' \in [Units -> UnitSet]
  <2>1. unit' = [unit EXCEPT ![u] = [unit[u] EXCEPT !.old = TRUE]]
    BY <1>5, ZenonT(60) DEF CollectGraceElapses
  <2> QED BY <2>1, <1>0, <1>1, Zenon
<1>6. CASE \/ DeleteConnection \/ SoftDeleteConnectionArtifacts \/ MarkConnectionArtifactsPurgePending
           \/ CompleteConnection \/ MarkRemovedUnitArtifacts
           \/ \E u \in Units : \/ \E c \in Contents : SyncUnit(u, c)
                               \/ Check(u) \/ Put(u) \/ UpsertRawArtifact(u) \/ EmitCutShort(u)
  BY <1>6, <1>0, Zenon DEF DeleteConnection, SoftDeleteConnectionArtifacts, MarkConnectionArtifactsPurgePending,
     CompleteConnection, MarkRemovedUnitArtifacts, SyncUnit, Check, Put, UpsertRawArtifact, EmitCutShort
<1>7. CASE \/ Wake \/ (\E S \in SUBSET Units : ListPurgePending(S)) \/ (\E e \in maint.batch : Delete(e))
           \/ ConfirmArtifactDeletes \/ CheckPurgeSLA \/ ActivityFails
  BY <1>7, <1>0, Zenon DEF Wake, ListPurgePending, Delete, ConfirmArtifactDeletes, CheckPurgeSLA, ActivityFails, maintained
<1>8. CASE \/ (\E u \in Units : SLAElapses(u)) \/ StoreFails \/ StoreRecovers \/ UNCHANGED vars
  BY <1>8, <1>0, SMTT(30) DEF SLAElapses, StoreFails, StoreRecovers, vars, maintained
<1> QED BY <1>2, <1>3, <1>4, <1>5, <1>6, <1>7, <1>8 DEF Next, Maintain

MaintType == maint \in MaintSet /\ (maint.tries = MaxAttempts => maint.at = "failed")

(* The maintenance workflow keeps its type, and fails with its last attempt.*)
LEMMA MaintKept ==
    ASSUME ErasureTypeOK, [Next]_vars
    PROVE  MaintType'
<1>0. MaintType /\ maint \in MaintSet
  BY DEF ErasureTypeOK, MaintType
<1>b. 0 \in 0..MaxBatches /\ 1 \in 0..MaxBatches /\ 0 \in 0..MaxAttempts /\ MaxAttempts # 0
  BY ErasureBoundsAssumption
<1>s. ASSUME maint' = maint PROVE MaintType'
  BY <1>s, <1>0 DEF MaintType
<1>1. CASE Wake
  <2>1. [maint EXCEPT !.at = "list", !.round = 1] \in MaintSet
    BY <1>0, <1>b, Zenon DEF MaintSet
  <2>2. maint' = [maint EXCEPT !.at = "list", !.round = 1] /\ maint'.tries = maint.tries
    BY <1>1, <1>0 DEF Wake, MaintSet
  <2> QED BY <1>1, <2>1, <2>2, <1>0 DEF Wake, MaintType
<1>2. ASSUME NEW S \in SUBSET Units, ListPurgePending(S) PROVE MaintType'
  <2> DEFINE batch == {[unit |-> u, key |-> row[u].key] : u \in S}
  <2>1. batch \in SUBSET [unit : Units, key : Contents]
    <3>1. \A u \in S : SoundRow(row[u]) /\ row[u].pending
      BY <1>2, SoundRows DEF ListPurgePending, Pending
    <3>2. \A u \in S : row[u].key \in Contents
      BY <3>1 DEF SoundRow, RowSet, Keys, Unmarked
    <3> QED BY <3>2
  <2>2. maint.at = "list" /\ maint' = [maint EXCEPT !.at = "delete", !.confirmed = {}, !.batch = batch]
    BY <1>2 DEF ListPurgePending
  <2> HIDE DEF batch
  <2>3. maint' \in MaintSet /\ maint'.tries = maint.tries
    BY <2>1, <2>2, <1>0, Zenon DEF MaintSet
  <2> QED BY <2>2, <2>3, <1>0 DEF MaintType
<1>3. ASSUME NEW e \in maint.batch, Delete(e) PROVE MaintType'
  <2>1. e.unit \in Units /\ maint.batch \ {e} \in BatchSet /\ maint.confirmed \cup {e.unit} \in SUBSET Units
    BY <1>0 DEF MaintSet, BatchSet
  <2>2. maint.at = "delete" /\ \E c \in {maint.confirmed, maint.confirmed \cup {e.unit}} :
            maint' = [maint EXCEPT !.batch = maint.batch \ {e}, !.confirmed = c]
    <3>1. [maint EXCEPT !.batch = maint.batch \ {e}]
             = [maint EXCEPT !.batch = maint.batch \ {e}, !.confirmed = maint.confirmed]
      BY <1>0, Zenon DEF MaintSet
    <3> QED BY <1>3, <3>1 DEF Delete
  <2>3. PICK c \in SUBSET Units : maint' = [maint EXCEPT !.batch = maint.batch \ {e}, !.confirmed = c]
    BY <2>1, <2>2, <1>0, Zenon DEF MaintSet
  <2> DEFINE batch == maint.batch \ {e}
  <2>4. maint' = [maint EXCEPT !.batch = batch, !.confirmed = c]
        /\ batch \in SUBSET [unit : Units, key : Contents]
    BY <2>1, <2>3 DEF BatchSet
  <2> HIDE DEF batch
  <2>5. maint' \in MaintSet /\ maint'.tries = maint.tries
    BY <2>4, <1>0, Zenon DEF MaintSet
  <2> QED BY <2>2, <2>5, <1>0 DEF MaintType
<1>4. CASE ConfirmArtifactDeletes
  BY <1>4, <1>0, <1>b, AfterPurgeType DEF ConfirmArtifactDeletes, MaintType
<1>5. ASSUME NEW at \in {"gc", "sleep"}, maint' = [maint EXCEPT !.at = at, !.tries = 0] PROVE MaintType'
  <2>1. maint' \in MaintSet /\ maint'.tries = 0
    BY <1>5, <1>0, <1>b, Zenon DEF MaintSet
  <2> QED BY <2>1, <1>b DEF MaintType
<1>6. CASE ActivityFails
  <2> DEFINE at == IF maint.tries + 1 = MaxAttempts THEN "failed"
                   ELSE IF maint.at = "delete" THEN "list" ELSE maint.at
  <2>1. maint' = [maint EXCEPT !.tries = maint.tries + 1, !.batch = {}, !.confirmed = {}, !.at = at]
    BY <1>6 DEF ActivityFails
  <2>2. maint.tries + 1 \in 0..MaxAttempts
    BY <1>6, <1>0, ErasureBoundsAssumption DEF ActivityFails, MaintType, MaintSet
  <2>3. at \in {"sleep", "list", "delete", "sla", "gc", "failed"}
        /\ (maint.tries + 1 = MaxAttempts => at = "failed")
    BY <1>0 DEF MaintSet
  <2> HIDE DEF at
  <2>4. maint' \in MaintSet /\ maint'.tries = maint.tries + 1 /\ maint'.at = at
    BY <2>1, <2>2, <2>3, <1>0, Zenon DEF MaintSet
  <2> QED BY <2>3, <2>4 DEF MaintType
<1>7. CASE \/ DeleteConnection \/ SoftDeleteConnectionArtifacts \/ MarkConnectionArtifactsPurgePending
           \/ CompleteConnection \/ MarkRemovedUnitArtifacts
           \/ \E S \in SUBSET Units : SelectUnitArtifacts(S) \/ DiscoverUnits(S)
  BY <1>7, <1>s, Zenon DEF DeleteConnection, SoftDeleteConnectionArtifacts, MarkConnectionArtifactsPurgePending,
     CompleteConnection, MarkRemovedUnitArtifacts, SelectUnitArtifacts, DiscoverUnits
<1>8. CASE \E u \in Units : \/ \E c \in Contents : SyncUnit(u, c)
                            \/ Check(u) \/ Put(u) \/ UpsertRawArtifact(u) \/ EmitCutShort(u)
  BY <1>8, <1>s DEF SyncUnit, Check, Put, UpsertRawArtifact, EmitCutShort
<1>9. CASE \/ (\E u \in Units : CollectGraceElapses(u) \/ SLAElapses(u)) \/ StoreFails \/ StoreRecovers \/ UNCHANGED vars
  BY <1>9, <1>s DEF CollectGraceElapses, SLAElapses, StoreFails, StoreRecovers, vars, maintained
<1>10. CASE CheckPurgeSLA \/ GCRemovedUnits
  BY <1>10, <1>5 DEF CheckPurgeSLA, GCRemovedUnits
<1> QED BY <1>1, <1>2, <1>3, <1>4, <1>6, <1>7, <1>8, <1>9, <1>10 DEF Next, Maintain

PlainType ==
    /\ deleted \in BOOLEAN /\ storeUp \in BOOLEAN /\ sweep \in BOOLEAN
    /\ disconnect \in {"none", "hide", "mark"}
    /\ objects \subseteq Contents /\ abandoned \subseteq Contents /\ rewritten \subseteq Contents
    /\ paged \subseteq Units
    /\ requests \in 0..MaxRequests /\ emits \in 0..MaxEmits /\ mishaps \in 0..MaxMishaps

(* The type invariant, part by part.                                        *)
LEMMA TypeParts ==
    ErasureTypeOK <=> RowType /\ EmitType /\ unit \in [Units -> UnitSet] /\ MaintType /\ PlainType
  BY SMTT(30) DEF ErasureTypeOK, RowType, EmitType, MaintType, PlainType

(* The sets of contents and units, the flags and the counters keep theirs.  *)
LEMMA PlainKept ==
    ASSUME ErasureTypeOK, [Next]_vars
    PROVE  PlainType'
<1>0. PlainType
  BY TypeParts
<1>k. \A u \in Units : row[u].key \in Contents \cup {NoRow} /\ (emit[u].at # "idle" => emit[u].content \in Contents)
  BY SoundRows DEF SoundRow, RowSet, Keys, SoundEmit
<1>m. /\ Mishap => mishaps' \in 0..MaxMishaps
      /\ Request => requests' \in 0..MaxRequests
      /\ emits < MaxEmits => emits + 1 \in 0..MaxEmits
  BY <1>0, ErasureBoundsAssumption DEF PlainType, Mishap, Request
<1>1. CASE \/ DeleteConnection \/ SoftDeleteConnectionArtifacts \/ MarkConnectionArtifactsPurgePending
           \/ CompleteConnection
  BY <1>1, <1>0, <1>m, Zenon DEF DeleteConnection, SoftDeleteConnectionArtifacts, MarkConnectionArtifactsPurgePending,
     CompleteConnection, PlainType, ingestion, history
<1>2. ASSUME NEW S \in SUBSET Units, SelectUnitArtifacts(S) \/ DiscoverUnits(S) PROVE PlainType'
  <2>1. CASE SelectUnitArtifacts(S)
    <3>1. requests' \in 0..MaxRequests /\ mishaps' \in 0..MaxMishaps
      BY <2>1, <1>0, <1>m, Zenon DEF SelectUnitArtifacts, PlainType
    <3> QED BY <2>1, <3>1, <1>0, Zenon DEF SelectUnitArtifacts, PlainType, connection, ingestion, history
  <2>2. CASE DiscoverUnits(S)
    <3>1. requests' \in 0..MaxRequests /\ sweep' \in BOOLEAN
      BY <2>2, <1>m, Zenon DEF DiscoverUnits
    <3> QED BY <2>2, <3>1, <1>0, Zenon DEF DiscoverUnits, PlainType, connection, ingestion, history
  <2> QED BY <1>2, <2>1, <2>2
<1>3. CASE MarkRemovedUnitArtifacts
  BY <1>3, <1>0, <1>m, Zenon DEF MarkRemovedUnitArtifacts, PlainType, connection, ingestion, history
<1>4. ASSUME NEW u \in Units, \/ \E c \in Contents : SyncUnit(u, c)
                              \/ Check(u) \/ Put(u) \/ UpsertRawArtifact(u) \/ EmitCutShort(u)
      PROVE PlainType'
  <2>1. CASE \E c \in Contents : SyncUnit(u, c)
    BY <2>1, <1>0, <1>m DEF SyncUnit, PlainType, connection, history
  <2>2. CASE Check(u)
    BY <2>2, <1>0 DEF Check, PlainType, connection, history
  <2>3. CASE Put(u)
    BY <2>3, <1>0, <1>k DEF Put, PlainType, connection
  <2>4. CASE UpsertRawArtifact(u)
    BY <2>4, <1>0, <1>k, SMTT(30) DEF UpsertRawArtifact, PlainType, connection
  <2>5. CASE EmitCutShort(u)
    BY <2>5, <1>0, <1>k, <1>m DEF EmitCutShort, PlainType, connection
  <2> QED BY <1>4, <2>1, <2>2, <2>3, <2>4, <2>5, SMTT(30)
<1>5. CASE ConfirmArtifactDeletes
  <2>1. abandoned' \subseteq Contents
    BY <1>5, <1>0 DEF ConfirmArtifactDeletes, PlainType
  <2> QED BY <1>5, <2>1, <1>0 DEF ConfirmArtifactDeletes, PlainType, maintained, connection, ingestion
<1>6. CASE CheckPurgeSLA
  BY <1>6, <1>0 DEF CheckPurgeSLA, PlainType, maintained, connection, ingestion, history
<1>7. CASE Wake \/ (\E S \in SUBSET Units : ListPurgePending(S)) \/ (\E e \in maint.batch : Delete(e))
  BY <1>7, <1>0, Zenon DEF Wake, ListPurgePending, Delete, PlainType, maintained, connection, ingestion, history
<1>8. CASE GCRemovedUnits \/ ActivityFails
  BY <1>8, <1>0, <1>m DEF GCRemovedUnits, ActivityFails, PlainType, maintained, connection, ingestion, history
<1>9. CASE (\E u \in Units : CollectGraceElapses(u) \/ SLAElapses(u))
  BY <1>9, <1>0 DEF CollectGraceElapses, SLAElapses, PlainType, maintained, connection, ingestion, history
<1>10. CASE StoreFails \/ StoreRecovers \/ UNCHANGED vars
  BY <1>10, <1>0, <1>m, Zenon DEF StoreFails, StoreRecovers, PlainType, vars, connection, ingestion, history
<1> QED BY <1>1, <1>2, <1>3, <1>4, <1>5, <1>6, <1>7, <1>8, <1>9, <1>10 DEF Next, Maintain

(* Every step keeps the types.                                              *)
LEMMA TypeKept == ErasureTypeOK /\ [Next]_vars => ErasureTypeOK'
<1> SUFFICES ASSUME ErasureTypeOK, [Next]_vars PROVE ErasureTypeOK'
  OBVIOUS
<1>1. RowType' /\ EmitType' /\ unit' \in [Units -> UnitSet] /\ MaintType' /\ PlainType'
  BY ManifestKept, EmitsKept, UnitsKept, MaintKept, PlainKept
<1> QED BY <1>1 DEF ErasureTypeOK, RowType, EmitType, MaintType, PlainType

(* Every variable of the outbox, the manifest, the units and the            *)
(* maintenance workflow keeps its type: a row that is gone carries no mark, *)
(* a purge batch holds rows that exist, and the retries of an activity and  *)
(* the passes of a purge stay within their limits.                          *)
THEOREM TypeCorrect == Spec => []ErasureTypeOK
<1>1. Init => ErasureTypeOK
  BY InitType
<1>2. ErasureTypeOK /\ [Next]_vars => ErasureTypeOK'
  BY TypeKept
<1> QED BY <1>1, <1>2, PTL DEF Spec

-----------------------------------------------------------------------------
(* The outbox.                                                              *)

Accounted(c) ==
    \/ \E u \in Units : row[u].key = c
    \/ \E u \in Units : emit[u].at = "commit" /\ emit[u].content = c
    \/ c \in abandoned

(* BytesAccountedFor, object by object.                                     *)
LEMMA ByObject == BytesAccountedFor <=> \A c \in objects : Accounted(c)
  BY DEF BytesAccountedFor, Accounted

(* Nothing is in a batch yet, and every object has its row.                 *)
LEMMA InitHolds == Init => IInv
<1> SUFFICES ASSUME Init PROVE IInv
  OBVIOUS
<1>1. maint.batch = {} /\ maint.confirmed = {}
  BY Zenon DEF Init
<1>2. PICK key \in [Units -> Contents] :
          /\ row = [u \in Units |-> [Absent EXCEPT !.key = key[u], !.deleted = deleted,
                                                   !.pending = deleted]]
          /\ objects = {key[u] : u \in Units}
  BY Zenon DEF Init
<1>3. \A u \in Units : row[u].key = key[u]
  BY <1>2, Zenon DEF Absent
<1>4. ASSUME NEW c \in objects PROVE Accounted(c)
  <2>1. PICK u \in Units : c = key[u]
    BY <1>2, Zenon
  <2> QED BY <1>3, <2>1, Zenon DEF Accounted
<1> QED BY <1>1, <1>4, ByObject, InitType DEF IInv, BatchKnown

(* A step that changes no key, writes no object, keeps the emits that are   *)
(* to be committed or says they are abandoned, and lists nothing.           *)
LEMMA QuietStep ==
    ASSUME IInv, KeysStay, objects' \subseteq objects, abandoned \subseteq abandoned', rewritten \subseteq rewritten',
           maint'.batch \subseteq maint.batch, maint'.confirmed \subseteq maint.confirmed,
           \A u \in Units : emit[u].at = "commit" =>
               \/ emit'[u].at = "commit" /\ emit'[u].content = emit[u].content
               \/ emit[u].content \in abandoned'
    PROVE  BatchKnown' /\ BytesAccountedFor'
<1>1. maint.confirmed \subseteq Units /\ \A e \in maint.batch : e.unit \in Units
  BY SMTT(30) DEF IInv, ErasureTypeOK, MaintSet
<1>2. \A e \in maint'.batch : Listed(e)'
  BY <1>1, SMTT(30) DEF IInv, BatchKnown, Listed, KeysStay
<1>3. \A u \in maint'.confirmed : Erased(u)'
  BY <1>1 DEF IInv, BatchKnown, Erased, KeysStay
<1>4. \A c \in objects' : Accounted(c)'
  <2> SUFFICES ASSUME NEW c \in objects' PROVE Accounted(c)'
    OBVIOUS
  <2>1. Accounted(c)
    BY ByObject DEF IInv
  <2> QED BY <2>1 DEF Accounted, KeysStay
<1>5. BytesAccountedFor'
  BY <1>4, SMTT(30) DEF BytesAccountedFor, Accounted
<1> QED BY <1>2, <1>3, <1>5, SMTT(30) DEF BatchKnown

(* Every step keeps the invariant.                                          *)
LEMMA StepHolds == IInv /\ [Next]_vars => IInv'
<1> SUFFICES ASSUME IInv, [Next]_vars PROVE BatchKnown' /\ BytesAccountedFor'
  BY TypeKept DEF IInv
<1>t. ErasureTypeOK /\ maint \in MaintSet /\ maint.confirmed \subseteq Units
      /\ (\A e \in maint.batch : e.unit \in Units) /\ objects \subseteq Contents
  BY DEF IInv, ErasureTypeOK, MaintSet
<1>r. KeysStay \/ (\E u \in Units : UpsertRawArtifact(u)) \/ ConfirmArtifactDeletes
  BY ManifestKept, <1>t, SMTT(30)
<1>e. emit \in [Units -> [at : {"idle", "check", "put", "commit"}, content : Keys]]
  BY <1>t, SMTT(30) DEF ErasureTypeOK
<1>1. ASSUME NEW u \in Units, Put(u) PROVE BatchKnown' /\ BytesAccountedFor'
  <2> DEFINE c == emit[u].content
  <2>1. /\ objects' = objects \cup {c} /\ rewritten' = rewritten \cup {c}
        /\ row' = row /\ maint' = maint /\ abandoned' = abandoned
    BY <1>1 DEF Put
  <2>2. emit'[u].at = "commit" /\ emit'[u].content = c
    BY <1>1, <1>e DEF Put
  <2>3. \A v \in Units : emit[v].at = "commit" => emit'[v] = emit[v]
    BY <1>1, <1>e DEF Put
  <2>4. \A d \in objects' : Accounted(d)'
    BY <2>1, <2>2, <2>3, ByObject, SMTT(30) DEF IInv, Accounted
  <2>5. BatchKnown'
    BY <2>1 DEF IInv, BatchKnown, Listed, Erased
  <2> QED BY <2>4, <2>5 DEF BytesAccountedFor, Accounted
<1>2. ASSUME NEW u \in Units, UpsertRawArtifact(u) PROVE BatchKnown' /\ BytesAccountedFor'
  <2> DEFINE c == emit[u].content
  <2>1. /\ objects' = objects /\ rewritten' = rewritten \cup {c} /\ maint' = maint
        /\ abandoned' = abandoned \cup ({row[u].key} \ {NoRow})
    BY <1>2 DEF UpsertRawArtifact
  <2>2. row'[u].key = c /\ \A v \in Units \ {u} : row'[v] = row[v]
    <3>1. row \in [Units -> RowSet] /\ row' = [row EXCEPT ![u].key = c]
      BY <1>t, <1>2 DEF ErasureTypeOK, UpsertRawArtifact
    <3> QED BY <3>1 DEF RowSet
  <2>3. \A v \in Units \ {u} : emit'[v] = emit[v]
    BY <1>2, <1>e, SMTT(30) DEF UpsertRawArtifact
  <2> HIDE DEF c
  <2>4. \A d \in objects' : Accounted(d)'
    <3> SUFFICES ASSUME NEW d \in objects PROVE Accounted(d)'
      BY <2>1
    <3>1. d # NoRow /\ Accounted(d)
      BY <1>t, ByObject, ContentsAssumption, SMTT(30) DEF IInv
    <3>2. CASE \E v \in Units : row[v].key = d
      BY <3>1, <3>2, <2>1, <2>2, SMTT(30) DEF Accounted
    <3>3. CASE \E v \in Units : emit[v].at = "commit" /\ emit[v].content = d
      BY <3>3, <2>2, <2>3, SMTT(30) DEF Accounted, c
    <3>4. CASE d \in abandoned
      BY <3>4, <2>1, SMTT(30) DEF Accounted
    <3> QED BY <3>1, <3>2, <3>3, <3>4 DEF Accounted
  <2>5. BatchKnown'
    BY <2>1, <2>2, <1>t, SMTT(30) DEF IInv, BatchKnown, Listed, Erased
  <2> QED BY <2>4, <2>5 DEF BytesAccountedFor, Accounted
<1>3. CASE ConfirmArtifactDeletes
  <2> DEFINE dropped == {v \in maint.confirmed : Pending(v)}
  <2>1. /\ row' = [v \in Units |-> IF v \in dropped THEN Absent ELSE row[v]]
        /\ abandoned' = abandoned \cup ({row[v].key : v \in dropped} \cap rewritten)
        /\ objects' = objects /\ emit' = emit /\ maint.batch = {} /\ maint' = AfterPurge(maint)
    BY <1>3, SMTT(30) DEF ConfirmArtifactDeletes, maintained, ingestion
  <2>2. maint'.batch = {} /\ maint'.confirmed = {}
    BY <2>1, <1>t, AfterPurgeType
  <2>3. \A v \in dropped : row[v].key \notin objects \/ row[v].key \in rewritten
    BY SMTT(30) DEF IInv, BatchKnown, Erased
  <2> HIDE DEF dropped
  <2>4. \A d \in objects' : Accounted(d)'
    <3> SUFFICES ASSUME NEW d \in objects PROVE Accounted(d)'
      BY <2>1
    <3>1. Accounted(d)
      BY ByObject DEF IInv
    <3>2. ASSUME NEW v \in Units, row[v].key = d PROVE Accounted(d)'
      <4>1. CASE v \in dropped
        BY <4>1, <3>2, <2>1, <2>3, SMTT(30) DEF Accounted
      <4>2. CASE v \notin dropped
        BY <4>2, <3>2, <2>1, SMTT(30) DEF Accounted
      <4> QED BY <4>1, <4>2
    <3> QED BY <3>1, <3>2, <2>1, SMTT(30) DEF Accounted
  <2> QED BY <2>2, <2>4, SMTT(30) DEF BytesAccountedFor, Accounted, BatchKnown
<1>4. ASSUME NEW S \in SUBSET Units, ListPurgePending(S) PROVE BatchKnown' /\ BytesAccountedFor'
  <2>1. row' = row /\ objects' = objects /\ emit' = emit /\ abandoned' = abandoned
    BY <1>4 DEF ListPurgePending, maintained, ingestion
  <2>2. maint'.confirmed = {} /\ maint'.batch = {[unit |-> u, key |-> row[u].key] : u \in S}
    BY <1>4, <1>t, SMTT(30) DEF ListPurgePending, MaintSet
  <2>3. \A e \in maint'.batch : Listed(e)'
    BY <2>1, <2>2 DEF Listed
  <2> QED BY <2>1, <2>2, <2>3 DEF IInv, BatchKnown, BytesAccountedFor
<1>5. ASSUME NEW e \in maint.batch, Delete(e) PROVE BatchKnown' /\ BytesAccountedFor'
  <2>1. row' = row /\ emit' = emit /\ abandoned' = abandoned /\ rewritten' = rewritten
    BY <1>5 DEF Delete, maintained, ingestion, history
  <2>2. CASE ~storeUp
    <3>1. maint'.batch \subseteq maint.batch /\ maint'.confirmed = maint.confirmed /\ objects' = objects
      BY <1>5, <2>2, <1>t, SMTT(30) DEF Delete, MaintSet
    <3> QED BY <2>1, <3>1, QuietStep DEF KeysStay
  <2>3. CASE storeUp
    <3>1. /\ maint'.batch \subseteq maint.batch /\ maint'.confirmed = maint.confirmed \cup {e.unit}
          /\ objects' = objects \ {e.key}
      BY <1>5, <2>3, <1>t, ZenonT(60) DEF Delete, MaintSet
    <3>2. Listed(e)
      BY DEF IInv, BatchKnown
    <3>3. \A u \in maint'.confirmed : Erased(u)'
      BY <2>1, <3>1, <3>2, SMTT(30) DEF IInv, BatchKnown, Listed, Erased
    <3>4. \A f \in maint'.batch : Listed(f)'
      BY <2>1, <3>1, SMTT(30) DEF IInv, BatchKnown, Listed
    <3> QED BY <2>1, <3>1, <3>3, <3>4 DEF IInv, BatchKnown, BytesAccountedFor
  <2> QED BY <2>2, <2>3
<1>6. ASSUME NEW u \in Units, EmitCutShort(u) PROVE BatchKnown' /\ BytesAccountedFor'
  <2>1. objects' = objects /\ maint' = maint /\ rewritten' = rewritten /\ row' = row
        /\ abandoned \subseteq abandoned'
    BY <1>6 DEF EmitCutShort
  <2>2. \A v \in Units : emit[v].at = "commit" => emit'[v] = emit[v] \/ emit[v].content \in abandoned'
    BY <1>6, <1>e, SMTT(30) DEF EmitCutShort
  <2> QED BY <2>1, <2>2, QuietStep DEF KeysStay
<1>7. ASSUME NEW u \in Units, (\E c \in Contents : SyncUnit(u, c)) \/ Check(u)
      PROVE BatchKnown' /\ BytesAccountedFor'
  <2>1. objects' = objects /\ maint' = maint /\ rewritten' = rewritten /\ row' = row /\ abandoned' = abandoned
    BY <1>7 DEF SyncUnit, Check, history
  <2>2. \A v \in Units : emit[v].at = "commit" => emit'[v] = emit[v]
    BY <1>7, <1>e, SMTT(30) DEF SyncUnit, Check
  <2> QED BY <2>1, <2>2, QuietStep DEF KeysStay
<1>8. ASSUME KeysStay, objects' = objects, emit' = emit, abandoned' = abandoned, rewritten' = rewritten,
             maint'.batch \subseteq maint.batch, maint'.confirmed \subseteq maint.confirmed
      PROVE BatchKnown' /\ BytesAccountedFor'
  BY <1>8, QuietStep
<1>9. ASSUME KeysStay, \/ DeleteConnection \/ SoftDeleteConnectionArtifacts \/ MarkConnectionArtifactsPurgePending
                       \/ CompleteConnection \/ MarkRemovedUnitArtifacts
                       \/ \E S \in SUBSET Units : SelectUnitArtifacts(S) \/ DiscoverUnits(S)
      PROVE BatchKnown' /\ BytesAccountedFor'
  <2>1. objects' = objects /\ emit' = emit /\ abandoned' = abandoned /\ rewritten' = rewritten /\ maint' = maint
    BY <1>9, Zenon DEF DeleteConnection, SoftDeleteConnectionArtifacts, MarkConnectionArtifactsPurgePending,
       CompleteConnection, MarkRemovedUnitArtifacts, SelectUnitArtifacts, DiscoverUnits, ingestion, history
  <2> QED BY <1>9, <2>1, <1>8
<1>10. ASSUME KeysStay, Wake \/ CheckPurgeSLA \/ GCRemovedUnits \/ ActivityFails
       PROVE BatchKnown' /\ BytesAccountedFor'
  <2>1. objects' = objects /\ emit' = emit /\ abandoned' = abandoned /\ rewritten' = rewritten
    BY <1>10 DEF Wake, CheckPurgeSLA, GCRemovedUnits, ActivityFails, maintained, ingestion, history
  <2>2. maint'.batch \subseteq maint.batch /\ maint'.confirmed \subseteq maint.confirmed
    BY <1>10, <1>t, Zenon DEF Wake, CheckPurgeSLA, GCRemovedUnits, ActivityFails, MaintSet
  <2> QED BY <1>10, <2>1, <2>2, <1>8, SMTT(30)
<1>11. ASSUME KeysStay, \/ (\E u \in Units : CollectGraceElapses(u) \/ SLAElapses(u))
                        \/ StoreFails \/ StoreRecovers \/ UNCHANGED vars
       PROVE BatchKnown' /\ BytesAccountedFor'
  <2>1. objects' = objects /\ emit' = emit /\ abandoned' = abandoned /\ rewritten' = rewritten /\ maint' = maint
    BY <1>11 DEF CollectGraceElapses, SLAElapses, StoreFails, StoreRecovers, vars, maintained, ingestion, history
  <2> QED BY <1>11, <2>1, <1>8, SMTT(30)
<1> QED BY <1>r, <1>1, <1>2, <1>3, <1>4, <1>5, <1>6, <1>7, <1>9, <1>10, <1>11, SMTT(30) DEF Next, Maintain

(* "Never drop the pointer to un-erased bytes" (erasure.go:56), whatever is *)
(* listed, deleted, retried, re-ingested or restored in between, for any    *)
(* units, contents, batch sizes and failures.  The invariant behind it is   *)
(* that the object of a confirmed row is gone or has been written again     *)
(* since the batch was listed.                                              *)
THEOREM NoBytesForgotten == Spec => []BytesAccountedFor
<1>1. Init => IInv
  BY InitHolds
<1>2. IInv /\ [Next]_vars => IInv'
  BY StepHolds
<1>3. IInv => BytesAccountedFor
  BY DEF IInv
<1> QED BY <1>1, <1>2, <1>3, PTL DEF Spec

-----------------------------------------------------------------------------
(* The change feed.                                                         *)

(* The invariant, stream by stream.                                         *)
Current(s) ==
    stream[s].at = "open" =>
        \/ sees[s] = Read(s, db)
        \/ writers > 0 \/ notes \/ stream[s].signal \/ stream[s].missed

(* A stream that starts over is a stream.                                   *)
LEMMA FreshIsTyped == \A p \in Phases : Fresh(p) \in StreamStates /\ Fresh(p).at = p
BY DEF Fresh, StreamStates

(* The types are kept by every step.                                        *)
LEMMA Typed == WatchTypeOK /\ [WatchNext]_wvars => WatchTypeOK'
<1> SUFFICES ASSUME WatchTypeOK, [WatchNext]_wvars PROVE WatchTypeOK'
  OBVIOUS
<1> USE WatchAssumption
<1>1. writers' \in 0..MaxWriters
  <2>1. \/ writers' = writers
        \/ writers < MaxWriters /\ writers' = writers + 1
        \/ writers > 0 /\ writers' = writers - 1
    BY Zenon DEF WatchNext, wvars, feed, Feed, Written, WrittenUntold, FaultElsewhere, Watching, NotifyConnectionChanged,
         NotifyFails, Deliver, ListenerLost, Listen, Subscribe, Send, Reconnect, Drop
  <2> QED
    BY <2>1 DEF WatchTypeOK
<1>2. faults' \in 0..MaxFaults
  <2>1. faults' = faults \/ (faults < MaxFaults /\ faults' = faults + 1)
    BY Zenon DEF WatchNext, wvars, feed, Feed, Written, WrittenUntold, FaultElsewhere, Watching, NotifyConnectionChanged,
         NotifyFails, Deliver, ListenerLost, Listen, Subscribe, Send, Reconnect, Drop, Fault
  <2> QED
    BY <2>1 DEF WatchTypeOK
<1>3. notes' \in BOOLEAN /\ listener' \in BOOLEAN
  BY Zenon DEF WatchTypeOK, WatchNext, wvars, feed, Feed, Written, WrittenUntold, FaultElsewhere, Watching, NotifyConnectionChanged,
         NotifyFails, Deliver, ListenerLost, Listen, Subscribe, Send, Reconnect, Drop
<1>4. DOMAIN sees' = Streams
  BY Zenon DEF WatchTypeOK, WatchNext, wvars, feed, Feed, Written, WrittenUntold, FaultElsewhere, Watching, NotifyConnectionChanged,
         NotifyFails, Deliver, ListenerLost, Listen, Subscribe, Send, Reconnect, Drop
<1>5. stream' \in [Streams -> StreamStates]
  <2>1. stream \in [Streams -> StreamStates]
    BY DEF WatchTypeOK
  <2>2. Miss => stream' \in [Streams -> StreamStates]
    BY <2>1, ZenonT(60) DEF Miss, StreamStates
  <2>3. CASE NotifyConnectionChanged \/ NotifyFails \/ ListenerLost \/ WrittenUntold
    BY <2>1, <2>2, <2>3 DEF NotifyConnectionChanged, NotifyFails, ListenerLost, WrittenUntold
  <2>4. CASE Deliver
    BY <2>1, <2>4, Zenon DEF Deliver, Publish, StreamStates
  <2>5. CASE Listen \/ Written \/ FaultElsewhere \/ UNCHANGED wvars
    BY <2>1, <2>5 DEF Listen, Written, FaultElsewhere, wvars, feed
  <2>6. ASSUME NEW s \in Streams,
               Subscribe(s) \/ Send(s) \/ Reconnect(s) \/ \E why \in Reasons : Drop(s, why)
        PROVE  stream' \in [Streams -> StreamStates]
    <3>1. \A q \in StreamStates : At(s, q) => stream' \in [Streams -> StreamStates]
      BY <2>1 DEF At
    <3>2. CASE Send(s)
      <4>1. \A b \in BOOLEAN : [Fresh("open") EXCEPT !.signal = b] \in StreamStates
        BY Zenon DEF Fresh, StreamStates, Phases
      <4> QED
        BY <3>1, <3>2, <4>1, Zenon DEF Send
    <3>3. CASE Subscribe(s) \/ Reconnect(s) \/ \E why \in Reasons : Drop(s, why)
      BY <3>1, <3>3, FreshIsTyped DEF Subscribe, Reconnect, Drop, Phases
    <3> QED
      BY <2>6, <3>2, <3>3
  <2>7. CASE \E on \in SUBSET Streams : Watching(on)
    <3>1. Fresh("off") \in StreamStates /\ Fresh("connecting") \in StreamStates
      BY FreshIsTyped DEF Phases
    <3> HIDE DEF Fresh
    <3> QED
      BY <2>1, <2>7, <3>1 DEF Watching
  <2> QED
    BY <2>3, <2>4, <2>5, <2>6, <2>7 DEF WatchNext, Feed
<1> QED
  BY <1>1, <1>2, <1>3, <1>4, <1>5 DEF WatchTypeOK

(* A change that is told to nobody is remembered as missed by every stream  *)
(* of the broker.                                                           *)
LEMMA MissIsRemembered ==
    ASSUME WatchTypeOK, Miss, NEW s \in Streams, stream'[s].at = "open"
    PROVE  stream[s].at = "open" /\ stream'[s].missed
BY DEF WatchTypeOK, Miss, InBroker, StreamStates

(* What a step does to one stream.                                          *)
LEMMA StreamStep ==
    ASSUME WatchTypeOK, ShownIsCurrentOrComing, NEW s \in Streams, [WatchNext]_wvars
    PROVE  Current(s)'
<1> USE WatchAssumption
<1>0. Current(s) /\ stream \in [Streams -> StreamStates] /\ DOMAIN sees = Streams /\ writers \in Nat
  BY DEF ShownIsCurrentOrComing, Current, WatchTypeOK
<1>1. CASE Written
  <2>1. writers' > 0
    BY <1>0, <1>1 DEF Written
  <2> QED
    BY <2>1 DEF Current
<1>2. CASE NotifyConnectionChanged
  <2>1. CASE listener
    BY <1>2, <2>1, SMTT(30) DEF NotifyConnectionChanged, Current
  <2>2. CASE ~listener
    BY <1>2, <2>2, MissIsRemembered, SMTT(30) DEF NotifyConnectionChanged, Current
  <2> QED
    BY <2>1, <2>2, SMTT(30)
<1>3. CASE NotifyFails \/ WrittenUntold
  BY <1>3, MissIsRemembered DEF NotifyFails, WrittenUntold, Current
<1>4. CASE Deliver
  BY <1>0, <1>4, SMTT(30) DEF Deliver, Current, Publish, InBroker, StreamStates
<1>5. CASE ListenerLost
  <2>1. CASE notes
    BY <1>5, <2>1, MissIsRemembered, SMTT(30) DEF ListenerLost, Current
  <2>2. CASE ~notes
    BY <1>0, <1>5, <2>2, SMTT(30) DEF ListenerLost, Current
  <2> QED
    BY <2>1, <2>2
<1>6. CASE Listen \/ FaultElsewhere \/ UNCHANGED wvars
  BY <1>0, <1>6 DEF Listen, FaultElsewhere, wvars, feed, Current
<1>7. ASSUME NEW t \in Streams,
             Subscribe(t) \/ Send(t) \/ Reconnect(t) \/ \E why \in Reasons : Drop(t, why)
      PROVE  Current(s)'
  <2>1. UNCHANGED <<db, writers, notes>>
    BY <1>7, SMTT(30) DEF Subscribe, Send, Reconnect, Drop
  <2>2. CASE Send(t)
    <3>1. sees'[s] = IF s = t THEN Read(t, db) ELSE sees[s]
      BY <1>0, <2>2 DEF Send
    <3>2. s # t => stream'[s] = stream[s]
      BY <1>0, <2>2, SMTT(30) DEF Send, At
    <3> QED
      BY <1>0, <2>1, <3>1, <3>2 DEF Current
  <2>3. CASE Subscribe(t) \/ Reconnect(t) \/ \E why \in Reasons : Drop(t, why)
    <3>1. sees' = sees
      BY <2>3, SMTT(30) DEF Subscribe, Reconnect, Drop
    <3>2. stream'[s] = stream[s] \/ stream'[s].at # "open"
      BY <1>0, <2>3, SMTT(30) DEF Subscribe, Reconnect, Drop, At, Fresh
    <3> QED
      BY <1>0, <2>1, <3>1, <3>2, SMTT(30) DEF Current
  <2> QED
    BY <1>7, <2>2, <2>3
<1>8. CASE \E on \in SUBSET Streams : Watching(on) /\ UNCHANGED db
  <2>1. PICK on \in SUBSET Streams : Watching(on) /\ UNCHANGED db
    BY <1>8, SMTT(30)
  <2>2. stream'[s].at = "open" => s \in on /\ stream'[s] = stream[s]
    BY <2>1, SMTT(30) DEF Watching, Fresh
  <2>3. s \in on => sees'[s] = sees[s]
    BY <2>1 DEF Watching
  <2> QED
    BY <1>0, <2>1, <2>2, <2>3 DEF Watching, Current
<1> QED
  BY <1>1, <1>2, <1>3, <1>4, <1>5, <1>6, <1>7, <1>8, SMTT(30) DEF WatchNext, Feed

(* Subscribing before the first read, coalescing signals and notifying      *)
(* after the write leave no window (server.go 419-440 and 553-575,          *)
(* events.go 36-110): a client that shows old rows has a refresh coming, or *)
(* a notification was lost.                                                 *)
THEOREM FeedNeverSilentlyBehind == WatchSpec => []ShownIsCurrentOrComing
<1>1. WatchInit => WatchTypeOK /\ ShownIsCurrentOrComing
  <2> SUFFICES ASSUME WatchInit PROVE WatchTypeOK /\ ShownIsCurrentOrComing
    OBVIOUS
  <2>1. Fresh("off") \in StreamStates /\ Fresh("off").at # "open"
    BY DEF Fresh, StreamStates, Phases
  <2>2. WatchTypeOK
    <3>1. notes \in BOOLEAN /\ listener \in BOOLEAN
      BY Zenon DEF WatchInit
    <3> QED
      BY <2>1, <3>1, WatchAssumption DEF WatchInit, WatchTypeOK
  <2>3. ShownIsCurrentOrComing
    BY <2>1, SMTT(30) DEF WatchInit, ShownIsCurrentOrComing
  <2> QED
    BY <2>2, <2>3
<1>2. WatchTypeOK /\ ShownIsCurrentOrComing /\ [WatchNext]_wvars
        => WatchTypeOK' /\ ShownIsCurrentOrComing'
  BY Typed, StreamStep DEF ShownIsCurrentOrComing, Current
<1> QED
  BY <1>1, <1>2, PTL DEF WatchSpec

-----------------------------------------------------------------------------
(* The page that manages a source.                                          *)

ManageSpec(rows) == ManageInit(rows) /\ [][ManageNext]_mvars

(* What the user does to the panel's edits.                                 *)
Edits ==
    \/ \E p \in Projects : toggle(p)
    \/ toggleAll \/ PanelToggleAll
    \/ \E word \in Words : SearchInput(word)
    \/ setSchedEnabled
    \/ \E seconds \in Presets \cup {Custom} : ChooseFrequency(seconds)
    \/ \E value \in Halves : CustomInterval([panel.editor EXCEPT !.value = value])
    \/ \E seconds \in UNITS : CustomInterval([panel.editor EXCEPT !.unit = seconds])

(* What the user does beside them.                                          *)
Moves ==
    \/ \E to \in {"sources", "details"} : Leave(to)
    \/ \E at \in {"open", "typed", "closed"} : SetOpen(at)
    \/ \E how \in {"click", "enter"} : onConfirm(how)
    \/ Open

(* Every step of the page, the server or anybody else is one of these.      *)
LEMMA EveryStep ==
    ASSUME [ManageNext]_mvars
    PROVE  \/ UNCHANGED mvars \/ FeedStep \/ Edits \/ Moves \/ onSave
           \/ \E k \in 1..MaxSaves : SetProjectSelection(k) \/ UpdateSyncSchedule(k) \/ Answer(k)
           \/ Disconnect \/ Removed
           \/ Render \/ MountEditor \/ GraceElapses \/ Debounced \/ DiscoverSettles \/ SearchSettles
           \/ Discovery \/ Colleague
BY Zenon DEF ManageNext, User, Calls, Client, Edits, Moves

(* An edit is one of the panel, and of nothing else.                        *)
LEMMA EditsChangePanel ==
    ASSUME Edits
    PROVE  /\ Quiet /\ edits < MaxEdits /\ edits' = edits + 1
           /\ UNCHANGED <<wvars, kind, page, grace, disc, srch, saves, dialog, events>>
<1>1. \A x : Edit(x) => /\ Quiet /\ edits < MaxEdits /\ edits' = edits + 1
                        /\ UNCHANGED <<wvars, kind, page, grace, disc, srch, saves, dialog, events>>
  BY Zenon DEF Edit
<1>2. \E x : Edit(x)
  BY Zenon DEF Edits, toggle, toggleAll, PanelToggleAll, SearchInput, setSchedEnabled, ChooseFrequency, CustomInterval
<1> QED BY <1>1, <1>2, Zenon

(* What a step of the page is to the feed, unless it renders.               *)
FeedsOnly == Feed(Streams) \/ Written \/ WrittenUntold \/ FaultElsewhere \/ UNCHANGED wvars

(* Every step but a render is a step of the feed, or leaves it alone.       *)
LEMMA StepFeeds ==
    ASSUME [ManageNext]_mvars
    PROVE  FeedsOnly \/ Render
<1>0. \A rows : Write(rows) => FeedsOnly
  BY Zenon DEF FeedsOnly, Write
<1>1. CASE UNCHANGED mvars \/ MountEditor \/ GraceElapses \/ Debounced \/ SearchSettles \/ onSave
  BY <1>1, Zenon DEF mvars, MountEditor, GraceElapses, Debounced, SearchSettles, onSave, FeedsOnly
<1>2. CASE FeedStep
  BY <1>2, Zenon DEF FeedStep, FeedsOnly
<1>3. CASE Edits
  BY <1>3, EditsChangePanel, Zenon DEF FeedsOnly
<1>4. CASE Moves
  BY <1>4, Zenon DEF Moves, Leave, SetOpen, onConfirm, Open, FeedsOnly
<1>5. CASE \E k \in 1..MaxSaves : SetProjectSelection(k) \/ UpdateSyncSchedule(k) \/ Answer(k)
  BY <1>0, <1>5, Zenon DEF SetProjectSelection, UpdateSyncSchedule, Answer, FeedsOnly
<1>6. CASE Disconnect \/ Removed
  BY <1>0, <1>6, Zenon DEF Disconnect, Removed, wvars, FeedsOnly
<1>7. CASE DiscoverSettles
  BY <1>7, Zenon DEF DiscoverSettles, wvars, FeedsOnly
<1>8. CASE Discovery \/ Colleague
  BY <1>0, <1>8, Zenon DEF Discovery, Colleague, Others
<1> QED BY <1>1, <1>2, <1>3, <1>4, <1>5, <1>6, <1>7, <1>8, EveryStep, Zenon

(* The page wants no stream but the two of the source.                      *)
LEMMA WantedStreams == Wanted \in SUBSET Streams
BY ManageAssumption, Zenon DEF Wanted

(* Every step of the page is a step of the feed, or leaves it alone.        *)
LEMMA StepImplements == [ManageNext]_mvars => [WatchNext]_wvars
<1> SUFFICES ASSUME [ManageNext]_mvars PROVE WatchNext \/ UNCHANGED wvars
  OBVIOUS
<1>1. CASE FeedsOnly
  BY <1>1, Zenon DEF FeedsOnly, WatchNext
<1>2. CASE Render
  <2>1. Watching(Wanted) /\ UNCHANGED db
    BY <1>2, Zenon DEF Render
  <2> QED BY <2>1, WantedStreams, Zenon DEF WatchNext
<1> QED BY <1>1, <1>2, StepFeeds, Zenon

(* The page, with everything that writes the rows it shows, is a client of  *)
(* the change feed: the hooks it mounts and unmounts, its saves and those   *)
(* of others take no step the feed does not allow.                          *)
THEOREM PageImplementsWatch ==
    ASSUME NEW CONSTANT rows
    PROVE  ManageSpec(rows) => ImplementsWatch
<1>1. ManageInit(rows) => WatchInit
  BY Zenon DEF ManageInit
<1> QED BY <1>1, StepImplements, PTL DEF ManageSpec, ImplementsWatch, WatchSpec

(* So the page shows the rows as they are, or the change is on its way to   *)
(* it, or a notification was really lost.                                   *)
THEOREM PageNeverSilentlyBehind ==
    ASSUME NEW CONSTANT rows
    PROVE  ManageSpec(rows) => []ShownIsCurrentOrComing
BY PageImplementsWatch, FeedNeverSilentlyBehind, PTL DEF ImplementsWatch

-----------------------------------------------------------------------------
(* The rows.                                                                *)

(* A schedule that is on is within the bounds of the server.                *)
InBounds == db.on => db.every \in minSyncIntervalSeconds..maxSyncIntervalSeconds

(* The bounds of the server, the lower of them the floor of the editor.     *)
LEMMA Bounds ==
    minSyncIntervalSeconds \in Int /\ maxSyncIntervalSeconds \in Int /\ minSyncIntervalSeconds = 60
BY SMT DEF minSyncIntervalSeconds, maxSyncIntervalSeconds

(* An interval within them is not below that floor.                         *)
LEMMA BoundsAreIntervals ==
    ASSUME NEW n \in minSyncIntervalSeconds..maxSyncIntervalSeconds
    PROVE  n \in Intervals
<1>1. \A a, b \in Int : \A m \in a..b : m \in Int /\ a <= m
  BY SMT
<1>2. n \in Int /\ 60 <= n
  BY <1>1, Bounds, Zenon
<1> QED BY <1>2, SMT DEF Intervals, MIN_SECONDS

(* Rows that keep the schedule, and the source onboarded if it was.         *)
KeepsSchedule(r) ==
    r \in Rows /\ (db.onboarded => r.onboarded) /\ r.on = db.on /\ r.every = db.every

(* What a selection, discovery and a deletion leave of the rows.            *)
LEMMA RowEdits ==
    ASSUME db \in Rows
    PROVE  /\ \A S \in SUBSET Projects :
                 /\ KeepsSchedule([db EXCEPT !.list = [db.list EXCEPT !.sel = S]])
                 /\ KeepsSchedule([[db EXCEPT !.list = [db.list EXCEPT !.sel = S]] EXCEPT !.onboarded = TRUE])
                 /\ [[db EXCEPT !.list = [db.list EXCEPT !.sel = S]] EXCEPT !.onboarded = TRUE].onboarded = TRUE
                 /\ KeepsSchedule([db EXCEPT !.list = [db.list EXCEPT !.sel = S], !.onboarded = TRUE])
           /\ KeepsSchedule([db EXCEPT !.exists = FALSE, !.list = NoList])
           /\ \A p \in Projects, u \in UnitStates : KeepsSchedule([db EXCEPT !.list = [db.list EXCEPT !.unit = [db.list.unit EXCEPT ![p] = u]]])
           /\ KeepsSchedule([db EXCEPT !.discovered = TRUE])
<1>1. /\ db.exists \in BOOLEAN /\ db.onboarded \in BOOLEAN /\ db.discovered \in BOOLEAN
      /\ db.on \in BOOLEAN /\ db.every \in Intervals /\ db.list \in Lists
  BY DEF Rows
<1>2. \A S \in SUBSET Projects : KeepsSchedule([db EXCEPT !.list = [db.list EXCEPT !.sel = S]])
  BY <1>1 DEF Rows, Lists, KeepsSchedule
<1>3. \A S \in SUBSET Projects :
         /\ KeepsSchedule([[db EXCEPT !.list = [db.list EXCEPT !.sel = S]] EXCEPT !.onboarded = TRUE])
         /\ [[db EXCEPT !.list = [db.list EXCEPT !.sel = S]] EXCEPT !.onboarded = TRUE].onboarded = TRUE
  BY <1>1, Zenon DEF Rows, Lists, KeepsSchedule
<1>4. \A S \in SUBSET Projects : KeepsSchedule([db EXCEPT !.list = [db.list EXCEPT !.sel = S], !.onboarded = TRUE])
  BY <1>1, Zenon DEF Rows, Lists, KeepsSchedule
<1>5. KeepsSchedule([db EXCEPT !.exists = FALSE, !.list = NoList])
  <2>1. NoList \in Lists
    BY DEF NoList, Lists, UnitStates
  <2> QED BY <1>1, <2>1, ZenonT(60) DEF Rows, KeepsSchedule
<1>6. \A p \in Projects, u \in UnitStates : KeepsSchedule([db EXCEPT !.list = [db.list EXCEPT !.unit = [db.list.unit EXCEPT ![p] = u]]])
  BY <1>1 DEF Rows, Lists, KeepsSchedule
<1>7. KeepsSchedule([db EXCEPT !.discovered = TRUE])
  BY <1>1, Zenon DEF Rows, KeepsSchedule
<1> QED BY <1>2, <1>3, <1>4, <1>5, <1>6, <1>7, Zenon

(* The steps that leave the rows alone.                                     *)
LEMMA RowsStand ==
    ASSUME \/ UNCHANGED mvars \/ FeedStep \/ Edits \/ Moves \/ onSave
           \/ (\E k \in 1..MaxSaves : Answer(k)) \/ Removed
           \/ Render \/ MountEditor \/ GraceElapses \/ Debounced \/ DiscoverSettles \/ SearchSettles
    PROVE  db' = db
<1>1. CASE UNCHANGED mvars \/ MountEditor \/ GraceElapses \/ Debounced \/ SearchSettles \/ onSave
  BY <1>1, Zenon DEF mvars, wvars, MountEditor, GraceElapses, Debounced, SearchSettles, onSave
<1>2. CASE FeedStep
  BY <1>2, Zenon DEF FeedStep, Feed, NotifyConnectionChanged, NotifyFails, Deliver, ListenerLost, Listen,
                     Subscribe, Send, Reconnect, Drop
<1>3. CASE Edits
  BY <1>3, EditsChangePanel, Zenon DEF wvars
<1>4. CASE Moves
  BY <1>4, Zenon DEF Moves, Leave, SetOpen, onConfirm, Open, wvars
<1>5. CASE (\E k \in 1..MaxSaves : Answer(k)) \/ Removed \/ Render \/ DiscoverSettles
  BY <1>5, Zenon DEF Answer, Removed, Render, DiscoverSettles, FaultElsewhere, wvars
<1> QED BY <1>1, <1>2, <1>3, <1>4, <1>5, Zenon

(* SetProjectSelection stores the projects it was asked for, and marks the  *)
(* source onboarded before it answers.                                      *)
LEMMA SelectionRows ==
    ASSUME TypeOK, NEW k \in 1..MaxSaves, SetProjectSelection(k)
    PROVE  /\ KeepsSchedule(db') \/ db' = db
           /\ \/ Settle(k, [saves[k] EXCEPT !.sel = "stored"]) /\ db'.onboarded = TRUE
              \/ Settle(k, [saves[k] EXCEPT !.sel = "err"])
           /\ saves[k].sel = "sent"
<1> DEFINE S == Known(db.list) \cap saves[k].ids
<1>1. S \in SUBSET Projects /\ db \in Rows
  BY Zenon DEF Known, TypeOK
<1>2. \/ db' = [[db EXCEPT !.list = [db.list EXCEPT !.sel = S]] EXCEPT !.onboarded = TRUE] /\ Settle(k, [saves[k] EXCEPT !.sel = "stored"])
      \/ db' = [db EXCEPT !.list = [db.list EXCEPT !.sel = S]] /\ Settle(k, [saves[k] EXCEPT !.sel = "err"])
      \/ db' = db /\ Settle(k, [saves[k] EXCEPT !.sel = "err"])
  BY Zenon DEF SetProjectSelection, Write, wvars
<1>3. saves[k].sel = "sent"
  BY Zenon DEF SetProjectSelection
<1> HIDE DEF S
<1> QED BY <1>1, <1>2, <1>3, RowEdits, Zenon

(* UpdateSyncSchedule stores a schedule within the bounds, or fails.        *)
LEMMA ScheduleRows ==
    ASSUME TypeOK, InBounds, NEW k \in 1..MaxSaves, UpdateSyncSchedule(k)
    PROVE  /\ db' \in Rows /\ (db.onboarded => db'.onboarded) /\ InBounds'
           /\ \/ Settle(k, [saves[k] EXCEPT !.sched = "stored"])
              \/ Settle(k, [saves[k] EXCEPT !.sched = "err"])
           /\ saves[k].sched = "sent"
<1>1. db \in Rows /\ saves[k] \in SaveStates
  BY SMTT(30) DEF TypeOK
<1>2. saves[k].on \in BOOLEAN /\ saves[k].every \in Intervals
  BY <1>1 DEF SaveStates
<1>3. CASE /\ db' = [db EXCEPT !.on = saves[k].on, !.every = saves[k].every]
           /\ saves[k].on => saves[k].every \in minSyncIntervalSeconds..maxSyncIntervalSeconds
           /\ Settle(k, [saves[k] EXCEPT !.sched = "stored"])
  <2>1. db' \in Rows /\ db'.onboarded = db.onboarded /\ db'.on = saves[k].on /\ db'.every = saves[k].every
    <3>1. PICK b \in BOOLEAN : b = saves[k].on
      BY <1>2, Zenon
    <3>2. PICK n \in Intervals : n = saves[k].every
      BY <1>2, Zenon
    <3>3. db' = [db EXCEPT !.on = b, !.every = n]
      BY <1>3, <3>1, <3>2, Zenon
    <3>4. db' \in Rows /\ db'.onboarded = db.onboarded /\ db'.on = b /\ db'.every = n
      BY <1>1, <3>3, Zenon DEF Rows
    <3> QED BY <3>1, <3>2, <3>4, Zenon
  <2> QED BY <1>3, <2>1, Zenon DEF InBounds, UpdateSyncSchedule
<1>4. CASE db' = db /\ Settle(k, [saves[k] EXCEPT !.sched = "err"])
  BY <1>1, <1>4, Zenon DEF InBounds, UpdateSyncSchedule
<1> QED BY <1>3, <1>4, Zenon DEF UpdateSyncSchedule, Write, wvars

(* The rows keep their type and their bounds, and an onboarded source stays *)
(* onboarded.                                                               *)
LEMMA RowsKept ==
    ASSUME TypeOK, InBounds, [ManageNext]_mvars
    PROVE  db' \in Rows /\ (db.onboarded => db'.onboarded) /\ InBounds'
<1>0. db \in Rows
  BY Zenon DEF TypeOK
<1>1. ASSUME KeepsSchedule(db') \/ db' = db
      PROVE  db' \in Rows /\ (db.onboarded => db'.onboarded) /\ InBounds'
  BY <1>0, <1>1, Zenon DEF KeepsSchedule, InBounds
<1>2. CASE \E k \in 1..MaxSaves : SetProjectSelection(k)
  BY <1>1, <1>2, SelectionRows, Zenon
<1>3. CASE \E k \in 1..MaxSaves : UpdateSyncSchedule(k)
  BY <1>3, ScheduleRows, Zenon
<1>4. CASE Disconnect
  BY <1>0, <1>1, <1>4, RowEdits, Zenon DEF Disconnect, Write, wvars
<1>5. CASE Discovery
  <2>1. CASE \E p \in Projects, u \in UnitStates :
                db' = [db EXCEPT !.list = [db.list EXCEPT !.unit = [db.list.unit EXCEPT ![p] = u]]]
    BY <1>0, <1>1, <2>1, RowEdits, Zenon
  <2>2. CASE db' = [db EXCEPT !.discovered = TRUE]
    BY <1>0, <1>1, <2>2, RowEdits, Zenon
  <2>3. UnitStates \ {"absent"} \subseteq UnitStates
    BY Zenon
  <2> QED BY <1>5, <2>1, <2>2, <2>3, Zenon DEF Discovery, Others, Write
<1>6. CASE Colleague
  <2>1. CASE \E ids \in SUBSET Known(db.list) : db' = [db EXCEPT !.list = [db.list EXCEPT !.sel = ids], !.onboarded = TRUE]
    <3>1. Known(db.list) \in SUBSET Projects
      BY Zenon DEF Known
    <3> QED BY <1>0, <1>1, <2>1, <3>1, RowEdits, Zenon
  <2>2. CASE \E seconds \in Presets : db' = [db EXCEPT !.on = ~@, !.every = seconds]
    <3>1. PICK seconds \in Presets : db' = [db EXCEPT !.on = ~db.on, !.every = seconds]
      BY <2>2, Zenon
    <3>2. seconds \in minSyncIntervalSeconds..maxSyncIntervalSeconds
      BY ScheduleAssumption, Zenon
    <3>3. seconds \in Intervals
      BY <3>2, BoundsAreIntervals, Zenon
    <3>4. (~db.on) \in BOOLEAN
      BY Zenon
    <3>5. PICK b \in BOOLEAN : b = ~db.on
      BY <3>4, Zenon
    <3>6. db' = [db EXCEPT !.on = b, !.every = seconds]
      BY <3>1, <3>5, Zenon
    <3>7. db' \in Rows /\ db'.onboarded = db.onboarded /\ db'.every = seconds
      BY <1>0, <3>3, <3>6, Zenon DEF Rows
    <3> QED BY <3>2, <3>7, Zenon DEF InBounds
  <2>3. CASE db' = [db EXCEPT !.exists = FALSE, !.list = NoList]
    BY <1>0, <1>1, <2>3, RowEdits, Zenon
  <2> QED BY <1>6, <2>1, <2>2, <2>3, Zenon DEF Colleague, Others, Write
<1> QED BY <1>1, <1>2, <1>3, <1>4, <1>5, <1>6, RowsStand, EveryStep, Zenon

-----------------------------------------------------------------------------
(* The schedule editor.                                                     *)

(* Rounding gives back a natural number, and a whole number of seconds that *)
(* was doubled.                                                             *)
LEMMA Rounded ==
    /\ \A n \in Nat : Round(n, 60) \in Nat /\ Round(n, 2) \in Nat
    /\ \A n \in Nat : Round(2 * n, 2) = n
    /\ Round(0, 2) = 0
BY SMT DEF Round

(* A unit that divides an interval measures it.                             *)
LEMMA Divides ==
    ASSUME NEW n \in Nat, NEW u \in UNITS
    PROVE  /\ n \div u \in Nat
           /\ n % u = 0 => (2 * (n \div u)) * u = 2 * n
<1>1. CASE u = 60
  BY <1>1, SMT
<1>2. CASE u = 3600
  BY <1>2, SMT
<1>3. CASE u = 86400
  BY <1>3, SMT
<1> QED BY <1>1, <1>2, <1>3, SMT DEF UNITS

(* Among the units that divide an interval there is a largest.              *)
LEMMA LargestUnit ==
    ASSUME NEW E \in SUBSET UNITS, E # {}
    PROVE  (CHOOSE u \in E : \A v \in E : v <= u) \in E
<1>1. \E u \in E : \A v \in E : v <= u
  <2>1. CASE 86400 \in E
    BY <2>1, SMT DEF UNITS
  <2>2. CASE 86400 \notin E /\ 3600 \in E
    BY <2>2, SMT DEF UNITS
  <2>3. CASE 86400 \notin E /\ 3600 \notin E
    <3>1. \A v \in E : v = 60
      BY <2>3, SMT DEF UNITS
    <3>2. \A v \in E : v <= 60
      BY <3>1, SMT
    <3>3. 60 \in E
      BY <3>1, Zenon
    <3> QED BY <3>2, <3>3, Zenon
  <2> QED BY <2>1, <2>2, <2>3
<1> QED BY <1>1, Zenon

(* decompose shows an interval of whole minutes as it is.                   *)
LEMMA Decomposed ==
    ASSUME NEW n \in Nat
    PROVE  /\ decompose(n).value \in Nat /\ decompose(n).unit \in UNITS
           /\ n % 60 = 0 => Round(decompose(n).value * decompose(n).unit, 2) = n
<1> DEFINE even == {u \in UNITS : n % u = 0}
           w == CHOOSE u \in even : \A v \in even : v <= u
<1>1. CASE even = {}
  <2>1. decompose(n) = [value |-> 2 * AtLeastOne(Round(n, 60)), unit |-> 60]
    BY <1>1, Zenon DEF decompose
  <2>2. 2 * AtLeastOne(Round(n, 60)) \in Nat
    <3>1. Round(n, 60) \in Nat
      BY Rounded, Zenon
    <3> HIDE DEF Round
    <3> QED BY <3>1, SMT DEF AtLeastOne
  <2>3. n % 60 # 0
    BY <1>1 DEF UNITS
  <2>4. 60 \in UNITS
    BY DEF UNITS
  <2> QED BY <2>1, <2>2, <2>3, <2>4, SMT
<1>2. CASE even # {}
  <2>1. w \in UNITS /\ n % w = 0
    BY <1>2, LargestUnit, Zenon
  <2>2. decompose(n) = [value |-> 2 * (n \div w), unit |-> w]
    BY <1>2, Zenon DEF decompose
  <2> HIDE DEF w
  <2>3. n \div w \in Nat /\ (2 * (n \div w)) * w = 2 * n
    BY <2>1, Divides, Zenon
  <2>4. 2 * (n \div w) \in Nat
    BY <2>3, SMT
  <2>5. decompose(n).value = 2 * (n \div w) /\ decompose(n).unit = w
    BY <2>2
  <2>6. Round(2 * n, 2) = n
    BY Rounded, Zenon
  <2> QED BY <2>1, <2>3, <2>4, <2>5, <2>6, Zenon
<1> QED BY <1>1, <1>2, Zenon

(* The editor opens on the interval it is given.                            *)
LEMMA EditorOpens ==
    ASSUME NEW n \in Nat, NEW b \in BOOLEAN
    PROVE  /\ Editor(n, b) \in Editors
           /\ n % 60 = 0 => customSeconds(Editor(n, b)) = n
<1> DEFINE d == decompose(n)
<1>1. d.value \in Nat /\ d.unit \in UNITS /\ (n % 60 = 0 => Round(d.value * d.unit, 2) = n)
  BY Decomposed, Zenon
<1>2. Editor(n, b) = [custom |-> b, value |-> d.value, unit |-> d.unit]
  BY Zenon DEF Editor
<1> HIDE DEF d
<1>3. Editor(n, b) \in Editors
  BY <1>1, <1>2, SMT DEF Editors
<1>4. Editor(n, b).value = d.value /\ Editor(n, b).unit = d.unit
  BY <1>2
<1> QED BY <1>1, <1>3, <1>4, Zenon DEF customSeconds

(* applyCustom reports an interval up unless the editor shows the hint.     *)
LEMMA Applied ==
    ASSUME NEW e \in Editors, e.custom, NEW n \in Intervals
    PROVE  /\ applyCustom(e, n) \in Intervals
           /\ ~belowMin(e) => applyCustom(e, n) = customSeconds(e)
<1>1. e.value \in Nat /\ e.unit \in UNITS
  BY DEF Editors
<1>2. e.unit \in Nat
  BY <1>1, SMT DEF UNITS
<1>3. e.value * e.unit \in Nat /\ (e.value <= 0 => e.value * e.unit = 0)
  BY <1>1, <1>2, SMT
<1>4. customSeconds(e) \in Nat /\ (e.value <= 0 => customSeconds(e) = 0)
  BY <1>3, Rounded, Zenon DEF customSeconds
<1>5. e.value <= 0 => customSeconds(e) < MIN_SECONDS
  BY <1>4, SMT DEF MIN_SECONDS
<1>6. ~(customSeconds(e) < MIN_SECONDS) => customSeconds(e) \in Intervals
  BY <1>4, SMT DEF MIN_SECONDS, Intervals
<1> QED BY <1>5, <1>6, Zenon DEF applyCustom, belowMin

(* The editor of a panel agrees with the interval the panel would save.     *)
Agrees(x) ==
    (x.editor # NoEditor /\ x.editor.custom /\ ~belowMin(x.editor) /\ x.every % 60 = 0)
        => customSeconds(x.editor) = x.every

Good(x) == x \in Panels /\ Agrees(x)

Marks == [Projects -> {"none", "yes", "no"}]

(* What changes with one field of the panel, and what stays.                *)
LEMMA PanelEdits ==
    ASSUME NEW x \in Panels
    PROVE  /\ \A f \in Marks : LET y == [x EXCEPT !.pending = f]
                               IN  y \in Panels /\ y.pending = f /\ y.editor = x.editor /\ y.every = x.every
           /\ \A w \in Words : LET y == [x EXCEPT !.typed = w]
                               IN  y \in Panels /\ y.pending = x.pending /\ y.editor = x.editor /\ y.every = x.every
           /\ \A w \in Words : LET y == [x EXCEPT !.query = w]
                               IN  y \in Panels /\ y.pending = x.pending /\ y.editor = x.editor /\ y.every = x.every
           /\ \A b \in BOOLEAN : LET y == [x EXCEPT !.on = b]
                                 IN  y \in Panels /\ y.pending = x.pending /\ y.editor = x.editor /\ y.every = x.every
           /\ \A e \in Editors \cup {NoEditor} :
                 LET y == [x EXCEPT !.editor = e]
                 IN  y \in Panels /\ y.pending = x.pending /\ y.editor = e /\ y.every = x.every
<1>1. \A f \in Marks : LET y == [x EXCEPT !.pending = f]
                       IN  y \in Panels /\ y.pending = f /\ y.editor = x.editor /\ y.every = x.every
  BY DEF Panels, Marks
<1>2. \A w \in Words : LET y == [x EXCEPT !.typed = w]
                       IN  y \in Panels /\ y.pending = x.pending /\ y.editor = x.editor /\ y.every = x.every
  BY DEF Panels
<1>3. \A w \in Words : LET y == [x EXCEPT !.query = w]
                       IN  y \in Panels /\ y.pending = x.pending /\ y.editor = x.editor /\ y.every = x.every
  BY DEF Panels
<1>4. \A b \in BOOLEAN : LET y == [x EXCEPT !.on = b]
                         IN  y \in Panels /\ y.pending = x.pending /\ y.editor = x.editor /\ y.every = x.every
  BY DEF Panels
<1>5. \A e \in Editors \cup {NoEditor} :
         LET y == [x EXCEPT !.editor = e]
         IN  y \in Panels /\ y.pending = x.pending /\ y.editor = e /\ y.every = x.every
  BY DEF Panels
<1> QED BY <1>1, <1>2, <1>3, <1>4, <1>5

(* A panel keeps its agreement where the editor and the interval stay.      *)
LEMMA StillAgrees ==
    ASSUME NEW x, NEW y, Agrees(x), y.editor = x.editor, y.every = x.every
    PROVE  Agrees(y)
BY Zenon DEF Agrees

-----------------------------------------------------------------------------
(* The panel.                                                               *)

PanelGood == panel # NoPanel => Agrees(panel)

(* No edit of the panel is lost on the way to y.                            *)
KeepsMarks(y) == \A p \in Projects : panel.pending[p] # "none" => y.pending[p] # "none"

(* Select-all marks what it shows and keeps the other edits.                *)
LEMMA AllMarks ==
    ASSUME NEW f \in Marks
    PROVE  All(f) \in Marks /\ \A p \in Projects : f[p] # "none" => All(f)[p] # "none"
BY DEF All, Marks

(* What an edit leaves in the panel.                                        *)
LEMMA EditsKept ==
    ASSUME TypeOK, PanelGood, Edits
    PROVE  panel # NoPanel /\ Good(panel') /\ (kind = "manage" => KeepsMarks(panel'))
<1>0. (Toolbar \/ ScheduleShown) => panel # NoPanel /\ panel \in Panels /\ Agrees(panel)
  BY Zenon DEF Toolbar, ScheduleShown, TypeOK, PanelGood
<1>1. ASSUME panel # NoPanel, panel \in Panels, Agrees(panel), NEW y, Edit(y), y \in Panels,
             y.pending = panel.pending, y.editor = panel.editor, y.every = panel.every
      PROVE  Good(panel') /\ KeepsMarks(panel')
  <2>1. panel' = y
    BY <1>1, Zenon DEF Edit
  <2> QED BY <1>1, <2>1, StillAgrees, Zenon DEF Good, KeepsMarks
<1>2. ASSUME panel \in Panels, Agrees(panel), NEW f \in Marks, Edit([panel EXCEPT !.pending = f])
      PROVE  Good(panel') /\ panel'.pending = f
  <2> DEFINE y == [panel EXCEPT !.pending = f]
  <2>1. panel' = y
    BY <1>2, Zenon DEF Edit
  <2>2. y \in Panels /\ y.pending = f /\ y.editor = panel.editor /\ y.every = panel.every
    BY <1>2, PanelEdits, Zenon
  <2> HIDE DEF y
  <2> QED BY <1>2, <2>1, <2>2, StillAgrees, Zenon DEF Good
<1>3. panel \in Panels => panel.pending \in Marks
  BY DEF Panels, Marks
<1>4. ASSUME NEW p \in Projects, toggle(p)
      PROVE  panel # NoPanel /\ Good(panel') /\ KeepsMarks(panel')
  <2>1. panel # NoPanel /\ panel \in Panels /\ Agrees(panel) /\ panel.pending \in Marks
    BY <1>0, <1>3, <1>4, Zenon DEF toggle
  <2>2. PICK v \in {"no", "yes"} : Edit([panel EXCEPT !.pending = [panel.pending EXCEPT ![p] = v]])
    BY <1>4, Zenon DEF toggle
  <2>3. /\ [panel.pending EXCEPT ![p] = v] \in Marks
        /\ \A x \in Projects : panel.pending[x] # "none" => [panel.pending EXCEPT ![p] = v][x] # "none"
    BY <2>1, <2>2 DEF Marks
  <2>4. Good(panel') /\ panel'.pending = [panel.pending EXCEPT ![p] = v]
    BY <1>2, <2>1, <2>2, <2>3, Zenon
  <2> QED BY <2>1, <2>3, <2>4, Zenon DEF KeepsMarks
<1>5. ASSUME toggleAll PROVE panel # NoPanel /\ Good(panel') /\ KeepsMarks(panel')
  <2>1. panel # NoPanel /\ panel \in Panels /\ Agrees(panel) /\ panel.pending \in Marks
    BY <1>0, <1>3, <1>5, Zenon DEF toggleAll
  <2>2. Edit([panel EXCEPT !.pending = All(panel.pending)])
    BY <1>5, Zenon DEF toggleAll
  <2>3. Good(panel') /\ panel'.pending = All(panel.pending)
    BY <1>2, <2>1, <2>2, AllMarks, Zenon
  <2> QED BY <2>1, <2>3, AllMarks, Zenon DEF KeepsMarks
<1>6. ASSUME PanelToggleAll PROVE panel # NoPanel /\ Good(panel') /\ kind # "manage"
  <2>1. panel # NoPanel /\ panel \in Panels /\ Agrees(panel) /\ kind # "manage"
    BY <1>0, <1>6, Zenon DEF PanelToggleAll
  <2>2. Clean \in Marks
    BY DEF Clean, Marks
  <2> QED BY <1>2, <1>6, <2>1, <2>2, AllMarks, Zenon DEF PanelToggleAll
<1>7. ASSUME NEW word \in Words, SearchInput(word)
      PROVE  panel # NoPanel /\ Good(panel') /\ KeepsMarks(panel')
  <2>1. panel # NoPanel /\ panel \in Panels /\ Agrees(panel) /\ Edit([panel EXCEPT !.typed = word])
    BY <1>0, <1>7, Zenon DEF SearchInput
  <2> QED BY <1>1, <2>1, PanelEdits, Zenon
<1>8. ASSUME setSchedEnabled
      PROVE  panel # NoPanel /\ Good(panel') /\ KeepsMarks(panel')
  <2>1. panel # NoPanel /\ panel \in Panels /\ Agrees(panel) /\ Edit([panel EXCEPT !.on = ~panel.on])
    BY <1>0, <1>8, Zenon DEF setSchedEnabled
  <2>2. (~panel.on) \in BOOLEAN
    BY Zenon
  <2> QED BY <1>1, <2>1, <2>2, PanelEdits, Zenon
<1>9. ASSUME NEW seconds \in Presets \cup {Custom}, ChooseFrequency(seconds)
      PROVE  panel # NoPanel /\ Good(panel') /\ KeepsMarks(panel')
  <2>1. panel # NoPanel /\ panel \in Panels /\ Agrees(panel) /\ panel.editor # NoEditor
    BY <1>0, <1>9, Zenon DEF ChooseFrequency
  <2>2. panel.editor \in Editors /\ panel.every \in Intervals
    BY <2>1, Zenon DEF Panels
  <2>3. CASE panel' = [panel EXCEPT !.editor = Editor(panel.every, TRUE)]
    <3> DEFINE e == Editor(panel.every, TRUE)
    <3>1. panel.every \in Nat
      BY <2>2, Zenon DEF Intervals
    <3>2. e \in Editors /\ (panel.every % 60 = 0 => customSeconds(e) = panel.every)
      BY <3>1, EditorOpens, Zenon
    <3> HIDE DEF e
    <3>3. panel' \in Panels /\ panel'.pending = panel.pending /\ panel'.editor = e /\ panel'.every = panel.every
      BY <2>1, <2>3, <3>2, PanelEdits, ZenonT(60) DEF e
    <3> QED BY <2>1, <3>2, <3>3, Zenon DEF Good, Agrees, KeepsMarks
  <2>4. CASE /\ panel' = [panel EXCEPT !.editor = [panel.editor EXCEPT !.custom = FALSE], !.every = seconds]
             /\ seconds # Custom
    <3> DEFINE e == [panel.editor EXCEPT !.custom = FALSE]
    <3>1. e \in Editors /\ e.custom = FALSE
      BY <2>2, Zenon DEF Editors
    <3> HIDE DEF e
    <3>2. seconds \in Intervals
      BY <1>9, <2>4, ScheduleAssumption, BoundsAreIntervals, Zenon
    <3>3. panel' \in Panels /\ panel'.pending = panel.pending /\ panel'.editor = e
      <4>1. PICK c \in Editors : c = e
        BY <3>1, Zenon
      <4>2. panel' = [panel EXCEPT !.editor = c, !.every = seconds]
        BY <2>4, <4>1, Zenon DEF e
      <4> QED BY <2>1, <3>2, <4>1, <4>2, Zenon DEF Panels
    <3> QED BY <2>1, <3>1, <3>3, Zenon DEF Good, Agrees, KeepsMarks
  <2> QED BY <1>9, <2>1, <2>3, <2>4, Zenon DEF ChooseFrequency, Edit
<1>10. ASSUME NEW e, CustomInterval(e), panel.editor \in Editors => (e \in Editors /\ e.custom = panel.editor.custom)
       PROVE  panel # NoPanel /\ Good(panel') /\ KeepsMarks(panel')
  <2>1. /\ panel # NoPanel /\ panel \in Panels /\ Agrees(panel) /\ panel.editor # NoEditor /\ panel.editor.custom
        /\ panel' = [panel EXCEPT !.editor = e, !.every = applyCustom(e, panel.every)]
    BY <1>0, <1>10, Zenon DEF CustomInterval, Edit
  <2>2. panel.editor \in Editors /\ panel.every \in Intervals
    BY <2>1, Zenon DEF Panels
  <2>3. e \in Editors /\ e.custom
    BY <1>10, <2>1, <2>2, Zenon
  <2>4. applyCustom(e, panel.every) \in Intervals /\ (~belowMin(e) => applyCustom(e, panel.every) = customSeconds(e))
    BY <2>2, <2>3, Applied, Zenon
  <2>5. /\ panel' \in Panels /\ panel'.pending = panel.pending /\ panel'.editor = e
        /\ panel'.every = applyCustom(e, panel.every)
    <3>1. PICK n \in Intervals : n = applyCustom(e, panel.every)
      BY <2>4, Zenon
    <3>2. panel' = [panel EXCEPT !.editor = e, !.every = n]
      BY <2>1, <3>1, Zenon
    <3>3. panel \in Panels /\ e \in Editors
      BY <2>1, <2>3, Zenon
    <3>4. panel' \in Panels /\ panel'.pending = panel.pending /\ panel'.editor = e /\ panel'.every = n
      BY <3>2, <3>3, Zenon DEF Panels
    <3> QED BY <3>1, <3>4, Zenon
  <2> QED BY <2>1, <2>4, <2>5, Zenon DEF Good, Agrees, KeepsMarks
<1>11. ASSUME NEW value \in Halves, panel.editor \in Editors
       PROVE  LET e == [panel.editor EXCEPT !.value = value] IN e \in Editors /\ e.custom = panel.editor.custom
  <2>1. value \in Nat
    BY <1>11, ScheduleAssumption, Zenon
  <2> QED BY <1>11, <2>1 DEF Editors
<1>12. ASSUME NEW seconds \in UNITS, panel.editor \in Editors
       PROVE  LET e == [panel.editor EXCEPT !.unit = seconds] IN e \in Editors /\ e.custom = panel.editor.custom
  BY <1>12 DEF Editors
<1> QED BY <1>4, <1>5, <1>6, <1>7, <1>8, <1>9, <1>10, <1>11, <1>12, Zenon DEF Edits

(* A hook that is not mounted shows nothing, and the panel is only there    *)
(* with its stream.                                                         *)
Mounted ==
    /\ \A s \in Streams : stream[s].at = "off" => sees[s] = None
    /\ panel # NoPanel => stream["projects"].at # "off"

(* The feed mounts and unmounts nothing by itself.                          *)
LEMMA FeedMountsNothing ==
    ASSUME WatchTypeOK, FeedsOnly, NEW s \in Streams
    PROVE  /\ stream'[s].at = "off" <=> stream[s].at = "off"
           /\ stream[s].at = "off" => sees'[s] = sees[s]
<1>0. stream \in [Streams -> StreamStates] /\ DOMAIN sees = Streams
  BY Zenon DEF WatchTypeOK
<1>1. Miss => stream'[s].at = stream[s].at
  BY <1>0 DEF Miss, StreamStates
<1>2. CASE NotifyConnectionChanged \/ NotifyFails \/ ListenerLost \/ WrittenUntold
  BY <1>1, <1>2, Zenon DEF NotifyConnectionChanged, NotifyFails, ListenerLost, WrittenUntold
<1>3. CASE Listen \/ Written \/ FaultElsewhere \/ UNCHANGED wvars
  BY <1>3, Zenon DEF Listen, Written, FaultElsewhere, wvars, feed
<1>4. CASE Deliver
  <2>1. stream'[s].at = stream[s].at
    BY <1>0, <1>4, SMTT(30) DEF Deliver, Publish, StreamStates
  <2> QED BY <1>4, <2>1, Zenon DEF Deliver
<1>5. ASSUME NEW t \in Streams,
             Subscribe(t) \/ Send(t) \/ Reconnect(t) \/ \E why \in Reasons : Drop(t, why)
      PROVE  /\ stream'[s].at = "off" <=> stream[s].at = "off"
             /\ stream[s].at = "off" => sees'[s] = sees[s]
  <2>1. stream[t].at # "off" /\ \E x : x.at # "off" /\ stream' = [stream EXCEPT ![t] = x]
    <3>1. CASE Subscribe(t) \/ Reconnect(t)
      BY <3>1 DEF Subscribe, Reconnect, At, Fresh
    <3>2. CASE Send(t)
      BY <3>2, Zenon DEF Send, At, Fresh
    <3>3. CASE \E why \in Reasons : Drop(t, why)
      BY <3>3, Zenon DEF Drop, At, Fresh
    <3> QED BY <1>5, <3>1, <3>2, <3>3, SMTT(30)
  <2>2. s # t => sees'[s] = sees[s]
    BY <1>0, <1>5 DEF Subscribe, Reconnect, Send, Drop
  <2>3. PICK x : x.at # "off" /\ stream' = [stream EXCEPT ![t] = x]
    BY <2>1, Zenon
  <2>4. stream'[s] = IF s = t THEN x ELSE stream[s]
    BY <1>0, <2>3
  <2> QED BY <2>1, <2>2, <2>3, <2>4, SMTT(30)
<1> QED BY <1>2, <1>3, <1>4, <1>5, Zenon DEF FeedsOnly, Feed

(* Where a render leaves the panel.                                         *)
LEMMA RenderKept ==
    ASSUME TypeOK, PanelGood, Mounted, Render
    PROVE  /\ panel' = NoPanel \/ Good(panel')
           /\ Mounted'
           /\ panel # NoPanel /\ panel' # NoPanel => kind # "manage"
<1>0. /\ Watching(Wanted) /\ RenderDue
      /\ DOMAIN sees = Streams /\ stream \in [Streams -> StreamStates]
      /\ "projects" \in Streams /\ "connections" \in Streams /\ \A s \in Streams : s \in {"projects", "connections"}
  BY ManageAssumption, Zenon DEF Render, TypeOK, WatchTypeOK
<1>1. \A s \in Streams : /\ s \notin Wanted => sees'[s] = None
                         /\ s \in Wanted => sees'[s] = sees[s] /\ stream'[s].at # "off"
  <2>1. \A s \in Streams : s \in Wanted => stream'[s] = IF stream[s].at = "off" THEN Fresh("connecting") ELSE stream[s]
    BY <1>0 DEF Watching
  <2>2. Fresh("connecting").at # "off"
    BY SMTT(30) DEF Fresh
  <2>3. \A s \in Streams : sees'[s] = IF s \in Wanted THEN sees[s] ELSE None
    BY <1>0 DEF Watching
  <2> QED BY <2>1, <2>2, <2>3, Zenon
<1>2. CASE "projects" \notin Wanted
  <2>1. panel' = NoPanel
    BY <1>2, Zenon DEF Render, Finish
  <2> QED BY <1>1, <2>1, Zenon DEF Mounted
<1>3. CASE "projects" \in Wanted
  <2>1. panel' = FreshPanel
    BY <1>3, Zenon DEF Render, Finish
  <2>2. page = "manage" /\ View = "panel"
    BY <1>3, Zenon DEF Wanted
  <2>3. kind = "manage" => conn # None /\ conn # Gone /\ "connections" \in Wanted
    BY <2>2, Zenon DEF View, Wanted
  <2>4. Good(FreshPanel)
    <3>1. kind = "manage" => conn \in Conns
      BY <2>3, Zenon DEF TypeOK, conn
    <3>2. PICK b \in BOOLEAN : b = (kind = "manage" /\ conn.on)
      BY Zenon
    <3>3. MIN_SECONDS \in Intervals
      BY SMT DEF MIN_SECONDS, Intervals
    <3>4. PICK n \in Intervals : n = IF kind = "manage" THEN conn.every ELSE MIN_SECONDS
      BY <3>1, <3>3, Zenon DEF Conns
    <3>5. FreshPanel = [pending |-> Clean, typed |-> NoWord, query |-> NoWord, editor |-> NoEditor,
                        on |-> b, every |-> n]
      BY <3>2, <3>4, Zenon DEF FreshPanel
    <3>6. NoWord \in Words /\ Clean \in [Projects -> {"none", "yes", "no"}]
      BY Zenon DEF Words, Clean
    <3>7. FreshPanel \in Panels /\ FreshPanel.editor = NoEditor
      BY <3>5, <3>6 DEF Panels
    <3> QED BY <3>7, Zenon DEF Good, Agrees
  <2>5. panel # NoPanel => kind # "manage"
    <3> SUFFICES ASSUME panel # NoPanel, kind = "manage" PROVE FALSE
      OBVIOUS
    <3>1. stream["projects"].at # "off"
      BY Zenon DEF Mounted
    <3>2. stream["connections"].at = "off"
      BY <1>0, <1>3, <2>3, <3>1, Zenon DEF RenderDue
    <3>3. conn = None
      BY <1>0, <3>2, Zenon DEF Mounted, conn
    <3> QED BY <2>3, <3>3, Zenon
  <2> QED BY <1>0, <1>1, <1>3, <2>1, <2>4, <2>5, Zenon DEF Mounted
<1> QED BY <1>2, <1>3, Zenon

(* The steps that leave the panel alone.                                    *)
LEMMA PanelStands ==
    ASSUME \/ UNCHANGED mvars \/ FeedStep \/ Moves \/ onSave
           \/ (\E k \in 1..MaxSaves : SetProjectSelection(k) \/ UpdateSyncSchedule(k) \/ Answer(k))
           \/ Disconnect \/ Removed \/ GraceElapses \/ SearchSettles \/ Discovery \/ Colleague
    PROVE  panel' = panel
<1>0. \A k, c : Settle(k, c) => panel' = panel
  BY Zenon DEF Settle
<1>1. CASE UNCHANGED mvars \/ FeedStep \/ onSave \/ GraceElapses \/ SearchSettles
  BY <1>1, Zenon DEF mvars, mine, FeedStep, onSave, GraceElapses, SearchSettles
<1>2. CASE Moves
  BY <1>2, Zenon DEF Moves, Leave, SetOpen, onConfirm, Open, Dialog
<1>3. CASE \E k \in 1..MaxSaves : SetProjectSelection(k) \/ UpdateSyncSchedule(k) \/ Answer(k)
  BY <1>0, <1>3, Zenon DEF SetProjectSelection, UpdateSyncSchedule, Answer
<1>4. CASE Disconnect \/ Removed
  BY <1>4, Zenon DEF Disconnect, Removed, Dialog
<1>5. CASE Discovery \/ Colleague
  BY <1>5, Zenon DEF Discovery, Colleague, Others
<1> QED BY <1>1, <1>2, <1>3, <1>4, <1>5, Zenon

(* The panel keeps its type, its editor agrees with its interval, and only  *)
(* a save that waited for its refetch clears the edits.                     *)
LEMMA PanelKept ==
    ASSUME TypeOK, PanelGood, Mounted, [ManageNext]_mvars
    PROVE  /\ panel' = NoPanel \/ Good(panel')
           /\ Mounted'
           /\ panel # NoPanel /\ panel' # NoPanel /\ kind = "manage"
                 => KeepsMarks(panel') \/ (DiscoverSettles /\ Refetching # {})
<1> DEFINE Goal == /\ panel' = NoPanel \/ Good(panel')
                   /\ panel' # NoPanel => panel # NoPanel
                   /\ panel # NoPanel /\ panel' # NoPanel /\ kind = "manage"
                         => KeepsMarks(panel') \/ (DiscoverSettles /\ Refetching # {})
<1>0. panel # NoPanel => panel \in Panels /\ Agrees(panel) /\ Good(panel)
  BY Zenon DEF TypeOK, PanelGood, Good
<1>1. ASSUME panel' = panel PROVE Goal
  BY <1>0, <1>1, Zenon DEF KeepsMarks
<1>2. ASSUME Edits PROVE Goal
  BY <1>2, EditsKept, Zenon
<1>3. ASSUME MountEditor PROVE Goal
  <2>1. panel # NoPanel /\ panel \in Panels
    BY <1>0, <1>3, Zenon DEF MountEditor, EditorDue
  <2>2. panel.every \in Intervals
    BY <2>1, Zenon DEF Panels
  <2>3. panel.every \in Nat
    BY <2>2, Zenon DEF Intervals
  <2>4. (panel.every \notin Presets) \in BOOLEAN
    BY Zenon
  <2>5. /\ Opened(panel.every) \in Editors
        /\ panel.every % 60 = 0 => customSeconds(Opened(panel.every)) = panel.every
    BY <2>3, <2>4, EditorOpens, Zenon DEF Opened
  <2>6. PICK e \in Editors \cup {NoEditor} :
           /\ panel' = [panel EXCEPT !.editor = e]
           /\ e # NoEditor => e = Opened(panel.every)
    BY <1>3, <2>5, Zenon DEF MountEditor
  <2>7. panel' \in Panels /\ panel'.pending = panel.pending /\ panel'.editor = e /\ panel'.every = panel.every
    BY <2>1, <2>6, PanelEdits, Zenon
  <2>8. Agrees(panel')
    BY <2>5, <2>6, <2>7, Zenon DEF Agrees
  <2> QED BY <2>1, <2>7, <2>8, Zenon DEF Good, KeepsMarks
<1>4. ASSUME Debounced PROVE Goal
  <2>1. panel # NoPanel /\ panel \in Panels /\ Agrees(panel) /\ panel' = [panel EXCEPT !.query = panel.typed]
    BY <1>0, <1>4, Zenon DEF Debounced
  <2>2. panel.typed \in Words
    BY <2>1, Zenon DEF Panels
  <2>3. panel' \in Panels /\ panel'.pending = panel.pending /\ panel'.editor = panel.editor /\ panel'.every = panel.every
    BY <2>1, <2>2, PanelEdits, Zenon
  <2> QED BY <2>1, <2>3, StillAgrees, Zenon DEF Good, KeepsMarks
<1>5. ASSUME DiscoverSettles PROVE Goal
  <2>1. Finish(Refetching, panel)
    BY <1>5, Zenon DEF DiscoverSettles
  <2>2. CASE Refetching = {} \/ panel = NoPanel
    <3>1. panel' = panel
      BY <2>1, <2>2, Zenon DEF Finish
    <3> QED BY <1>1, <3>1, Zenon
  <2>3. CASE Refetching # {} /\ panel # NoPanel
    <3>1. panel' = [panel EXCEPT !.pending = Clean] /\ panel \in Panels /\ Agrees(panel)
      BY <1>0, <2>1, <2>3, Zenon DEF Finish
    <3>2. Clean \in Marks
      BY DEF Clean, Marks
    <3>3. panel' \in Panels /\ panel'.editor = panel.editor /\ panel'.every = panel.every
      BY <3>1, <3>2, PanelEdits, Zenon
    <3> QED BY <1>5, <2>3, <3>1, <3>3, StillAgrees, Zenon DEF Good
  <2> QED BY <2>2, <2>3, Zenon
<1>6. CASE ~Render
  <2>1. Goal
    BY <1>1, <1>2, <1>3, <1>4, <1>5, <1>6, PanelStands, EveryStep, Zenon
  <2>2. FeedsOnly /\ WatchTypeOK /\ "projects" \in Streams
    BY <1>6, StepFeeds, ManageAssumption, Zenon DEF TypeOK
  <2>3. Mounted'
    BY <2>1, <2>2, FeedMountsNothing, Zenon DEF Mounted
  <2> QED BY <2>1, <2>3, Zenon
<1> QED BY <1>6, RenderKept, Zenon

-----------------------------------------------------------------------------
(* The saves.                                                               *)

(* A save that goes on has no call that failed or is under way, a first one *)
(* sends the selection, and a selection that is stored has marked the       *)
(* source onboarded.                                                        *)
Sound(c, onboarded) ==
    /\ c.at \in {"refetching", "done"} => c.sel \in {"no", "ok"} /\ c.sched \in {"no", "ok"}
    /\ c.first => c.sel # "no"
    /\ c.sel \in {"stored", "ok"} => onboarded

AllSound == \A k \in 1..MaxSaves : Sound(saves[k], db.onboarded)

(* A save whose calls changed.                                              *)
LEMMA CallEdits ==
    ASSUME NEW c \in SaveStates, NEW v \in CallStates
    PROVE  /\ LET d == [c EXCEPT !.sel = v]
              IN  d \in SaveStates /\ d.sel = v /\ d.sched = c.sched /\ d.at = c.at /\ d.first = c.first
           /\ LET d == [c EXCEPT !.sched = v]
              IN  d \in SaveStates /\ d.sched = v /\ d.sel = c.sel /\ d.at = c.at /\ d.first = c.first
BY DEF SaveStates

(* Promise.all lets a save go on only when both its calls succeeded.        *)
LEMMA SettlesSound ==
    ASSUME NEW c \in SaveStates, NEW o, Sound(c, o)
    PROVE  LET d == [c EXCEPT !.at = Settles(c)]
           IN  d \in SaveStates /\ Sound(d, o) /\ (d.at = "saving" => c.at = "saving")
<1> DEFINE d == [c EXCEPT !.at = Settles(c)]
<1>1. Settles(c) \in {"unused", "saving", "refetching", "done", "failed"}
  BY DEF Settles, SaveStates
<1>2. d \in SaveStates /\ d.at = Settles(c) /\ d.sel = c.sel /\ d.sched = c.sched /\ d.first = c.first
  BY <1>1 DEF SaveStates
<1>3. /\ Settles(c) = "refetching" /\ c.at # "refetching" => c.sel \in {"no", "ok"} /\ c.sched \in {"no", "ok"}
      /\ Settles(c) = "done" => c.at = "done"
      /\ Settles(c) = "saving" => c.at = "saving"
  <2>1. c.sel \in CallStates /\ c.sched \in CallStates
    BY DEF SaveStates
  <2> QED BY <2>1, Zenon DEF Settles, CallStates, InFlight
<1> HIDE DEF d
<1> QED BY <1>2, <1>3, Zenon DEF Sound, d

(* So does the page, whatever becomes of a call.                            *)
LEMMA SettleKept ==
    ASSUME TypeOK, AllSound, NEW k \in 1..MaxSaves, NEW c \in SaveStates, Settle(k, c),
           Sound(c, db'.onboarded), c.at = saves[k].at, db.onboarded => db'.onboarded
    PROVE  /\ saves' \in [1..MaxSaves -> SaveStates] /\ AllSound'
           /\ \A j \in 1..MaxSaves : saves'[j].at = "saving" => saves[j].at = "saving"
<1> DEFINE d == [c EXCEPT !.at = Settles(c)]
<1>1. d \in SaveStates /\ Sound(d, db'.onboarded) /\ (d.at = "saving" => saves[k].at = "saving")
  BY SettlesSound, Zenon
<1>2. saves' = [saves EXCEPT ![k] = d] /\ saves \in [1..MaxSaves -> SaveStates]
  BY Zenon DEF Settle, TypeOK
<1> HIDE DEF d
<1>3. /\ saves' \in [1..MaxSaves -> SaveStates]
      /\ \A j \in 1..MaxSaves : saves'[j] = IF j = k THEN d ELSE saves[j]
  BY <1>1, <1>2, Zenon
<1> QED BY <1>1, <1>3, Zenon DEF AllSound, Sound

(* What the calls of a save come to.                                        *)
LEMMA CallsKept ==
    ASSUME TypeOK, AllSound, InBounds, db.onboarded => db'.onboarded, NEW k \in 1..MaxSaves,
           SetProjectSelection(k) \/ UpdateSyncSchedule(k) \/ Answer(k)
    PROVE  /\ saves' \in [1..MaxSaves -> SaveStates] /\ AllSound'
           /\ \A j \in 1..MaxSaves : saves'[j].at = "saving" => saves[j].at = "saving"
<1> DEFINE c == saves[k]
           Goal == /\ saves' \in [1..MaxSaves -> SaveStates] /\ AllSound'
                   /\ \A j \in 1..MaxSaves : saves'[j].at = "saving" => saves[j].at = "saving"
<1>1. c \in SaveStates /\ Sound(c, db'.onboarded)
  BY Zenon DEF TypeOK, AllSound, Sound
<1>2. {"stored", "ok", "err"} \subseteq CallStates
  BY Zenon DEF CallStates
<1>3. ASSUME NEW v \in {"stored", "ok", "err"}, c.sel \in InFlight, v # "err" => db'.onboarded,
             Settle(k, [c EXCEPT !.sel = v])
      PROVE  Goal
  <2> DEFINE d == [c EXCEPT !.sel = v]
  <2>1. d \in SaveStates /\ d.sel = v /\ d.sched = c.sched /\ d.at = c.at /\ d.first = c.first
    <3>1. v \in CallStates /\ c \in SaveStates
      BY <1>1, <1>2, Zenon
    <3> HIDE DEF c
    <3> QED BY <3>1, CallEdits, Zenon
  <2> HIDE DEF d
  <2>2. c.at \notin {"refetching", "done"}
    BY <1>1, <1>3 DEF Sound, InFlight
  <2>3. Sound(d, db'.onboarded)
    BY <1>1, <1>3, <2>1, <2>2, Zenon DEF Sound
  <2> QED BY <1>3, <2>1, <2>3, SettleKept, Zenon DEF d
<1>4. ASSUME NEW v \in {"stored", "ok", "err"}, c.sched \in InFlight, Settle(k, [c EXCEPT !.sched = v])
      PROVE  Goal
  <2> DEFINE d == [c EXCEPT !.sched = v]
  <2>1. d \in SaveStates /\ d.sched = v /\ d.sel = c.sel /\ d.at = c.at /\ d.first = c.first
    BY <1>1, <1>2, CallEdits, Zenon
  <2> HIDE DEF d
  <2>2. c.at \notin {"refetching", "done"}
    BY <1>1, <1>4 DEF Sound, InFlight
  <2>3. Sound(d, db'.onboarded)
    BY <1>1, <2>1, <2>2, Zenon DEF Sound
  <2> QED BY <1>4, <2>1, <2>3, SettleKept, Zenon DEF d
<1>5. CASE SetProjectSelection(k)
  <2>1. c.sel \in InFlight
    BY <1>5, SelectionRows, Zenon DEF InFlight
  <2> HIDE DEF Goal
  <2> QED BY <1>3, <1>5, <2>1, SelectionRows, Zenon DEF Goal
<1>6. CASE UpdateSyncSchedule(k)
  <2>1. c.sched \in InFlight
    BY <1>6, ScheduleRows, Zenon DEF InFlight
  <2> QED BY <1>4, <1>6, <2>1, ScheduleRows, Zenon
<1>7. CASE Answer(k)
  <2>1. c.sel = "stored" => c.sel \in InFlight /\ db'.onboarded
    BY <1>1, Zenon DEF InFlight, Sound
  <2>2. c.sched = "stored" => c.sched \in InFlight
    BY Zenon DEF InFlight
  <2> QED BY <1>3, <1>4, <1>7, <2>1, <2>2, Zenon DEF Answer
<1> QED BY <1>5, <1>6, <1>7, Zenon

(* Runs of onSave that went on are done, the others stay.                   *)
LEMMA FinishKept ==
    ASSUME TypeOK, AllSound, db.onboarded => db'.onboarded, NEW kept,
           Finish(Refetching, kept) \/ Finish({}, kept)
    PROVE  /\ saves' \in [1..MaxSaves -> SaveStates] /\ AllSound'
           /\ \A j \in 1..MaxSaves : saves'[j].at = "saving" => saves[j].at = "saving"
<1>1. saves \in [1..MaxSaves -> SaveStates] /\ DOMAIN saves = 1..MaxSaves
  BY Zenon DEF TypeOK
<1>2. \A j \in 1..MaxSaves : saves'[j] = saves[j] \/ (saves[j].at = "refetching" /\ saves'[j] = Done(saves[j]))
  BY <1>1, Zenon DEF Finish, Refetching
<1>3. PICK S : saves' = [j \in 1..MaxSaves |-> IF j \in S THEN Done(saves[j]) ELSE saves[j]]
  <2>1. PICK S : Finish(S, kept)
    BY Zenon
  <2>2. saves' = [j \in 1..MaxSaves |-> IF j \in S THEN Done(saves[j]) ELSE saves[j]]
    BY <1>1, <2>1, Zenon DEF Finish
  <2> QED BY <2>2, Zenon
<1>4. \A x \in SaveStates : /\ Done(x) \in SaveStates /\ Done(x).at = "done" /\ Done(x).first = x.first
                            /\ Done(x).sel = x.sel /\ Done(x).sched = x.sched
  <2>1. MIN_SECONDS \in Intervals
    BY SMT DEF MIN_SECONDS, Intervals
  <2> HIDE DEF MIN_SECONDS
  <2> QED BY <2>1, ZenonT(60) DEF Done, NoSave, SaveStates
<1>5. saves' \in [1..MaxSaves -> SaveStates]
  BY <1>1, <1>3, <1>4, Zenon
<1>6. ASSUME NEW j \in 1..MaxSaves
      PROVE  Sound(saves'[j], db'.onboarded) /\ (saves'[j].at = "saving" => saves[j].at = "saving")
  <2>1. saves[j] \in SaveStates /\ Sound(saves[j], db'.onboarded)
    BY <1>1, Zenon DEF AllSound, Sound
  <2> QED BY <1>2, <1>4, <2>1 DEF Sound
<1> QED BY <1>5, <1>6, Zenon DEF AllSound

(* The steps that leave the saves alone.                                    *)
LEMMA SavesStand ==
    ASSUME \/ UNCHANGED mvars \/ FeedStep \/ Edits \/ Moves \/ Disconnect \/ Removed
           \/ MountEditor \/ GraceElapses \/ Debounced \/ SearchSettles \/ Discovery \/ Colleague
    PROVE  saves' = saves
<1>1. CASE UNCHANGED mvars \/ FeedStep \/ MountEditor \/ GraceElapses \/ Debounced \/ SearchSettles
  BY <1>1, Zenon DEF mvars, mine, FeedStep, MountEditor, GraceElapses, Debounced, SearchSettles
<1>2. CASE Edits
  BY <1>2, EditsChangePanel, Zenon
<1>3. CASE Moves
  BY <1>3, Zenon DEF Moves, Leave, SetOpen, onConfirm, Open, Dialog
<1>4. CASE Disconnect \/ Removed
  BY <1>4, Zenon DEF Disconnect, Removed, Dialog
<1>5. CASE Discovery \/ Colleague
  BY <1>5, Zenon DEF Discovery, Colleague, Others
<1> QED BY <1>1, <1>2, <1>3, <1>4, <1>5, Zenon

(* A click on Save: the run that starts asks for the selected projects.     *)
LEMMA OnSave ==
    ASSUME TypeOK, onSave
    PROVE  \E k \in 1..MaxSaves, c \in SaveStates :
              /\ saves' = [saves EXCEPT ![k] = c]
              /\ c.at = "saving" /\ c.ids = selectedIds /\ (c.first => c.sel = "sent") /\ c.sel \in {"sent", "no"}
<1>1. panel \in Panels
  BY Zenon DEF onSave, SaveEnabled, TypeOK
<1>2. panel.on \in BOOLEAN /\ panel.every \in Intervals
  BY <1>1, Zenon DEF Panels
<1>3. selectedIds \in SUBSET Projects
  BY Zenon DEF selectedIds, Selected, Selectable
<1>4. PICK b \in BOOLEAN : b = (kind = "manage" /\ ~conn.onboarded)
  BY Zenon
<1>5. PICK k \in 1..MaxSaves :
         saves' = [saves EXCEPT ![k] =
                     [at |-> "saving", first |-> b,
                      sel |-> IF b \/ selectionDirty THEN "sent" ELSE "no",
                      sched |-> IF scheduleDirty THEN "sent" ELSE "no",
                      ids |-> selectedIds, on |-> panel.on, every |-> panel.every]]
  BY <1>4, Zenon DEF onSave
<1>6. PICK x \in {"sent", "no"} : x = (IF b \/ selectionDirty THEN "sent" ELSE "no") /\ (b => x = "sent")
  BY Zenon
<1>7. PICK y \in {"sent", "no"} : y = (IF scheduleDirty THEN "sent" ELSE "no")
  BY Zenon
<1> DEFINE c == [at |-> "saving", first |-> b, sel |-> x, sched |-> y,
                 ids |-> selectedIds, on |-> panel.on, every |-> panel.every]
<1>8. saves' = [saves EXCEPT ![k] = c]
  BY <1>5, <1>6, <1>7, ZenonT(60)
<1>9. c \in SaveStates /\ c.at = "saving" /\ c.ids = selectedIds /\ c.first = b /\ c.sel = x
  BY <1>2, <1>3, Zenon DEF SaveStates, CallStates
<1> QED BY <1>6, <1>8, <1>9, Zenon

(* The saves keep their type and stay sound, and only a click starts one.   *)
LEMMA SavesKept ==
    ASSUME TypeOK, AllSound, InBounds, [ManageNext]_mvars
    PROVE  /\ saves' \in [1..MaxSaves -> SaveStates] /\ AllSound'
           /\ \A j \in 1..MaxSaves :
                 saves'[j].at = "saving" => saves[j].at = "saving" \/ (onSave /\ saves'[j].ids = selectedIds)
<1>0. (db.onboarded => db'.onboarded) /\ saves \in [1..MaxSaves -> SaveStates]
  BY RowsKept, Zenon DEF TypeOK
<1>1. CASE saves' = saves
  BY <1>0, <1>1, Zenon DEF AllSound, Sound
<1>2. CASE \E k \in 1..MaxSaves : SetProjectSelection(k) \/ UpdateSyncSchedule(k) \/ Answer(k)
  BY <1>0, <1>2, CallsKept, Zenon
<1>3. CASE Render \/ DiscoverSettles
  BY <1>0, <1>3, FinishKept, Zenon DEF Render, DiscoverSettles
<1>4. CASE onSave
  <2>1. PICK k \in 1..MaxSaves, c \in SaveStates :
           /\ saves' = [saves EXCEPT ![k] = c]
           /\ c.at = "saving" /\ c.ids = selectedIds /\ (c.first => c.sel = "sent") /\ c.sel \in {"sent", "no"}
    BY <1>4, OnSave, Zenon
  <2>2. /\ saves' \in [1..MaxSaves -> SaveStates]
        /\ \A j \in 1..MaxSaves : saves'[j] = IF j = k THEN c ELSE saves[j]
    BY <1>0, <2>1, Zenon
  <2>3. Sound(c, db'.onboarded)
    BY <2>1, Zenon DEF Sound
  <2>4. \A j \in 1..MaxSaves : Sound(saves[j], db'.onboarded)
    BY <1>0, Zenon DEF AllSound, Sound
  <2> QED BY <1>4, <2>1, <2>2, <2>3, <2>4, Zenon DEF AllSound
<1> QED BY <1>1, <1>2, <1>3, <1>4, SavesStand, EveryStep, Zenon

-----------------------------------------------------------------------------
(* What else the page holds.                                                *)

(* The query behind a stream reads the rows of the source.                  *)
ReadsSource == \A s \in Streams : \A rows \in Rows : Read(s, rows) = ReadSource(s, rows)

(* The snapshots keep their type.                                           *)
LEMMA SeesKept ==
    ASSUME TypeOK, ReadsSource, [ManageNext]_mvars
    PROVE  /\ sees'["connections"] \in Conns \cup {None, Gone}
           /\ sees'["projects"] \in Lists \cup {None}
<1>0. /\ db \in Rows /\ DOMAIN sees = Streams
      /\ sees["connections"] \in Conns \cup {None, Gone} /\ sees["projects"] \in Lists \cup {None}
      /\ "connections" \in Streams /\ "projects" \in Streams
  BY ManageAssumption, Zenon DEF TypeOK, WatchTypeOK
<1>1. Read("projects", db) \in Lists
  <2>1. NoList \in Lists
    BY DEF NoList, Lists, UnitStates
  <2>2. db.list \in Lists
    BY <1>0, Zenon DEF Rows
  <2> QED BY <1>0, <2>1, <2>2, ZenonT(60) DEF ReadsSource, ReadSource
<1>2. Read("connections", db) \in Conns \cup {Gone}
  <2>1. [onboarded |-> db.onboarded, discovered |-> db.discovered, on |-> db.on, every |-> db.every] \in Conns
    BY <1>0 DEF Rows, Conns
  <2> QED BY <1>0, <2>1, ZenonT(60) DEF ReadsSource, ReadSource
<1>3. ASSUME NEW s \in Streams
      PROVE  sees'[s] \in {sees[s], Read(s, db), None}
  <2>1. CASE \E on \in SUBSET Streams : Watching(on)
    BY <2>1 DEF Watching
  <2>2. CASE \E t \in Streams : Send(t)
    BY <1>0, <2>2 DEF Send
  <2>3. CASE sees' = sees
    BY <2>3, Zenon
  <2>4. \/ sees' = sees \/ (\E t \in Streams : Send(t)) \/ (\E on \in SUBSET Streams : Watching(on))
    BY StepImplements, Zenon DEF WatchNext, wvars, feed, Feed, NotifyConnectionChanged, NotifyFails, Deliver,
          ListenerLost, Listen, Subscribe, Reconnect, Drop, Written, WrittenUntold, FaultElsewhere
  <2> QED BY <2>1, <2>2, <2>3, <2>4, ZenonT(60)
<1> QED BY <1>0, <1>1, <1>2, <1>3, Zenon

(* The queries keep their type.                                             *)
LEMMA QueriesKept ==
    ASSUME TypeOK, [ManageNext]_mvars
    PROVE  disc' \in QueryStates /\ srch' \in QueryStates
<1>0. disc \in QueryStates /\ srch \in QueryStates /\ db.list \in Lists
  BY Zenon DEF TypeOK, Rows
<1>1. ASSUME NEW x \in QueryStates, NEW l \in Lists, NEW b \in BOOLEAN
      PROVE  [x EXCEPT !.fetching = b] \in QueryStates /\ Fetched(x, l) \in QueryStates /\ Fetched(x, x.data) \in QueryStates
  BY <1>1, Zenon DEF QueryStates, Fetched
<1>2. Named(db.list) \in Lists
  <2>1. db.list.unit \in [Projects -> UnitStates] /\ db.list.sel \in SUBSET Projects /\ "absent" \in UnitStates
    BY <1>0 DEF Lists, UnitStates
  <2>2. [p \in Projects |-> IF p \in Matches THEN db.list.unit[p] ELSE "absent"] \in [Projects -> UnitStates]
    BY <2>1, Zenon
  <2> QED BY <2>1, <2>2, SMTT(30) DEF Named, Lists
<1>3. CASE UNCHANGED <<disc, srch>>
  BY <1>0, <1>3, Zenon
<1>4. CASE \E k \in 1..MaxSaves : SetProjectSelection(k) \/ UpdateSyncSchedule(k) \/ Answer(k)
  <2>1. \E k, c : Settle(k, c)
    BY <1>4, Zenon DEF SetProjectSelection, UpdateSyncSchedule, Answer
  <2>2. srch' = srch /\ disc' \in {disc, [disc EXCEPT !.fetching = TRUE]}
    BY <2>1, Zenon DEF Settle
  <2> QED BY <1>0, <1>1, <2>2, Zenon
<1>5. CASE Render
  <2>1. /\ disc' \in {disc, [disc EXCEPT !.fetching = TRUE], [disc EXCEPT !.fetching = FALSE]}
        /\ srch' \in {srch, [srch EXCEPT !.fetching = FALSE]}
    BY <1>5, Zenon DEF Render
  <2> QED BY <1>0, <1>1, <2>1, Zenon
<1>6. CASE Debounced
  <2>1. disc' = disc /\ srch' \in {srch, [srch EXCEPT !.fetching = TRUE]}
    BY <1>6, Zenon DEF Debounced
  <2> QED BY <1>0, <1>1, <2>1, Zenon
<1>7. CASE DiscoverSettles
  BY <1>0, <1>1, <1>7, Zenon DEF DiscoverSettles
<1>8. CASE SearchSettles
  BY <1>0, <1>1, <1>2, <1>8, Zenon DEF SearchSettles
<1>9. \/ UNCHANGED mvars \/ FeedStep \/ Edits \/ Moves \/ onSave \/ Disconnect \/ Removed
      \/ MountEditor \/ GraceElapses \/ Discovery \/ Colleague
      => UNCHANGED <<disc, srch>>
  BY EditsChangePanel, Zenon DEF mvars, mine, FeedStep, Moves, Leave, SetOpen, onConfirm, Open, Dialog, onSave,
        Disconnect, Removed, MountEditor, GraceElapses, Discovery, Colleague, Others
<1> QED BY <1>3, <1>4, <1>5, <1>6, <1>7, <1>8, <1>9, EveryStep, Zenon

(* So do the router, the dialog and the counters.                           *)
LEMMA RestKept ==
    ASSUME TypeOK, [ManageNext]_mvars
    PROVE  /\ kind' = kind /\ page' \in {"manage", "details", "sources"} /\ grace' \in BOOLEAN
           /\ dialog' \in [at: {"closed", "open", "typed"}, call: {"no", "sent", "stored"}]
           /\ edits' \in 0..MaxEdits /\ events' \in 0..MaxEvents
<1> DEFINE Dialogs == [at: {"closed", "open", "typed"}, call: {"no", "sent", "stored"}]
           Steps == \/ UNCHANGED <<edits, events>>
                    \/ edits < MaxEdits /\ edits' = edits + 1 /\ events' = events
                    \/ events < MaxEvents /\ events' = events + 1 /\ edits' = edits
           Same == UNCHANGED <<kind, page, grace, dialog, edits, events>>
           Goal == /\ kind' = kind /\ page' \in {"manage", "details", "sources"} /\ grace' \in BOOLEAN
                   /\ dialog' \in Dialogs /\ Steps
<1>0. /\ page \in {"manage", "details", "sources"} /\ grace \in BOOLEAN /\ dialog \in Dialogs
      /\ edits \in 0..MaxEdits /\ events \in 0..MaxEvents
  BY Zenon DEF TypeOK
<1>1. ASSUME NEW x \in {"closed", "open", "typed"}, NEW y \in {"no", "sent", "stored"}
      PROVE  /\ [dialog EXCEPT !.at = x] \in Dialogs /\ [dialog EXCEPT !.call = y] \in Dialogs
             /\ [at |-> x, call |-> y] \in Dialogs /\ dialog.at \in {"closed", "open", "typed"}
  BY <1>0
<1> HIDE DEF Dialogs
<1>2. Same => Goal
  BY <1>0, Zenon
<1>3. ASSUME UNCHANGED mvars \/ FeedStep \/ onSave \/ MountEditor \/ Debounced \/ SearchSettles PROVE Goal
  BY <1>2, <1>3, Zenon DEF mvars, mine, FeedStep, onSave, MountEditor, Debounced, SearchSettles
<1>4. ASSUME Edits PROVE Goal
  BY <1>0, <1>4, EditsChangePanel, Zenon
<1>5. ASSUME Moves PROVE Goal
  <2>1. CASE (\E to \in {"sources", "details"} : Leave(to)) \/ Open
    BY <1>0, <2>1, Zenon DEF Leave, Open
  <2>2. CASE \E at \in {"open", "typed", "closed"} : SetOpen(at)
    BY <1>0, <1>1, <2>2, Zenon DEF SetOpen, Dialog
  <2>3. CASE \E how \in {"click", "enter"} : onConfirm(how)
    BY <1>0, <1>1, <2>3, Zenon DEF onConfirm, Dialog
  <2> QED BY <1>5, <2>1, <2>2, <2>3, Zenon DEF Moves
<1>6. ASSUME \E k \in 1..MaxSaves : SetProjectSelection(k) \/ UpdateSyncSchedule(k) \/ Answer(k) PROVE Goal
  <2>1. \E k, c : Settle(k, c)
    BY <1>6, Zenon DEF SetProjectSelection, UpdateSyncSchedule, Answer
  <2> QED BY <1>2, <2>1, Zenon DEF Settle
<1>7. ASSUME Disconnect \/ Removed PROVE Goal
  BY <1>0, <1>1, <1>7, Zenon DEF Disconnect, Removed, Dialog
<1>8. ASSUME Render PROVE Goal
  BY <1>0, <1>1, <1>8, Zenon DEF Render, Finish
<1>9. ASSUME DiscoverSettles \/ GraceElapses PROVE Goal
  BY <1>0, <1>9, Zenon DEF DiscoverSettles, Finish, GraceElapses
<1>10. ASSUME Discovery \/ Colleague PROVE Goal
  BY <1>0, <1>10, Zenon DEF Discovery, Colleague, Others
<1>11. Goal
  BY <1>3, <1>4, <1>5, <1>6, <1>7, <1>8, <1>9, <1>10, EveryStep, ZenonT(60)
<1>12. edits' \in 0..MaxEdits /\ events' \in 0..MaxEvents
  BY <1>0, <1>11, ManageAssumption, SMT
<1> QED BY <1>11, <1>12, Zenon DEF Dialogs

-----------------------------------------------------------------------------
(* The invariant of the page, and what follows from it.                     *)

MInv == TypeOK /\ InBounds /\ PanelGood /\ Mounted /\ AllSound

(* The rows the page may start from: an enabled schedule is within bounds,  *)
(* as every write of it is.                                                 *)
StoredRows(rows) ==
    rows \subseteq {r \in Rows : r.on => r.every \in minSyncIntervalSeconds..maxSyncIntervalSeconds}

(* The page starts with it.                                                 *)
LEMMA ManageStarts ==
    ASSUME NEW rows, StoredRows(rows), ManageInit(rows)
    PROVE  MInv
<1>1. WatchTypeOK /\ "connections" \in Streams /\ "projects" \in Streams
  <2>1. Fresh("off") \in StreamStates
    BY FreshIsTyped DEF Phases
  <2>2. notes \in BOOLEAN /\ listener \in BOOLEAN
    BY Zenon DEF ManageInit, WatchInit
  <2>3. writers \in 0..MaxWriters /\ faults \in 0..MaxFaults
    BY WatchAssumption, SMT DEF ManageInit, WatchInit
  <2>4. stream \in [Streams -> StreamStates] /\ DOMAIN sees = Streams
    BY <2>1, Zenon DEF ManageInit, WatchInit
  <2> QED BY <2>2, <2>3, <2>4, ManageAssumption, Zenon DEF WatchTypeOK
<1>2. db \in Rows /\ InBounds
  BY Zenon DEF ManageInit, StoredRows, InBounds
<1>3. sees["connections"] = None /\ sees["projects"] = None /\ \A s \in Streams : sees[s] = None
  BY <1>1, Zenon DEF ManageInit, WatchInit
<1>4. disc \in QueryStates /\ srch \in QueryStates
  BY DEF ManageInit, QueryStates
<1>5. saves \in [1..MaxSaves -> SaveStates] /\ AllSound
  <2>1. MIN_SECONDS \in Intervals
    BY SMT DEF MIN_SECONDS, Intervals
  <2> HIDE DEF MIN_SECONDS
  <2>2. \A c \in {NoSave, EarlierSave} : c \in SaveStates /\ ~c.first /\ c.sel = "no" /\ c.sched = "no"
    <3>1. NoSave \in SaveStates /\ NoSave.first = FALSE /\ NoSave.sel = "no" /\ NoSave.sched = "no"
      BY <2>1 DEF NoSave, SaveStates, CallStates
    <3>2. \A c \in SaveStates : LET d == [c EXCEPT !.at = "done"]
                               IN  d \in SaveStates /\ d.first = c.first /\ d.sel = c.sel /\ d.sched = c.sched
      BY DEF SaveStates
    <3> QED BY <3>1, <3>2, ZenonT(60) DEF EarlierSave
  <2>3. saves \in [1..MaxSaves -> {NoSave, EarlierSave}]
    BY Zenon DEF ManageInit
  <2>4. \A k \in 1..MaxSaves : saves[k] \in {NoSave, EarlierSave}
    BY <2>3, Zenon
  <2>5. {NoSave, EarlierSave} \subseteq SaveStates
    BY <2>2, Zenon
  <2>6. saves \in [1..MaxSaves -> SaveStates]
    BY <2>3, <2>5, SMTT(30)
  <2> QED BY <2>2, <2>4, <2>6, Zenon DEF AllSound, Sound
<1>6. dialog \in [at: {"closed", "open", "typed"}, call: {"no", "sent", "stored"}]
  BY DEF ManageInit, Closed
<1>7. panel = NoPanel /\ kind \in {"manage", "connector"} /\ page = "manage" /\ grace \in BOOLEAN
  BY Zenon DEF ManageInit
<1>8. edits \in 0..MaxEdits /\ events \in 0..MaxEvents
  BY Zenon DEF ManageInit
<1>9. TypeOK
  BY <1>1, <1>2, <1>3, <1>4, <1>5, <1>6, <1>7, <1>8, Zenon DEF TypeOK
<1> QED BY <1>2, <1>3, <1>5, <1>7, <1>9, Zenon DEF MInv, PanelGood, Mounted

(* Every step keeps it.                                                     *)
LEMMA ManageInductive ==
    ASSUME ReadsSource, MInv, [ManageNext]_mvars
    PROVE  MInv'
<1>0. TypeOK /\ InBounds /\ PanelGood /\ Mounted /\ AllSound
  BY Zenon DEF MInv
<1>1. WatchTypeOK'
  BY <1>0, Typed, StepImplements, Zenon DEF TypeOK
<1>2. db' \in Rows /\ InBounds'
  BY <1>0, RowsKept, Zenon
<1>3. panel' \in Panels \cup {NoPanel} /\ PanelGood' /\ Mounted'
  BY <1>0, PanelKept, Zenon DEF Good, PanelGood
<1>4. saves' \in [1..MaxSaves -> SaveStates] /\ AllSound'
  BY <1>0, SavesKept, Zenon
<1>5. TypeOK'
  BY <1>0, <1>1, <1>2, <1>3, <1>4, SeesKept, QueriesKept, RestKept, Zenon DEF TypeOK
<1> QED BY <1>2, <1>3, <1>4, <1>5, Zenon DEF MInv

(* Whatever the page, discovery, other members and the feed do, the types   *)
(* are kept, an enabled schedule stays within the server's bounds, the      *)
(* editor agrees with the interval beside it, the panel is there only with  *)
(* its stream, and a save goes on only when its calls succeeded.            *)
THEOREM PageInvariant ==
    ASSUME NEW CONSTANT rows, StoredRows(rows), ReadsSource
    PROVE  ManageSpec(rows) => [](TypeOK /\ MInv)
<1>1. ManageInit(rows) => MInv
  BY ManageStarts, Zenon
<1>2. MInv /\ [ManageNext]_mvars => MInv'
  BY ManageInductive, Zenon
<1>3. MInv => TypeOK
  BY Zenon DEF MInv
<1> QED BY <1>1, <1>2, <1>3, PTL DEF ManageSpec

(* "Saved" is said of what the server stored (manage/page.tsx 217-252,      *)
(* server.go 487-520 and 523-551), however the two calls, their answers,    *)
(* their failures and the writes of others are ordered.                     *)
THEOREM SavedMeansStored ==
    ASSUME NEW CONSTANT rows, StoredRows(rows), ReadsSource
    PROVE  ManageSpec(rows) => []SavedIsStored
<1>1. MInv => SavedIsStored
  BY Zenon DEF MInv, AllSound, Sound, InBounds, SavedIsStored
<1> QED BY <1>1, PageInvariant, PTL

(* The editor shows the interval a save would send, or its hint, and no     *)
(* interval under the floor is held or sent (sync-schedule.tsx 28-37 and    *)
(* 97-117), whatever is typed, chosen, mounted again or switched off.       *)
THEOREM EditorNeverDisagrees ==
    ASSUME NEW CONSTANT rows, StoredRows(rows), ReadsSource
    PROVE  ManageSpec(rows) => []EditorAgrees
<1>1. MInv => EditorAgrees
  <2> SUFFICES ASSUME MInv PROVE EditorAgrees
    OBVIOUS
  <2>1. \A n \in Intervals : n >= MIN_SECONDS
    BY SMT DEF Intervals, MIN_SECONDS
  <2>2. \A k \in 1..MaxSaves : saves[k].every \in Intervals
    BY SMTT(30) DEF MInv, TypeOK, SaveStates
  <2>3. panel # NoPanel => panel.every \in Intervals /\ Agrees(panel)
    BY DEF MInv, TypeOK, Panels, PanelGood
  <2> QED BY <2>1, <2>2, <2>3, Zenon DEF EditorAgrees, Agrees
<1> QED BY <1>1, PageInvariant, PTL

(* One step never takes an edit back but at the end of a save, and a save   *)
(* asks for exactly what is selected.                                       *)
LEMMA EditsStep ==
    ASSUME MInv, [ManageNext]_mvars
    PROVE  /\ \A p \in Projects :
                 (panel # NoPanel /\ panel' # NoPanel /\ kind = "manage"
                    /\ panel.pending[p] # "none" /\ panel'.pending[p] = "none")
                 => \E k \in 1..MaxSaves : saves[k].at = "refetching" /\ saves'[k].at = "done"
           /\ \A k \in 1..MaxSaves :
                 saves[k].at = "unused" /\ saves'[k].at = "saving" =>
                     \A p \in Selectable(allProjects) :
                         p \in saves'[k].ids <=> \/ panel.pending[p] = "yes"
                                                 \/ panel.pending[p] = "none" /\ p \in allProjects.sel
<1>0. TypeOK /\ InBounds /\ PanelGood /\ Mounted /\ AllSound
  BY Zenon DEF MInv
<1>1. ASSUME NEW p \in Projects, panel # NoPanel, panel' # NoPanel, kind = "manage",
             panel.pending[p] # "none", panel'.pending[p] = "none"
      PROVE  \E k \in 1..MaxSaves : saves[k].at = "refetching" /\ saves'[k].at = "done"
  <2>1. DiscoverSettles /\ Refetching # {}
    BY <1>0, <1>1, PanelKept, Zenon DEF KeepsMarks
  <2>2. PICK k \in DOMAIN saves : k \in Refetching /\ saves[k].at = "refetching"
    BY <2>1, Zenon DEF Refetching
  <2>3. k \in 1..MaxSaves /\ saves'[k] = Done(saves[k])
    BY <1>0, <2>1, <2>2, Zenon DEF TypeOK, DiscoverSettles, Finish
  <2>4. Done(saves[k]).at = "done"
    BY DEF Done, NoSave
  <2> QED BY <2>2, <2>3, <2>4, Zenon
<1>2. ASSUME NEW k \in 1..MaxSaves, saves[k].at = "unused", saves'[k].at = "saving",
             NEW p \in Selectable(allProjects)
      PROVE  p \in saves'[k].ids <=> \/ panel.pending[p] = "yes"
                                     \/ panel.pending[p] = "none" /\ p \in allProjects.sel
  <2>1. saves'[k].ids = selectedIds
    BY <1>0, <1>2, SavesKept, Zenon
  <2>2. allProjects # None
    BY <1>2, Zenon DEF Selectable, isSelectable, Known
  <2> QED BY <1>2, <2>1, <2>2, Zenon DEF selectedIds, Selected, isSelected
<1> QED BY <1>1, <1>2, Zenon

(* Snapshots, drops, reconnects, searches and failures take no unsaved edit *)
(* back, and whatever a search hides a save reckons over every project      *)
(* (manage/page.tsx 147-199 and 217-252).                                   *)
THEOREM EditsAreKept ==
    ASSUME NEW CONSTANT rows, StoredRows(rows), ReadsSource
    PROVE  ManageSpec(rows) => EditsReachTheServer
<1>1. MInv /\ [ManageNext]_mvars =>
         [/\ \A p \in Projects :
                 (panel # NoPanel /\ panel' # NoPanel /\ kind = "manage"
                    /\ panel.pending[p] # "none" /\ panel'.pending[p] = "none")
                 => \E k \in 1..MaxSaves : saves[k].at = "refetching" /\ saves'[k].at = "done"
          /\ \A k \in 1..MaxSaves :
                 saves[k].at = "unused" /\ saves'[k].at = "saving" =>
                     \A p \in Selectable(allProjects) :
                         p \in saves'[k].ids <=> \/ panel.pending[p] = "yes"
                                                 \/ panel.pending[p] = "none" /\ p \in allProjects.sel]_mvars
  BY EditsStep, Zenon
<1> QED BY <1>1, PageInvariant, PTL DEF ManageSpec, EditsReachTheServer
=============================================================================
