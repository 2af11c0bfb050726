------------------------------- MODULE Ingest -------------------------------
(* Draining one sync unit: the SyncUnit activity and its emit closure       *)
(* (integrations/internal/activity/activity.go), the paging loops of the    *)
(* connectors it calls (connectors/github.go, connectors/gdocs.go) and the  *)
(* object store it writes to (storage/storage.go).                          *)
(*                                                                          *)
(* A unit is a repository ("issues", paged by number), a drive ("docs",     *)
(* paged by token) or a Projects v2 board ("board", paged by token and      *)
(* without a cursor).  The source changes while it is read, an attempt may  *)
(* stop at any step, and one that misses its heartbeat goes on beside its   *)
(* successor.  Each request to the source, the store or the database is one *)
(* step.  artifact_count is left out: CommitUnit recomputes it.             *)
EXTENDS Integers, FiniteSets

CONSTANTS
    Items,       \* the items of the unit: a range 1..N
    Pulls,       \* the items the issues endpoint lists that are pull requests
    Kinds,       \* the kinds of unit considered
    Attempts,    \* the executions of SyncUnit that may overlap
    PerPage,     \* perPage, pageSize
    MaxPages,    \* maxPages: the page budget of one call
    HardCap,     \* hardCap: the page budget on a plateau of equal stamps
    BoardPages,  \* the page budget of a board
    MaxStamp,    \* bound: the latest timestamp
    MaxEdits,    \* bound: changes at the source
    MaxMishaps   \* bound: attempts cut short, heartbeats missed, cursor writes lost

ASSUME ItemsAssumption ==
    /\ Items \subseteq Nat \ {0}
    /\ IsFiniteSet(Items)
    /\ Pulls \subseteq Items

ASSUME KindsAssumption == Kinds \subseteq {"issues", "docs", "board"}

ASSUME PagesAssumption ==
    /\ {PerPage, MaxPages, HardCap, BoardPages} \subseteq Nat \ {0}
    /\ HardCap >= MaxPages

ASSUME IngestBoundsAssumption == {MaxStamp, MaxEdits, MaxMishaps} \subseteq Nat

VARIABLES
    kind,      \* sync_unit.kind
    source,    \* the source: per item its place in the order of change, its
               \* updatedAt and its version; at = 0 while it does not exist
    edits,     \* changes made at the source so far
    cursor,    \* sync_unit.cursor, 0 for ''
    committed, \* sync_unit.committed_at IS NOT NULL
    manifest,  \* raw_artifact: the version whose hash the row holds, 0 = no row
    objects,   \* the object store: the <<item, version>> whose bytes it holds
    attempt,   \* the executions of SyncUnit
    mishaps,   \* mishaps so far
    late,      \* history: attempts that missed their heartbeat
    moved,     \* history: a listed item changed while later pages were due
    owed       \* history: the items that existed when the unit was selected

history == <<late, moved, owed>>

vars == <<kind, source, edits, cursor, committed, manifest, objects, attempt,
          mishaps, history>>

unitRow == <<cursor, committed>>

-----------------------------------------------------------------------------
(* The listing a query of the source answers with, at this moment.          *)

Exists(i) == source[i].at # 0

(* What the source would have the platform keep: not the pull requests.     *)
Wanted == IF kind = "issues" THEN Items \ Pulls ELSE Items

(* updatedAt ascending; a board keeps its items in their own order.         *)
Key(i) == IF kind = "board" THEN i ELSE source[i].at

(* A variant of Listing with an exclusive filter.                           *)
ListingAfter(since) ==
    {i \in Items : Exists(i) /\ (kind = "board" \/ source[i].stamp > since)}

(* `since` and `modifiedTime >=` are inclusive; a board has no filter.      *)
Listing(since) ==
    {i \in Items : Exists(i) /\ (kind = "board" \/ source[i].stamp >= since)}

Rank(i, S) == Cardinality({j \in S : Key(j) < Key(i)})

(* What follows the page token.                                             *)
Rest(p) == {i \in Listing(p.start) : Key(i) > p.token}

Page(p) ==
    IF kind = "issues"
    THEN {i \in Listing(p.start) :
              Rank(i, Listing(p.start)) \in (p.page - 1) * PerPage .. p.page * PerPage - 1}
    ELSE {i \in Rest(p) : Rank(i, Rest(p)) < PerPage}

(* A full page of issues, or a token for the next page.                     *)
More(p) ==
    IF kind = "issues" THEN Cardinality(Page(p)) = PerPage ELSE Page(p) # Rest(p)

Token(p) ==
    IF Page(p) = {} THEN p.token
    ELSE LET last == CHOOSE i \in Page(p) : \A j \in Page(p) : Key(j) <= Key(i)
         IN  Key(last)

Entries(p) ==
    {[item |-> i, key |-> Key(i), version |-> source[i].version,
      stamp |-> IF kind = "board" THEN 0 ELSE source[i].stamp]
        : i \in Page(p) \cap Wanted}

-----------------------------------------------------------------------------
NoAttempt == [at |-> "idle", start |-> 0, high |-> 0, page |-> 0, token |-> 0,
              more |-> FALSE, batch |-> {}, version |-> 0]

(* A newly selected unit of a source with some history.                     *)
Init ==
    /\ kind \in Kinds
    /\ \E existing \in SUBSET Items, time \in [Items -> 1..MaxStamp] :
          /\ \A i, j \in existing : i <= j => time[i] <= time[j]
          /\ \A i \in Items \ existing : time[i] = 1
          /\ source = [i \in Items |->
                IF i \in existing THEN [at |-> i, stamp |-> time[i], version |-> 1]
                ELSE [at |-> 0, stamp |-> 0, version |-> 0]]
    /\ edits = 0
    /\ cursor = 0
    /\ committed = FALSE
    /\ manifest = [i \in Items |-> 0]
    /\ objects = {}
    /\ attempt = [a \in Attempts |-> NoAttempt]
    /\ mishaps = 0
    /\ late = {}
    /\ moved = FALSE
    /\ owed = {i \in Items : Exists(i)}

-----------------------------------------------------------------------------
(* The source.                                                              *)

Latest(S) == CHOOSE m \in S : \A n \in S : n <= m

(* The pages attempt a has been given.                                      *)
Fetched(a) == IF attempt[a].at = "page" THEN attempt[a].page - 1 ELSE attempt[a].page

(* Item i is on a page by number that attempt a has been given.             *)
Listed(a, i) ==
    /\ kind = "issues"
    /\ attempt[a].at # "idle"
    /\ i \in Listing(attempt[a].start)
    /\ Rank(i, Listing(attempt[a].start)) < Fetched(a) * PerPage

(* An item is created, edited, or touched without a change of content.      *)
Edit(i) ==
    /\ edits < MaxEdits
    /\ LET last == Latest({source[j].at : j \in Items})
           now == Latest({source[j].stamp : j \in Items})
       IN  \E stamp \in {now, now + 1} \cap 1..MaxStamp,
              version \in {source[i].version, source[i].version + 1} \ {0} :
              source' = [source EXCEPT ![i] =
                  [at |-> last + 1, stamp |-> stamp, version |-> version]]
    /\ edits' = edits + 1
    /\ moved' = (moved \/ \E a \in Attempts : Listed(a, i))
    /\ UNCHANGED <<kind, unitRow, manifest, objects, attempt, mishaps, late, owed>>

-----------------------------------------------------------------------------
(* One execution of SyncUnit.                                               *)

(* The attempt Temporal believes in: it runs one attempt of a unit at a     *)
(* time, and takes one without heartbeats for dead.                         *)
Current == CHOOSE a \in Attempts : a \notin late

Begin(a) ==
    /\ a = Current
    /\ attempt[a].at = "idle"
    /\ attempt' = [attempt EXCEPT ![a] =
          [NoAttempt EXCEPT !.at = "page", !.start = cursor, !.high = cursor, !.page = 1]]
    /\ UNCHANGED <<kind, source, edits, unitRow, manifest, objects, mishaps, history>>

(* A variant of BudgetSpent that forgets the plateau.                       *)
BudgetSpentOnPlateau(p) ==
    IF kind = "board" THEN p.page = BoardPages ELSE p.page >= MaxPages

(* The page budget is used up, or the hard ceiling is reached.  newPos of   *)
(* the connectors always equals the emit closure's high.                    *)
BudgetSpent(p) ==
    IF kind = "board" THEN p.page = BoardPages
    ELSE (p.page >= MaxPages /\ p.high # p.start) \/ p.page = HardCap

(* A variant of AfterPage that takes a used-up budget for the end.          *)
AfterPageBudgetIsEnd(p) ==
    IF ~p.more \/ BudgetSpent(p) THEN [p EXCEPT !.at = "finish"]
    ELSE [p EXCEPT !.at = "page", !.page = p.page + 1]

(* Where the loop goes once no entry of the page is left: to the commit of  *)
(* a caught-up unit, out of the call, or to the next page.                  *)
AfterPage(p) ==
    IF ~p.more THEN [p EXCEPT !.at = "finish"]
    ELSE IF BudgetSpent(p) THEN NoAttempt
    ELSE [p EXCEPT !.at = "page", !.page = p.page + 1]

NextEntry(p) == IF p.batch = {} THEN AfterPage(p) ELSE [p EXCEPT !.at = "check"]

(* List a page.  The comments of its issues are fetched with it.            *)
FetchPage(a) ==
    LET p == attempt[a] IN
    /\ p.at = "page"
    /\ attempt' = [attempt EXCEPT ![a] =
          NextEntry([p EXCEPT !.batch = Entries(p), !.more = More(p), !.token = Token(p)])]
    /\ UNCHANGED <<kind, source, edits, unitRow, manifest, objects, mishaps, history>>

(* The entry emitted next: the first of the batch.                          *)
Entry(a) == CHOOSE e \in attempt[a].batch : \A f \in attempt[a].batch : e.key <= f.key

(* A document is exported when it is emitted, not when it is listed.        *)
Raw(e) == IF kind = "docs" THEN source[e.item].version ELSE e.version

Emitted(a, high) ==
    LET p == attempt[a] IN
    NextEntry([p EXCEPT !.batch = @ \ {Entry(a)}, !.high = high, !.version = 0])

(* An unchanged item is skipped; the cursor moves past it, and a failure of *)
(* that write is ignored.                                                   *)
EmitUnchanged(a) ==
    /\ attempt[a].at = "check"
    /\ manifest[Entry(a).item] = Raw(Entry(a))
    /\ IF Entry(a).stamp > attempt[a].high
       THEN /\ attempt' = [attempt EXCEPT ![a] = Emitted(a, Entry(a).stamp)]
            /\ \/ cursor' = Entry(a).stamp /\ UNCHANGED mishaps
               \/ mishaps < MaxMishaps /\ mishaps' = mishaps + 1 /\ UNCHANGED cursor
       ELSE /\ attempt' = [attempt EXCEPT ![a] = Emitted(a, attempt[a].high)]
            /\ UNCHANGED <<cursor, mishaps>>
    /\ UNCHANGED <<kind, source, edits, committed, manifest, objects, history>>

(* A variant of EmitChanged that leaves the bytes for later.                *)
EmitChangedRowFirst(a) ==
    /\ attempt[a].at = "check"
    /\ manifest[Entry(a).item] # Raw(Entry(a))
    /\ attempt' = [attempt EXCEPT ![a].at = "commit", ![a].version = Raw(Entry(a))]
    /\ UNCHANGED <<kind, source, edits, unitRow, manifest, objects, mishaps, history>>

EmitChanged(a) ==
    /\ attempt[a].at = "check"
    /\ manifest[Entry(a).item] # Raw(Entry(a))
    /\ attempt' = [attempt EXCEPT ![a].at = "put", ![a].version = Raw(Entry(a))]
    /\ UNCHANGED <<kind, source, edits, unitRow, manifest, objects, mishaps, history>>

(* The bytes are written first.                                             *)
Put(a) ==
    /\ attempt[a].at = "put"
    /\ objects' = objects \cup {<<Entry(a).item, attempt[a].version>>}
    /\ attempt' = [attempt EXCEPT ![a].at = "commit"]
    /\ UNCHANGED <<kind, source, edits, unitRow, manifest, mishaps, history>>

(* Then the manifest row and the cursor, in one transaction.                *)
Commit(a) ==
    LET e == Entry(a)
        advance == e.stamp > attempt[a].high
    IN
    /\ attempt[a].at = "commit"
    /\ manifest' = [manifest EXCEPT ![e.item] = attempt[a].version]
    /\ cursor' = IF advance THEN e.stamp ELSE cursor
    /\ attempt' = [attempt EXCEPT ![a] =
          Emitted(a, IF advance THEN e.stamp ELSE attempt[a].high)]
    /\ UNCHANGED <<kind, source, edits, committed, objects, mishaps, history>>

(* Caught up: CommitUnit makes the unit's files visible.                    *)
CommitUnit(a) ==
    /\ attempt[a].at = "finish"
    /\ committed' = TRUE
    /\ attempt' = [attempt EXCEPT ![a] = NoAttempt]
    /\ UNCHANGED <<kind, source, edits, cursor, manifest, objects, mishaps, history>>

(* A stop, an error of the source, the store or the database, or the death  *)
(* of the worker: what is committed stays, the rest is forgotten.           *)
CutShort(a) ==
    /\ attempt[a].at # "idle"
    /\ mishaps < MaxMishaps
    /\ mishaps' = mishaps + 1
    /\ attempt' = [attempt EXCEPT ![a] = NoAttempt]
    /\ UNCHANGED <<kind, source, edits, unitRow, manifest, objects, history>>

(* Temporal gives the attempt up; the attempt itself goes on.               *)
MissHeartbeat(a) ==
    /\ attempt[a].at # "idle"
    /\ a \notin late
    /\ Attempts \ (late \cup {a}) # {}
    /\ mishaps < MaxMishaps
    /\ mishaps' = mishaps + 1
    /\ late' = late \cup {a}
    /\ UNCHANGED <<kind, source, edits, unitRow, manifest, objects, attempt, moved, owed>>

Step(a) ==
    \/ Begin(a)
    \/ FetchPage(a)
    \/ EmitUnchanged(a)
    \/ EmitChanged(a)
    \/ Put(a)
    \/ Commit(a)
    \/ CommitUnit(a)

Next ==
    \/ \E i \in Items : Edit(i)
    \/ \E a \in Attempts : Step(a) \/ CutShort(a) \/ MissHeartbeat(a)

Spec == Init /\ [][Next]_vars

(* The workflow launches a unit that is behind again and again, auto-sync a *)
(* unit that is caught up, and a worker carries its attempt on.  Nothing is *)
(* assumed of an attempt that Temporal has given up.                        *)
FairSpec == Spec /\ WF_vars(Step(Current))

-----------------------------------------------------------------------------
Stamps == 0..MaxStamp

Versions == 0..MaxEdits + 1

EntrySet == [item : Items, key : Nat, version : Versions, stamp : Stamps]

AttemptSet ==
    [at : {"idle", "page", "check", "put", "commit", "finish"}, start : Stamps,
     high : Stamps, page : Nat, token : Nat, more : BOOLEAN,
     batch : SUBSET EntrySet, version : Versions]

(* Every variable keeps its type, and a step that emits has an entry left.  *)
TypeOK ==
    /\ kind \in Kinds
    /\ source \in [Items -> [at : Nat, stamp : Stamps, version : Versions]]
    /\ edits \in 0..MaxEdits
    /\ cursor \in Stamps
    /\ committed \in BOOLEAN
    /\ manifest \in [Items -> Versions]
    /\ objects \subseteq Items \X Versions
    /\ attempt \in [Attempts -> AttemptSet]
    /\ \A a \in Attempts :
          attempt[a].at \in {"check", "put", "commit"} => attempt[a].batch # {}
    /\ mishaps \in 0..MaxMishaps
    /\ late \subseteq Attempts
    /\ moved \in BOOLEAN
    /\ owed \subseteq Items

(* Everything the cursor has passed is in the manifest at its current       *)
(* version: the cursor "is a true high-water mark", an interruption leaves  *)
(* "a gapless resume point" (github.go:391-394).                            *)
Gapless ==
    \A i \in Wanted : Exists(i) /\ source[i].stamp < cursor =>
        manifest[i] = source[i].version

(* The same, as long as no attempt has outlived its heartbeat and no listed *)
(* issue has changed while the page after it was still to be fetched: the   *)
(* order of put, commit and cursor, the inclusive filter and the emission   *)
(* order leave no gap, whatever is cut short.                               *)
GaplessUnlessMoved == late = {} /\ ~moved => Gapless

(* A manifest row always points at bytes the store holds (emit writes the   *)
(* bytes first, activity.go:472-475), overlapping attempts included.        *)
NoDanglingRow == \A i \in Items : manifest[i] # 0 => <<i, manifest[i]>> \in objects

(* A unit becomes visible only after a full pass: once committed_at is set, *)
(* every item the source had when the unit was selected is in the manifest  *)
(* (ListArtifacts, "so partial data never surfaces", artifact.sql:14).      *)
VisibleWhenComplete ==
    committed /\ late = {} /\ ~moved =>
        \A i \in owed \cap Wanted : manifest[i] # 0

(* The unit is caught up in the end: every version of every item is in the  *)
(* manifest and the unit is visible, whatever plateaus, page budgets,       *)
(* interruptions and edits the drain met (SyncUnit "stopped at a            *)
(* page/runtime budget with more to fetch", connector.go:99-101, never      *)
(* means starting over for ever).                                           *)
EventuallyCaughtUp ==
    <>[](\/ late # {} \/ moved
         \/ committed /\ \A i \in Wanted : manifest[i] = source[i].version)
=============================================================================
