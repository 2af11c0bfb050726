---------------------------- MODULE ManageSource ----------------------------
(* The page that manages one source (web sources/[id]/manage/page.tsx) and  *)
(* the panel it mirrors (connector-projects.tsx): unsaved toggles and an    *)
(* unsaved schedule over live snapshots, a query, a debounced search and a  *)
(* save of two calls, while discovery, other tabs and other members write   *)
(* the same rows.                                                           *)
EXTENDS Watch, SyncSchedule

CONSTANTS
    Projects, Matches,  \* the projects, and the ones the search word matches
    Gone,               \* the source is not in the snapshot
    NoPanel,            \* the panel is not mounted
    MaxSaves, MaxEdits, MaxEvents  \* bounds: clicks on Save, edits, and what others do

ASSUME ManageAssumption ==
    /\ Streams = {"connections", "projects"}
    /\ MaxSaves \in Nat /\ MaxEdits \in Nat /\ MaxEvents \in Nat

VARIABLES
    kind,    \* "manage": the page; "connector": the panel connector-projects.tsx
    page,    \* where the router is
    grace,   \* graceElapsed
    panel,   \* the panel's state, or NoPanel
    disc,    \* the query `discover`
    srch,    \* the query `searchResults`
    saves,   \* the runs of onSave
    dialog,  \* the confirm dialog: what it shows, and the call it made
    edits, events

mine == <<kind, page, grace, panel, disc, srch, saves, dialog, edits, events>>
mvars == <<wvars, mine>>

NoWord == ""                              \* nothing is searched for
Words == {NoWord, "word"}
UnitStates == {"absent", "bare", "sized"}  \* bare: no estimated total
Lists == [unit: [Projects -> UnitStates], sel: SUBSET Projects]
NoList == [unit |-> [p \in Projects |-> "absent"], sel |-> {}]

\* What ListSyncUnits and the row of ListConnections say of the source.
ReadSource(s, rows) ==
    IF s = "projects" THEN IF rows.exists THEN rows.list ELSE NoList
    ELSE IF rows.exists THEN [onboarded |-> rows.onboarded, discovered |-> rows.discovered,
                              on |-> rows.on, every |-> rows.every]
    ELSE Gone

Clean == [p \in Projects |-> "none"]
NoSave == [at |-> "unused", first |-> FALSE, sel |-> "no", sched |-> "no",
           ids |-> {}, on |-> FALSE, every |-> MIN_SECONDS]
EarlierSave == [NoSave EXCEPT !.at = "done"]
Closed == [at |-> "closed", call |-> "no"]

ManageInit(rows) ==
    /\ WatchInit /\ db \in rows
    /\ kind \in {"manage", "connector"} /\ page = "manage" /\ grace = FALSE
    /\ panel = NoPanel
    /\ disc = [data |-> None, fetching |-> FALSE] /\ srch = disc
    /\ saves \in [1..MaxSaves -> {NoSave, EarlierSave}]
    /\ dialog = Closed
    /\ edits \in 0..MaxEdits /\ events \in 0..MaxEvents

-----------------------------------------------------------------------------
(* What the page shows.                                                     *)

conn == sees["connections"]

View ==
    IF page # "manage" THEN page
    ELSE IF kind = "connector" THEN "panel"
    ELSE IF stream["connections"].at = "stopped" THEN "error"
    ELSE IF conn = None \/ (conn = Gone /\ ~grace) THEN "skeleton"
    ELSE IF conn = Gone THEN "no longer exists"
    ELSE "panel"

allProjects == IF sees["projects"] # None THEN sees["projects"] ELSE disc.data

searching == panel.query # NoWord

\* keepPreviousData: until the search lands, the query without a word.
projects ==
    IF ~searching THEN allProjects
    ELSE IF srch.data # None THEN srch.data
    ELSE IF disc.data # None THEN disc.data ELSE allProjects

Known(list) == IF list = None THEN {} ELSE {p \in Projects : list.unit[p] # "absent"}

isSelectable(list, p) == p \in Known(list) /\ (kind = "manage" => list.unit[p] = "sized")

isSelected(list, p) == IF panel.pending[p] = "none" THEN p \in list.sel ELSE panel.pending[p] = "yes"

Selectable(list) == {p \in Projects : isSelectable(list, p)}

Selected(list) == {p \in Selectable(list) : isSelected(list, p)}

selectionDirty ==
    \E p \in Selectable(allProjects) :
        panel.pending[p] # "none" /\ (panel.pending[p] = "yes") # (p \in allProjects.sel)

scheduleDirty == kind = "manage" /\ (panel.on # conn.on \/ panel.every # conn.every)

dirty == selectionDirty \/ scheduleDirty

InFlight == {"sent", "stored"}

\* isPending; the panel's mutation is pending until its refetch has ended.
saving ==
    \E k \in 1..MaxSaves :
        \/ saves[k].sel \in InFlight \/ saves[k].sched \in InFlight
        \/ kind = "connector" /\ saves[k].at = "refetching"

allSelected(list) == Selectable(list) # {} /\ Selected(list) = Selectable(list)

\* The panel says "Discovering projects..." while its query has no answer.
PanelDiscovering == projects = None \/ (Known(projects) = {} /\ disc.fetching /\ disc.data = None)

discovering ==
    IF kind = "connector" THEN PanelDiscovering
    ELSE projects = None \/ (Known(projects) = {} /\ ~conn.discovered)

empty == ~discovering /\ Known(projects) = {}

\* The toolbar with the search and select-all, and the schedule, are there.
Toolbar == panel # NoPanel /\ View = "panel" /\ ~discovering /\ ~(empty /\ ~searching)
ScheduleShown == panel # NoPanel /\ View = "panel" /\ kind = "manage" /\ ~discovering

-----------------------------------------------------------------------------
(* Mounting and unmounting, which follow at once from what is shown.        *)

Wanted ==
    IF page # "manage" THEN {}
    ELSE (IF kind = "manage" THEN {"connections"} ELSE {})
         \cup (IF View = "panel" THEN {"projects"} ELSE {})

FreshPanel ==
    [pending |-> Clean, typed |-> NoWord, query |-> NoWord, editor |-> NoEditor,
     on |-> kind = "manage" /\ conn.on, every |-> IF kind = "manage" THEN conn.every ELSE MIN_SECONDS]

RenderDue == \E s \in Streams : (s \in Wanted) # (stream[s].at # "off")

EditorDue == panel # NoPanel /\ ScheduleShown # (panel.editor # NoEditor)

Quiet == ~RenderDue /\ ~EditorDue

Done(c) == [NoSave EXCEPT !.at = "done", !.first = c.first, !.sel = c.sel, !.sched = c.sched]

\* Runs of onSave that waited for the refetch go on: the edits are cleared and
\* a first save goes to the details page, wherever the user is by now.
Finish(K, kept) ==
    /\ saves' = [k \in DOMAIN saves |-> IF k \in K THEN Done(saves[k]) ELSE saves[k]]
    /\ panel' = IF K = {} \/ kept = NoPanel THEN kept ELSE [kept EXCEPT !.pending = Clean]
    /\ page' = IF \E k \in K : saves[k].first THEN "details" ELSE page

Refetching == {k \in DOMAIN saves : saves[k].at = "refetching"}

\* The panel mounts: its state starts from the connection, its queries fetch
\* what is not cached and fresh.  It unmounts: its fetches are cancelled.
Render ==
    /\ RenderDue /\ Watching(Wanted)
    /\ IF "projects" \notin Wanted
       THEN /\ Finish(Refetching, NoPanel)
            /\ disc' = [disc EXCEPT !.fetching = FALSE] /\ srch' = [srch EXCEPT !.fetching = FALSE]
            /\ dialog' = [dialog EXCEPT !.at = "closed"]
       ELSE /\ Finish({}, FreshPanel)
            /\ disc' \in {[disc EXCEPT !.fetching = TRUE]} \cup IF disc.data = None THEN {} ELSE {disc}
            /\ UNCHANGED <<srch, dialog>>
    /\ UNCHANGED <<db, kind, grace, edits, events>>

\* SyncSchedule mounts and unmounts with the discovery notice.
MountEditor ==
    /\ ~RenderDue /\ EditorDue
    /\ panel' = [panel EXCEPT !.editor = IF @ = NoEditor THEN Opened(panel.every) ELSE NoEditor]
    /\ UNCHANGED <<wvars, kind, page, grace, disc, srch, saves, dialog, edits, events>>

\* Four seconds on the page; nobody asks before the source is missed.
GraceElapses ==
    /\ page = "manage" /\ conn = Gone /\ ~grace /\ grace' = TRUE
    /\ UNCHANGED <<wvars, kind, page, panel, disc, srch, saves, dialog, edits, events>>

-----------------------------------------------------------------------------
(* The queries.                                                             *)

Fetched(query, list) == [query EXCEPT !.fetching = FALSE, !.data = list]

\* A refetch whose failure is thrown, and caught by nobody.
RefetchThrows ==
    /\ disc.fetching
    /\ \/ /\ db.exists /\ disc' = Fetched(disc, db.list) /\ UNCHANGED feed
          /\ Finish(Refetching, panel)
       \/ /\ disc' = Fetched(disc, disc.data) /\ Finish({}, panel)
          /\ (~db.exists /\ UNCHANGED feed) \/ FaultElsewhere
    /\ UNCHANGED <<db, kind, grace, srch, dialog, edits, events>>

\* ListProjects answers, or fails: the refetch resolves either way.
DiscoverSettles ==
    /\ disc.fetching
    /\ \/ db.exists /\ disc' = Fetched(disc, db.list) /\ UNCHANGED feed
       \/ /\ disc' = Fetched(disc, disc.data)
          /\ \/ ~db.exists /\ UNCHANGED feed
             \/ FaultElsewhere
    /\ Finish(Refetching, panel)
    /\ UNCHANGED <<db, kind, grace, srch, dialog, edits, events>>

Named(list) ==
    [unit |-> [p \in Projects |-> IF p \in Matches THEN list.unit[p] ELSE "absent"],
     sel |-> list.sel \cap Matches]

SearchSettles ==
    /\ srch.fetching
    /\ srch' = Fetched(srch, IF db.exists THEN Named(db.list) ELSE srch.data)
    /\ UNCHANGED <<wvars, kind, page, grace, panel, disc, saves, dialog, edits, events>>

-----------------------------------------------------------------------------
(* What the user does in the panel.                                         *)

Edit(next) ==
    /\ Quiet /\ edits < MaxEdits /\ edits' = edits + 1
    /\ panel' = next
    /\ UNCHANGED <<wvars, kind, page, grace, disc, srch, saves, dialog, events>>

toggle(p) ==
    /\ Toolbar /\ isSelectable(projects, p)
    /\ Edit([panel EXCEPT !.pending = [panel.pending EXCEPT ![p] = IF isSelected(projects, p) THEN "no" ELSE "yes"]])

\* The edits after select-all: every shown project that can be selected, over
\* the edits there are.  The panel replaces its edits.
All(before) ==
    [p \in Projects |-> IF p \notin Selectable(projects) THEN before[p]
                        ELSE IF allSelected(projects) THEN "no" ELSE "yes"]

toggleAll == Toolbar /\ kind = "manage" /\ Edit([panel EXCEPT !.pending = All(@)])

PanelToggleAll == Toolbar /\ kind = "connector" /\ Edit([panel EXCEPT !.pending = All(Clean)])

SearchInput(word) ==
    /\ Toolbar /\ kind = "manage" /\ word # panel.typed
    /\ Edit([panel EXCEPT !.typed = word])

\* 250 ms without a key: the word is sent, and fetched unless it is fresh.
Debounced ==
    /\ panel # NoPanel /\ Quiet /\ panel.query # panel.typed
    /\ panel' = [panel EXCEPT !.query = panel.typed]
    /\ srch' \in IF panel.typed = NoWord THEN {srch}
                 ELSE {[srch EXCEPT !.fetching = TRUE]} \cup IF srch.data = None THEN {} ELSE {srch}
    /\ UNCHANGED <<wvars, kind, page, grace, disc, saves, dialog, edits, events>>

setSchedEnabled ==
    /\ ScheduleShown /\ panel.editor # NoEditor
    /\ Edit([panel EXCEPT !.on = ~@])

\* A segment of the frequency control: a preset, or the custom editor.
ChooseFrequency(seconds) ==
    /\ ScheduleShown /\ panel.editor # NoEditor /\ panel.on
    /\ Edit(IF seconds = Custom THEN [panel EXCEPT !.editor = Editor(panel.every, TRUE)]
            ELSE [panel EXCEPT !.editor = [panel.editor EXCEPT !.custom = FALSE], !.every = seconds])

\* The custom editor: a value is typed, or a unit chosen.
CustomInterval(e) ==
    /\ ScheduleShown /\ panel.editor # NoEditor /\ panel.on /\ panel.editor.custom
    /\ e # panel.editor
    /\ Edit([panel EXCEPT !.editor = e, !.every = applyCustom(e, panel.every)])

\* An onSave that reckons over the list on the screen.
SavesShown == IF projects = None THEN {} ELSE Selected(projects)

selectedIds == IF allProjects = None THEN {} ELSE Selected(allProjects)

SaveEnabled == panel # NoPanel /\ View = "panel" /\ ~discovering /\ dirty /\ ~saving

\* The panel's button is only there for a list with edits.
SaveSelection == ~empty /\ dirty

\* onSave up to its await: both calls leave together.
onSave ==
    /\ Quiet /\ SaveEnabled /\ (kind = "connector" => SaveSelection)
    /\ LET first == kind = "manage" /\ ~conn.onboarded
       IN  \E k \in 1..MaxSaves :
              /\ saves[k].at = "unused" /\ \A j \in 1..(k - 1) : saves[j].at # "unused"
              /\ saves' = [saves EXCEPT ![k] =
                    [at |-> "saving", first |-> first,
                     sel |-> IF first \/ selectionDirty THEN "sent" ELSE "no",
                     sched |-> IF scheduleDirty THEN "sent" ELSE "no",
                     ids |-> selectedIds, on |-> panel.on, every |-> panel.every]]
    /\ UNCHANGED <<wvars, kind, page, grace, panel, disc, srch, dialog, edits, events>>

\* "Cancel" or "I'll do this later", a breadcrumb, a link of the shell.
Leave(to) ==
    /\ Quiet /\ page = "manage" /\ page' = to
    /\ View # "panel" => to = "sources"
    /\ UNCHANGED <<wvars, kind, grace, panel, disc, srch, saves, dialog, edits, events>>

-----------------------------------------------------------------------------
(* The two calls of a save, on the server and back.                         *)

\* A save that goes on when one of its calls failed.
SettlesAll(c) ==
    IF c.at # "saving" \/ InFlight \cap {c.sel, c.sched} # {} THEN c.at ELSE "refetching"

\* Promise.all: the first failure ends the save, the last success lets it go on.
Settles(c) ==
    IF c.at # "saving" THEN c.at
    ELSE IF "err" \in {c.sel, c.sched} THEN "failed"
    ELSE IF InFlight \cap {c.sel, c.sched} = {} THEN "refetching"
    ELSE "saving"

\* A call of save k has come to c: an error leaves the edits where they are,
\* a success of all starts the refetch.
Settle(k, c) ==
    /\ saves' = [saves EXCEPT ![k] = [c EXCEPT !.at = Settles(c)]]
    /\ disc' = IF c.at = "saving" /\ Settles(c) = "refetching" THEN [disc EXCEPT !.fetching = TRUE] ELSE disc
    /\ panel' = panel
    /\ UNCHANGED <<kind, page, grace, srch, dialog, edits, events>>

\* SetProjectSelection: the rows, the onboarded mark, then the notification.
SetProjectSelection(k) ==
    LET c == saves[k]
        chosen == [db EXCEPT !.list = [db.list EXCEPT !.sel = Known(db.list) \cap c.ids]]
    IN  /\ c.sel = "sent"
        /\ \/ /\ db.exists /\ Write([chosen EXCEPT !.onboarded = TRUE])
              /\ Settle(k, [c EXCEPT !.sel = "stored"])
           \/ /\ db.exists /\ WrittenUntold /\ db' = chosen
              /\ Settle(k, [c EXCEPT !.sel = "err"])
           \/ /\ ~db.exists /\ UNCHANGED wvars
              /\ Settle(k, [c EXCEPT !.sel = "err"])

\* UpdateSyncSchedule: the bounds hold only when auto-sync is on.
UpdateSyncSchedule(k) ==
    LET c == saves[k]
        valid == c.on => c.every \in minSyncIntervalSeconds..maxSyncIntervalSeconds
    IN  /\ c.sched = "sent"
        /\ IF db.exists /\ valid
           THEN /\ Write([db EXCEPT !.on = c.on, !.every = c.every])
                /\ Settle(k, [c EXCEPT !.sched = "stored"])
           ELSE UNCHANGED wvars /\ Settle(k, [c EXCEPT !.sched = "err"])

\* The answer arrives, or is lost with what it would have said.
Answer(k) ==
    LET c == saves[k]
    IN  \/ /\ \/ c.sel = "stored" /\ Settle(k, [c EXCEPT !.sel = "ok"])
              \/ c.sched = "stored" /\ Settle(k, [c EXCEPT !.sched = "ok"])
           /\ UNCHANGED wvars
        \/ /\ \/ c.sel \in InFlight /\ Settle(k, [c EXCEPT !.sel = "err"])
              \/ c.sched \in InFlight /\ Settle(k, [c EXCEPT !.sched = "err"])
           /\ FaultElsewhere

-----------------------------------------------------------------------------
(* Deleting the source behind the confirm dialog.                           *)

Dialog(next) ==
    /\ dialog' = next
    /\ UNCHANGED <<kind, grace, panel, disc, srch, saves, edits>>

armed == dialog.at = "typed" /\ dialog.call = "no"

\* Opened by its trigger, the word typed; closing forgets the word.
SetOpen(at) ==
    /\ Quiet /\ ScheduleShown /\ at # dialog.at
    /\ \/ at = "open" /\ dialog.at = "closed" /\ events < MaxEvents /\ events' = events + 1
       \/ at = "typed" /\ dialog.at = "open" /\ UNCHANGED events
       \/ at = "closed" /\ UNCHANGED events
    /\ Dialog([dialog EXCEPT !.at = at]) /\ UNCHANGED <<wvars, page>>

\* The button closes the dialog as it confirms, Enter in the field does not.
onConfirm(how) ==
    /\ Quiet /\ ScheduleShown /\ armed
    /\ Dialog([at |-> IF how = "click" THEN "closed" ELSE dialog.at, call |-> "sent"])
    /\ UNCHANGED <<wvars, page, events>>

Disconnect ==
    /\ dialog.call = "sent"
    /\ IF db.exists THEN Write([db EXCEPT !.exists = FALSE, !.list = NoList]) ELSE UNCHANGED wvars
    /\ Dialog([dialog EXCEPT !.call = IF db.exists THEN "stored" ELSE "no"])
    /\ UNCHANGED <<page, events>>

\* onSuccess replaces the page by the list, onError leaves the source.
Removed ==
    /\ \/ dialog.call = "stored" /\ page' = "sources" /\ UNCHANGED feed
       \/ dialog.call # "no" /\ FaultElsewhere /\ UNCHANGED page
    /\ Dialog([dialog EXCEPT !.call = "no"])
    /\ UNCHANGED <<db, events>>

-----------------------------------------------------------------------------
(* Everybody else.                                                          *)

Others(rows) ==
    /\ events < MaxEvents /\ events' = events + 1
    /\ db.exists /\ Write(rows)
    /\ UNCHANGED <<kind, page, grace, panel, disc, srch, saves, dialog, edits>>

\* Discovery finds a unit, with or without an estimate, learns the estimate
\* later, or ends for the first time.
Discovery ==
    \/ \E p \in Projects, u \in UnitStates \ {"absent"} :
          /\ db.list.unit[p] \notin {u, "sized"}
          /\ Others([db EXCEPT !.list = [db.list EXCEPT !.unit = [db.list.unit EXCEPT ![p] = u]]])
    \/ ~db.discovered /\ Others([db EXCEPT !.discovered = TRUE])

\* Another member saves the same page.
Colleague ==
    \/ \E ids \in SUBSET Known(db.list) :
          Others([db EXCEPT !.list = [db.list EXCEPT !.sel = ids], !.onboarded = TRUE])
    \/ \E seconds \in Presets : Others([db EXCEPT !.on = ~@, !.every = seconds])
    \/ Others([db EXCEPT !.exists = FALSE, !.list = NoList])

\* The user comes back to the page.
Open ==
    /\ Quiet /\ page # "manage" /\ page' = "manage" /\ grace' = FALSE
    /\ events < MaxEvents /\ events' = events + 1
    /\ UNCHANGED <<wvars, kind, panel, disc, srch, saves, dialog, edits>>

FeedStep == Feed(Streams) /\ UNCHANGED mine

User ==
    \/ \E p \in Projects : toggle(p)
    \/ toggleAll \/ PanelToggleAll
    \/ \E word \in Words : SearchInput(word)
    \/ setSchedEnabled
    \/ \E seconds \in Presets \cup {Custom} : ChooseFrequency(seconds)
    \/ \E value \in Halves : CustomInterval([panel.editor EXCEPT !.value = value])
    \/ \E unit \in UNITS : CustomInterval([panel.editor EXCEPT !.unit = unit])
    \/ onSave
    \/ \E to \in {"sources", "details"} : Leave(to)
    \/ \E at \in {"open", "typed", "closed"} : SetOpen(at)
    \/ \E how \in {"click", "enter"} : onConfirm(how)
    \/ Open

Calls ==
    \/ \E k \in 1..MaxSaves : SetProjectSelection(k) \/ UpdateSyncSchedule(k) \/ Answer(k)
    \/ Disconnect \/ Removed

Client == Render \/ MountEditor \/ GraceElapses \/ Debounced \/ DiscoverSettles \/ SearchSettles

ManageNext == FeedStep \/ User \/ Calls \/ Client \/ Discovery \/ Colleague

-----------------------------------------------------------------------------
\* An interval no shorter than the floor; what the queries return; what the
\* panel and a run of onSave hold.
Intervals == {n \in Nat : n >= MIN_SECONDS}
Conns == [onboarded: BOOLEAN, discovered: BOOLEAN, on: BOOLEAN, every: Intervals]
Rows == [exists: BOOLEAN, onboarded: BOOLEAN, discovered: BOOLEAN,
         on: BOOLEAN, every: Intervals, list: Lists]
QueryStates == [data: Lists \cup {None}, fetching: BOOLEAN]
Panels == [pending: [Projects -> {"none", "yes", "no"}], typed: Words, query: Words,
           editor: Editors \cup {NoEditor}, on: BOOLEAN, every: Intervals]
CallStates == {"no", "sent", "stored", "ok", "err"}
SaveStates == [at: {"unused", "saving", "refetching", "done", "failed"}, first: BOOLEAN,
               sel: CallStates, sched: CallStates,
               ids: SUBSET Projects, on: BOOLEAN, every: Intervals]

TypeOK ==
    /\ WatchTypeOK
    /\ db \in Rows
    /\ sees["connections"] \in Conns \cup {None, Gone} /\ sees["projects"] \in Lists \cup {None}
    /\ kind \in {"manage", "connector"} /\ page \in {"manage", "details", "sources"}
    /\ grace \in BOOLEAN
    /\ panel \in Panels \cup {NoPanel}
    /\ disc \in QueryStates /\ srch \in QueryStates
    /\ saves \in [1..MaxSaves -> SaveStates]
    /\ dialog \in [at: {"closed", "open", "typed"}, call: {"no", "sent", "stored"}]
    /\ edits \in 0..MaxEdits /\ events \in 0..MaxEvents

\* The streams of the page are streams of the change feed.
ImplementsWatch == WatchSpec

\* "Saved" is said of what the server stored: of the two calls of a save none
\* failed, the source a first save leads to has been onboarded, and a schedule
\* that is on is within the bounds of the server (server.go:534), whatever was
\* switched off, typed and switched on again.
SavedIsStored ==
    /\ \A k \in 1..MaxSaves :
        saves[k].at \in {"refetching", "done"} =>
            /\ {saves[k].sel, saves[k].sched} \subseteq {"no", "ok"}
            /\ saves[k].first => saves[k].sel = "ok" /\ db.onboarded
    /\ db.on => db.every \in minSyncIntervalSeconds..maxSyncIntervalSeconds

\* "Report up only when the custom value is valid" (sync-schedule.tsx:102): the
\* parent never holds, and a save never sends, an interval under the floor; and
\* the custom editor shows the interval the parent would save, unless the red
\* hint is shown or the interval is not a whole number of minutes.
EditorAgrees ==
    /\ \A k \in 1..MaxSaves : saves[k].every >= MIN_SECONDS
    /\ panel # NoPanel =>
        LET e == panel.editor
        IN  /\ panel.every >= MIN_SECONDS
            /\ e # NoEditor /\ e.custom /\ ~belowMin(e) /\ panel.every % 60 = 0
                  => customSeconds(e) = panel.every

\* Live status arrives "without clobbering the unsaved edits" (page.tsx:153):
\* while the panel stays mounted, only the end of a save that succeeded takes
\* an edit back; snapshots, drops, reconnects, searches and failures do not.
\* And "SetProjectSelection replaces the WHOLE selected list, so Save must reckon
\* over every project" (page.tsx:150): whatever a search hides, a save asks for
\* every project that is selected and was not turned off, and for no other that
\* was not turned on.
EditsReachTheServer ==
    [][/\ \A p \in Projects :
            (panel # NoPanel /\ panel' # NoPanel /\ kind = "manage"
               /\ panel.pending[p] # "none" /\ panel'.pending[p] = "none")
            => \E k \in 1..MaxSaves : saves[k].at = "refetching" /\ saves'[k].at = "done"
       /\ \A k \in 1..MaxSaves :
            saves[k].at = "unused" /\ saves'[k].at = "saving" =>
                \A p \in Selectable(allProjects) :
                    p \in saves'[k].ids <=> \/ panel.pending[p] = "yes"
                                            \/ panel.pending[p] = "none" /\ p \in allProjects.sel]_mvars

\* The calls, the query and the renders are tasks of the server and of the
\* browser, and none of them can keep the others waiting forever.
Fairness == WF_mvars(Calls \/ Render \/ MountEditor \/ DiscoverSettles
                     \/ (NotifyConnectionChanged /\ UNCHANGED mine))

\* A click on Save is always answered, whatever is lost, dropped or unmounted
\* meanwhile: the run of onSave says "Saved" or shows the error.
SaveIsAnswered ==
    (\E k \in 1..MaxSaves : saves[k].at \in {"saving", "refetching"})
        ~> (\A k \in 1..MaxSaves : saves[k].at \notin {"saving", "refetching"})
=============================================================================
