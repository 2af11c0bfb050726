--------------------------- MODULE Administration ---------------------------
(* The pages around the sources: settings with the workspace's name and the *)
(* feature flag, members, the audit log and the synced files.               *)
EXTENDS Queries

\* useState of the pages; the settings start from the cached name.
FreshAdmin(r, session) ==
    [editing |-> FALSE, offset |-> 0, project |-> "all", open |-> {"root"},
     name |-> IF r.at = "settings" THEN session.data.val[1] ELSE ""]

\* The parts of the state a click on a page leaves alone.
Local == UNCHANGED <<shell, ws, query, events>>

-----------------------------------------------------------------------------
(* Settings.                                                                *)

tenant == query[<<"session">>].data.val  \* name and answers, as cached

SettingsPage == route.at = "settings"

EditName ==
    /\ SettingsPage /\ ~adm.editing
    /\ adm' = [adm EXCEPT !.editing = TRUE] /\ Local

SetName(n) ==
    /\ SettingsPage /\ adm.editing /\ adm.name # n
    /\ adm' = [adm EXCEPT !.name = n] /\ Local

CancelEdit ==
    /\ SettingsPage /\ adm.editing
    /\ adm' = [adm EXCEPT !.editing = FALSE, !.name = tenant[1]] /\ Local

\* The rename carries the cached answers along; Enter does not wait for the
\* call before.
onSave(byKey) ==
    /\ SettingsPage /\ adm.editing /\ adm.name # "" /\ (byKey \/ ~isPending("rename"))
    /\ Ask("rename", <<adm.name, tenant[2]>>)
    /\ UNCHANGED <<ws, query, adm, events>>

FeatureFlags ==
    IF Pending(<<"flags">>) THEN "skeleton"
    ELSE IF ~Loaded(<<"flags">>) THEN "none available" ELSE "switches"

SetFlag ==
    /\ SettingsPage /\ FeatureFlags = "switches" /\ ~isPending("flag")
    /\ Ask("flag", ~query[<<"flags">>].data.val)
    /\ UNCHANGED <<ws, query, adm, events>>

MembersSummary ==
    IF Pending(<<"members">>) THEN "loading"
    ELSE IF ~Loaded(<<"members">>) THEN "not connected" ELSE "count"

\* UpdateTenant stores what it is sent; SetFeatureFlag stores the flag.  Each
\* appends to the audit log.
Wrote(c, new) ==
    /\ ws' = [new EXCEPT !.log = @ + 1,
                         !.theirs = IF c.at = "lost" THEN @ + 1 ELSE @]
    /\ Served(c, "ok")

ServeAdmin(c) ==
    /\ c \in calls /\ Unserved(c) /\ c.op \in {"rename", "flag"}
    /\ \/ Served(c, "error") /\ UNCHANGED ws
       \/ c.op = "rename" /\ Wrote(c, [ws EXCEPT !.name = c.arg[1], !.answers = c.arg[2]])
       \/ c.op = "flag" /\ Wrote(c, [ws EXCEPT !.flag = c.arg])
    /\ UNCHANGED <<query, adm, events>>

\* onSuccess: every query is invalidated, and the editor of the page that made
\* the call closes.
AnswerAdmin(c) ==
    /\ c \in calls /\ c.op \in {"rename", "flag"} /\ c.at \in {"ok", "error"}
    /\ Answered(c) /\ UNCHANGED <<route, nav>>
    /\ IF c.at = "ok" THEN invalidateQueries ELSE UNCHANGED query
    /\ adm' = IF c.at = "ok" /\ c.op = "rename" /\ OfThisPage(c)
              THEN [adm EXCEPT !.editing = FALSE] ELSE adm
    /\ UNCHANGED <<ws, events>>

\* Another member renames the workspace or flips the flag; something else is
\* recorded in the audit log.
Colleague ==
    /\ events < MaxEvents /\ events' = events + 1
    /\ \/ \E n \in Workspaces \ {ws.name} :
             ws' = [ws EXCEPT !.name = n, !.log = @ + 1, !.theirs = @ + 1]
       \/ ws' = [ws EXCEPT !.flag = ~@, !.log = @ + 1, !.theirs = @ + 1]
       \/ ws' = [ws EXCEPT !.log = @ + 1, !.theirs = @ + 1]
    /\ UNCHANGED <<shell, query, adm>>

-----------------------------------------------------------------------------
(* Members and the audit log.                                               *)

MembersPage ==
    IF Pending(<<"members">>) THEN "skeleton"
    ELSE IF ~Loaded(<<"members">>) THEN "not connected" ELSE "table"

auditKey == <<"audit", adm.offset>>
total == IF Loaded(auditKey) THEN query[auditKey].data.val ELSE 0

\* The events of the page at this offset, counted.
Smaller(a, b) == IF a < b THEN a ELSE b
rows == IF total > adm.offset THEN Smaller(PAGE, total - adm.offset) ELSE 0

AuditPage ==
    IF Pending(auditKey) THEN "skeleton"
    ELSE IF rows = 0 THEN "No activity recorded yet." ELSE "rows"

LastPage == adm.offset + PAGE >= total

\* The pager is there when the log is longer than a page.  A page that was
\* shown before may come from the cache, as long as it is fresh.
TurnTo(offset, aged) ==
    /\ route.at = "audit" /\ total > PAGE
    /\ adm' = [adm EXCEPT !.offset = offset]
    /\ query' = Mounting(query, {<<"session">>}, Uses(route, offset), aged)
    /\ UNCHANGED <<shell, ws, events>>

Previous(aged) == adm.offset # 0 /\ TurnTo(adm.offset - Smaller(PAGE, adm.offset), aged)
NextPage(aged) ==
    adm.offset + PAGE \in Offsets /\ ~LastPage /\ TurnTo(adm.offset + PAGE, aged)

-----------------------------------------------------------------------------
(* Files.                                                                   *)

\* The newest files of a source, or of all; a file's place is its age.
Scope(c) == {f \in Files : c = Nowhere \/ FileOf[f].conn = c}
Newest(fs) == {f \in fs : Cardinality({g \in fs : FileOf[g].age < FileOf[f].age}) < LIMIT}

items(c) == IF Loaded(<<"files", c>>) THEN Newest(Scope(c)) ELSE {}
projectsOf(c) == {FileOf[f].project : f \in items(c)}
shownFiles == {f \in items(route.id) : adm.project \in {"all", FileOf[f].project}}

SaysTruncated(c) == Loaded(<<"files", c>>) /\ Cardinality(Scope(c)) > Cardinality(items(c))

FilesView ==
    IF Pending(<<"files", route.id>>) THEN "skeleton"
    ELSE IF shownFiles # {} THEN "rows"
    ELSE IF items(route.id) # {} THEN "No files in this project."
    ELSE IF route.id # Nowhere THEN "No files from this source yet." ELSE "No files yet."

ChooseProject ==
    /\ route.at = "files"
    /\ \E p \in {"all"} \cup projectsOf(route.id) :
          p # adm.project /\ adm' = [adm EXCEPT !.project = p]
    /\ Local

FilesLinks ==
    (IF route.id # Nowhere THEN {Page("files")} ELSE {})
    \cup {Loc("file", f) : f \in shownFiles}

\* The metadata of a file comes from the list of all files.
artifact == route.id \in items(Nowhere)

ContentView ==
    LET q == query[<<"content", route.id>>]
    IN IF q.failed THEN "error" ELSE IF Pending(<<"content", route.id>>) THEN "skeleton"
       ELSE IF FileOf[route.id].json THEN "tree" ELSE "text"

\* The tree of a JSON file: a root with a branch and a twig on it.  Closing a
\* node unmounts what is below; it comes back closed.
Below(n) == CASE n = "root" -> {"branch", "twig"} [] n = "branch" -> {"twig"} [] OTHER -> {}
Rendered(n) == \A m \in {"root", "branch"} : n \in Below(m) => m \in adm.open

Closes(n) == adm.open \ ({n} \cup Below(n))

JsonNode(n) ==
    /\ route.at = "file" /\ ContentView = "tree" /\ Rendered(n)
    /\ adm' = [adm EXCEPT !.open = IF n \in @ THEN Closes(n) ELSE @ \cup {n}]
    /\ Local

AdminLeaf == IF route.at = "file" /\ artifact THEN route.id ELSE Nowhere

-----------------------------------------------------------------------------
Clicks ==
    \/ EditName \/ CancelEdit \/ SetFlag \/ ChooseProject
    \/ \E n \in Workspaces \cup {""} : SetName(n)
    \/ \E b \in BOOLEAN : onSave(b) \/ Previous(b) \/ NextPage(b)
    \/ \E n \in {"root", "branch", "twig"} : JsonNode(n)

-----------------------------------------------------------------------------
\* Once the workspace's own calls are answered and nothing is being fetched,
\* the settings and the gallery show what was stored, unless another member
\* has written since they were read, or the fetch failed: qc.invalidateQueries
\* also reaches a fetch that was under way (settings/page.tsx:72, 172).
OwnWritesShow ==
    \A k \in {<<"session">>, <<"flags">>} :
        /\ Loaded(k) /\ query[k].fetch = "no" /\ ~query[k].stale
        /\ ~\E c \in calls : c.op \in {"rename", "flag"} /\ c.at # "error"
        => query[k].data.val = Truth(k).val \/ query[k].data.theirs # ws.theirs

\* The audit log says there is no activity only when there is none, or when
\* its query failed; paging, and a log that grows meanwhile, never lead to an
\* empty page.
EmptyMeansEmpty ==
    route.at = "audit" /\ AuditPage = "No activity recorded yet." =>
        query[auditKey].failed \/ total = 0

\* The files page leaves out a file of its source and project only when it
\* says that it shows a part ("Showing n of total", files/page.tsx:256).
NothingMissingSilently ==
    route.at = "files" /\ Loaded(<<"files", route.id>>) =>
        \/ SaysTruncated(route.id)
        \/ {f \in Scope(route.id) : adm.project \in {"all", FileOf[f].project}} = shownFiles
=============================================================================
