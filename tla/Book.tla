-------------------------------- MODULE Book --------------------------------
(* The prototype's book: its mock content and the functions that read it.    *)
(* Titles, prose and dates are left out; a summary is the markers in it.     *)
EXTENDS Naturals, Sequences, FiniteSets, SequencesExt, FiniteSetsExt

Nothing == "null"

Entry(id, level, parentId, status, summary, markers, citationIds, entityIds) ==
    [id |-> id, level |-> level, parentId |-> parentId, status |-> status, summary |-> summary,
     markers |-> markers, citationIds |-> citationIds, entityIds |-> entityIds]

\* The artifacts and the system each came from.
ARTIFACTS ==
    << <<"a-slack-1", "slack">>, <<"a-notion-1", "notion">>, <<"a-jira-1", "jira">>,
       <<"a-slack-2", "slack">>, <<"a-notion-2", "notion">> >>

\* The citations and the artifact each quotes.
CITATIONS ==
    << <<"c1", "a-slack-1">>, <<"c2", "a-notion-1">>, <<"c3", "a-jira-1">>,
       <<"c4", "a-slack-2">>, <<"c5", "a-notion-2">> >>

BOOK ==
    << Entry("ch-ops", "chapter", Nothing, "current", TRUE, <<1>>, <<>>, <<>>),
       Entry("ch-eng", "chapter", Nothing, "current", TRUE, <<>>, <<>>, <<>>),
       Entry("ch-cust", "chapter", Nothing, "building", FALSE, <<>>, <<>>, <<>>),
       Entry("ch-fin", "chapter", Nothing, "building", FALSE, <<>>, <<>>, <<>>),
       Entry("ch-people", "chapter", Nothing, "building", FALSE, <<>>, <<>>, <<>>),
       Entry("ch-product", "chapter", Nothing, "building", FALSE, <<>>, <<>>, <<>>),
       Entry("t-refunds", "topic", "ch-ops", "current", TRUE, <<1, 2>>, <<>>, <<>>),
       Entry("t-approvals", "topic", "ch-ops", "building", FALSE, <<>>, <<>>, <<>>),
       Entry("s-eu-vat", "subtopic", "t-refunds", "current", TRUE, <<1, 2, 3>>, <<"c1", "c2", "c3">>,
             <<"e-eu-threshold", "e-finance", "e-q4-audit", "e-reason-code">>),
       Entry("s-us-refunds", "subtopic", "t-refunds", "stale", TRUE, <<1>>, <<"c2">>,
             <<"e-finance", "e-reason-code">>),
       Entry("t-incidents", "topic", "ch-eng", "current", TRUE, <<1>>, <<>>, <<>>),
       Entry("s-sev1", "subtopic", "t-incidents", "current", TRUE, <<1, 2>>, <<"c4", "c5">>,
             <<"e-sev1", "e-oncall", "e-em">>) >>

SOURCES ==
    << [kind |-> "slack", health |-> "synced"], [kind |-> "notion", health |-> "synced"],
       [kind |-> "jira", health |-> "synced"], [kind |-> "github", health |-> "syncing"],
       [kind |-> "gdrive", health |-> "auth-lapse"] >>

\* The resolved entities: all but the last are canonical.
ENTITIES ==
    << [id |-> "e-eu-threshold", status |-> "canonical"], [id |-> "e-finance", status |-> "canonical"],
       [id |-> "e-q4-audit", status |-> "canonical"], [id |-> "e-reason-code", status |-> "canonical"],
       [id |-> "e-sev1", status |-> "canonical"], [id |-> "e-oncall", status |-> "canonical"],
       [id |-> "e-em", status |-> "ambiguous"] >>

Ids == {BOOK[i].id : i \in DOMAIN BOOK}
Count(seq, Test(_)) == Len(SelectSeq(seq, Test))

-----------------------------------------------------------------------------
(* Reading the tree.                                                         *)

\* find: the first entry with the id.
getEntry(id) == BOOK[CHOOSE i \in DOMAIN BOOK : BOOK[i].id = id]

childrenOf(id) == SelectSeq(BOOK, LAMBDA e : e.parentId = id)

\* unshift while there is a parent: the chain from the chapter to the entry.
RECURSIVE pathOf(_)
pathOf(id) ==
    LET e == getEntry(id) IN (IF e.parentId = Nothing THEN <<>> ELSE pathOf(e.parentId)) \o <<e>>

getCitation(cid) == SelectSeq(CITATIONS, LAMBDA c : c[1] = cid)
getArtifact(aid) == SelectSeq(ARTIFACTS, LAMBDA a : a[1] = aid)
getEntity(eid) == SelectSeq(ENTITIES, LAMBDA e : e.id = eid)

recentEntries ==
    LET written == SelectSeq(BOOK, LAMBDA e : e.level # "chapter" /\ e.summary)
    IN  SubSeq(written, 1, Min({6, Len(written)}))

\* The loop with a stack: pop the last, keep it, push its children.
RECURSIVE Unstack(_, _)
Unstack(stack, out) ==
    IF stack = <<>> THEN out
    ELSE Unstack(Front(stack) \o childrenOf(Last(stack).id), Append(out, Last(stack)))

descendantsOf(id) == Unstack(childrenOf(id), <<>>)

\* An entry and, unless it is a sub-topic, everything beneath it.
ScopeOf(id) ==
    IF getEntry(id).level = "subtopic" THEN <<getEntry(id)>> ELSE <<getEntry(id)>> \o descendantsOf(id)

\* A JavaScript Set keeps the order of first insertion.
Distinct(seq) ==
    FoldLeft(LAMBDA out, x : IF x \in ToSet(out) THEN out ELSE Append(out, x), <<>>, seq)
Each(seq, Of(_)) == FoldLeft(LAMBDA out, x : out \o Of(x), <<>>, seq)
Gather(id, Of(_)) == Distinct(Each(ScopeOf(id), Of))

CitedArtifacts(e) ==
    Each(e.citationIds, LAMBDA c : Each(getCitation(c), LAMBDA found : <<found[2]>>))

artifactsOfEntry(id) ==
    Each(Gather(id, CitedArtifacts), getArtifact)

entitiesOfEntry(id) ==
    Each(Gather(id, LAMBDA e : e.entityIds), getEntity)

\* The rolled-up counts; chapters have no status of their own in them.
EntryStatsEveryCite(id) ==
    LET scope == ScopeOf(id)
        counted == SelectSeq(scope, LAMBDA e : e.level # "chapter")
        Having(s) == Count(counted, LAMBDA e : e.status = s)
    IN  [topics |-> Count(scope, LAMBDA e : e.level = "topic"),
         subtopics |-> Count(scope, LAMBDA e : e.level = "subtopic"),
         sources |-> Len(Each(scope, CitedArtifacts)),
         citations |-> Len(Gather(id, LAMBDA e : e.citationIds)),
         entities |-> Len(Gather(id, LAMBDA e : e.entityIds)),
         current |-> Having("current"), stale |-> Having("stale"), building |-> Having("building"),
         counted |-> Len(counted)]

entryStats(id) ==
    LET scope == ScopeOf(id)
        counted == SelectSeq(scope, LAMBDA e : e.level # "chapter")
        Having(s) == Count(counted, LAMBDA e : e.status = s)
    IN  [topics |-> Count(scope, LAMBDA e : e.level = "topic"),
         subtopics |-> Count(scope, LAMBDA e : e.level = "subtopic"),
         sources |-> Len(Gather(id, CitedArtifacts)),
         citations |-> Len(Gather(id, LAMBDA e : e.citationIds)),
         entities |-> Len(Gather(id, LAMBDA e : e.entityIds)),
         current |-> Having("current"), stale |-> Having("stale"), building |-> Having("building"),
         counted |-> Len(counted)]

lineageOfEntry(id) ==
    LET arts == artifactsOfEntry(id)
    IN  [artifacts |-> Len(arts), sources |-> Cardinality({a[2] : a \in ToSet(arts)}),
         queued |-> getEntry(id).status \in {"stale", "building"}]

\* The header of the book: building counts chapters too, current and stale do not.
systemStatus ==
    LET counted == SelectSeq(BOOK, LAMBDA e : e.level # "chapter")
    IN  [sources |-> Len(SOURCES),
         sourcesHealthy |-> Count(SOURCES, LAMBDA s : s.health \in {"synced", "syncing"}),
         entries |-> Len(BOOK), entities |-> Len(ENTITIES),
         current |-> Count(counted, LAMBDA e : e.status = "current"),
         stale |-> Count(counted, LAMBDA e : e.status = "stale"),
         building |-> Count(BOOK, LAMBDA e : e.status = "building")]
=============================================================================
