--------------------------- MODULE PrototypeAdmin ---------------------------
(* The prototype's administration pages: their mock rows and the figures the *)
(* pages compute from them.  What can be clicked on them is in PrototypeApp. *)
EXTENDS Book, Integers

Member(role, status, provisioned) == [role |-> role, status |-> status, provisioned |-> provisioned]

MEMBERS ==
    << Member("owner", "active", "manual"), Member("admin", "active", "sso"),
       Member("admin", "active", "sso"), Member("member", "active", "sso"),
       Member("member", "active", "sso"), Member("member", "active", "sso"),
       Member("viewer", "active", "sso"), Member("member", "invited", "manual"),
       Member("member", "suspended", "sso") >>

\* The chapters of a template; Leadership reads all of them.
ACCESS_TEMPLATES ==
    << <<"at-everyone", {"ch-ops", "ch-eng", "ch-product"}>>, <<"at-leadership", {"all"}>>,
       <<"at-engineering", {"ch-eng", "ch-product"}>>, <<"at-finance", {"ch-fin", "ch-ops"}>>,
       <<"at-support", {"ch-cust", "ch-ops"}>> >>

Chapter(id, scope, templates) == [chapterId |-> id, scope |-> scope, templates |-> templates]

CHAPTER_ACCESS ==
    << Chapter("ch-ops", "all-members", <<"at-everyone", "at-finance", "at-support">>),
       Chapter("ch-eng", "all-members", <<"at-everyone", "at-engineering">>),
       Chapter("ch-cust", "all-members", <<"at-everyone", "at-support">>),
       Chapter("ch-fin", "restricted", <<"at-leadership", "at-finance">>),
       Chapter("ch-people", "restricted", <<"at-leadership">>),
       Chapter("ch-product", "all-members", <<"at-everyone", "at-engineering">>) >>

AUDIT_EVENTS ==
    <<"auth", "write", "read", "admin", "admin", "write", "read", "admin", "write", "write", "auth", "read">>

\* Kind and confidence in percent.
REVIEW_PROPOSALS ==
    << <<"merge", 91>>, <<"split", 82>>, <<"new-topic", 74>>, <<"reclassify", 63>>, <<"unfiled", 41>> >>

\* The scores, in percent, of what each ambiguous reference may mean.
AMBIGUITY_ITEMS == << <<62, 30, 8>>, <<55, 45>>, <<71, 29>>, <<66, 34>> >>

\* Used and granted; storage in tenths of a gigabyte.
USAGE == [tokens |-> <<4240000, 10000000>>, storage |-> <<384, 1000>>, seats |-> <<8, 25>>, syncs |-> <<14820, 50000>>]

connectors ==
    <<"slack", "google-workspace", "github", "notion", "linear", "jira", "confluence", "zendesk",
      "intercom", "salesforce", "hubspot", "gong", "granola", "pagerduty", "sentry", "datadog",
      "snowflake", "drive", "dropbox", "workday">>

-----------------------------------------------------------------------------
(* What the pages compute.                                                   *)

\* Math.round of a share in percent.
Percent(part, whole) == (200 * part + whole) \div (2 * whole)

\* The members page: the figures of its bar, and a row per member.
MembersFigures ==
    [total |-> Len(MEMBERS), active |-> Count(MEMBERS, LAMBDA m : m.status = "active"),
     admins |-> Count(MEMBERS, LAMBDA m : m.role \in {"owner", "admin"}),
     invited |-> Count(MEMBERS, LAMBDA m : m.status = "invited"),
     sso |-> Count(MEMBERS, LAMBDA m : m.provisioned = "sso")]

MembersPage == [figures |-> MembersFigures, rows |-> MEMBERS]

\* templateName: the id stands in for a template that does not exist.
templateName(id) == id \in {ACCESS_TEMPLATES[i][1] : i \in DOMAIN ACCESS_TEMPLATES}

restricted(c) == c.scope = "restricted"

AccessPage ==
    [chapters |-> {CHAPTER_ACCESS[i].chapterId : i \in DOMAIN CHAPTER_ACCESS},
     locked |-> {c \in ToSet(CHAPTER_ACCESS) : restricted(c)},
     templates |-> ACCESS_TEMPLATES]

FILTERS == <<"all", "read", "write", "admin", "auth">>

\* The rows of the audit log under a filter, and the figures above them.
EventsUnder(filter) == IF filter = "all" THEN AUDIT_EVENTS ELSE SelectSeq(AUDIT_EVENTS, LAMBDA k : k = filter)

AuditPage(filter) ==
    [rows |-> EventsUnder(filter), total |-> Len(AUDIT_EVENTS),
     reads |-> Len(EventsUnder("read")), writes |-> Len(EventsUnder("write")),
     admin |-> Len(EventsUnder("admin"))]

ReviewPage ==
    LET sum == FoldLeft(LAMBDA n, p : n + p[2], 0, REVIEW_PROPOSALS)
    IN  [open |-> Len(REVIEW_PROPOSALS), structural |-> Count(REVIEW_PROPOSALS, LAMBDA p : p[1] # "unfiled"),
         unfiled |-> Count(REVIEW_PROPOSALS, LAMBDA p : p[1] = "unfiled"),
         avg |-> (2 * sum + Len(REVIEW_PROPOSALS)) \div (2 * Len(REVIEW_PROPOSALS)),
         green |-> {i \in DOMAIN REVIEW_PROPOSALS : REVIEW_PROPOSALS[i][2] >= 75}]

EntitiesPage ==
    [total |-> Len(ENTITIES), canonical |-> Count(ENTITIES, LAMBDA e : e.status = "canonical"),
     ambiguous |-> Count(ENTITIES, LAMBDA e : e.status = "ambiguous")]

\* The candidates marked "likely": every one with the highest score.
LikelyOf(item) == {i \in DOMAIN item : item[i] = Max(ToSet(item))}

AmbiguityQueuePage == [i \in DOMAIN AMBIGUITY_ITEMS |-> LikelyOf(AMBIGUITY_ITEMS[i])]

\* The sources page counts every connector and offers those not yet connected.
CONNECTED == {"slack", "notion", "jira", "github", "drive"}

SourcesPage ==
    [connected |-> Len(SOURCES), healthy |-> Count(SOURCES, LAMBDA s : s.health \in {"synced", "syncing"}),
     needsAttention |-> Count(SOURCES, LAMBDA s : s.health \in {"failed", "auth-lapse"}),
     counted |-> Len(connectors), offered |-> SelectSeq(connectors, LAMBDA c : c \notin CONNECTED)]

\* The limits drawn as bars, the nearly full ones in the warning colour.
UsagePage ==
    [pct |-> [r \in DOMAIN USAGE |-> Percent(USAGE[r][1], USAGE[r][2])],
     high |-> {r \in DOMAIN USAGE : Percent(USAGE[r][1], USAGE[r][2]) >= 80}]
=============================================================================
