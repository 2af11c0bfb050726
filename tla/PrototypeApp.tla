---------------------------- MODULE PrototypeApp ----------------------------
(* The prototype behind its sign-in: the frame (spine, context bar, search,  *)
(* command menu, panel), the reading pages and the administration pages.     *)
(* Buttons that only raise a toast change nothing and are left out.          *)
EXTENDS PrototypeSignIn, PrototypeAdmin, PrototypeStyle

CONSTANTS
    TitleHas    \* what can be typed -> the entries whose title contains it

VARIABLES
    local,      \* the state of the page on screen
    frame,      \* the state of the layout of the signed-in pages
    cookie,     \* spine_expanded
    about       \* what the user has come for; it does not change

appVars == <<local, frame, cookie>>
vars == <<signVars, styleVars, appVars, about, steps>>

Texts == DOMAIN TitleHas
BookPages == {"book", "entry"}

NoLocal ==
    [activeCite |-> Nothing, tab |-> "sources", requested |-> FALSE, inspector |-> TRUE,
     query |-> "", asked |-> "", dialog |-> FALSE, draft |-> "", extra |-> FALSE,
     filter |-> "all", pageTab |-> 1, edits |-> {}]

NoPanel(f) == [f EXCEPT !.panelQ = "", !.flips = {}]

\* SpineProvider restores the spine from the cookie when the layout mounts.
NoFrame(c) ==
    [expanded |-> c = "true", menu |-> FALSE, menuQ |-> "", search |-> FALSE, searchQ |-> "",
     panelQ |-> "", flips |-> {}, org |-> 1]

EntryEffect(l) == [l EXCEPT !.activeCite = Nothing, !.tab = "sources", !.requested = FALSE]

\* What a navigation to r does to the page and to the layout, f being the layout
\* as the click leaves it.  From one entry to another the page either stays or is
\* mounted anew: both are the router's.
Moves(r, f) ==
    /\ local' \in IF r.page # at.page THEN {NoLocal}
                  ELSE IF r.page = "entry" /\ r.tag # at.tag THEN {EntryEffect(local), EntryEffect(NoLocal)}
                  ELSE {local}
    /\ frame' = IF ~({r.page, at.page} \subseteq AppPages) THEN NoFrame(cookie)
                ELSE IF {r.page, at.page} \subseteq BookPages THEN f ELSE NoPanel(f)
    /\ UNCHANGED cookie

\* What is read of every entry, computed once.
Path == [id \in Ids |-> pathOf(id)]
Stats == [id \in Ids |-> entryStats(id)]

-----------------------------------------------------------------------------
(* The context bar and the spine.                                            *)

Crumb(r, linked) == [to |-> r, linked |-> linked]

\* The breadcrumb of the page on screen.
resolve ==
    CASE at.page = "entry" ->
           LET trail == Path[at.tag]
           IN  <<Crumb(R("book", ""), TRUE)>>
               \o [i \in DOMAIN trail |-> Crumb(R("entry", trail[i].id), i < Len(trail))]
      [] at.page = "ambiguity" -> <<Crumb(R("entities", ""), TRUE), Crumb(R("ambiguity", ""), FALSE)>>
      [] OTHER -> <<Crumb(R(at.page, ""), FALSE)>>

KNOWLEDGE == {"ask", "book"}
MANAGE == {"sources", "entities", "review", "members", "access", "audit", "usage"}

isActive(page) ==
    \/ at.page = page
    \/ page = "book" /\ at.page = "entry"
    \/ page = "entities" /\ at.page = "ambiguity"

\* The links of the spine and of its profile menu.
AppSpine == {R(p, "") : p \in KNOWLEDGE \cup MANAGE \cup {"settings"}}
ProfileMenu == {R("account", ""), R("signed-out", "")}

-----------------------------------------------------------------------------
(* The panel: the tree of the book, with a filter.                           *)

RECURSIVE matches(_, _)
matches(id, q) ==
    \/ q = ""
    \/ id \in TitleHas[q]
    \/ \E i \in DOMAIN childrenOf(id) : matches(childrenOf(id)[i].id, q)

Expanded(e, f) ==
    \/ (e.level = "chapter") # (e.id \in f.flips)
    \/ f.panelQ # "" /\ childrenOf(e.id) # <<>>

Match == [q \in Texts |-> {id \in Ids : matches(id, q)}]

\* A node is mounted under expanded nodes that match; one that does not match
\* itself is mounted but draws nothing.
Mounted(id, f) ==
    \A i \in 1..(Len(Path[id]) - 1) :
        LET e == Path[id][i] IN e.id \in Match[f.panelQ] /\ Expanded(e, f)

TreeNode(f) == {id \in Match[f.panelQ] : Mounted(id, f)}

\* A node that goes away forgets whether it was open.
BookPanel(f) == [f EXCEPT !.flips = {id \in f.flips : Mounted(id, f)}]

AppContextPanel == IF at.page \in BookPages THEN {R("entry", id) : id \in TreeNode(frame)} ELSE {}

-----------------------------------------------------------------------------
(* The pages.                                                                *)

\* The book's home: the header, a row per chapter, the rebuilt entries.
BookHomePage ==
    [strip |-> systemStatus,
     links |-> {R("sources", "")} \cup {R("entry", e.id) : e \in ToSet(childrenOf(Nothing)) \cup ToSet(recentEntries)},
     chapters |-> [e \in ToSet(childrenOf(Nothing)) |->
                     IF e.status = "building" THEN <<>>
                     ELSE LET s == Stats[e.id]
                          IN  <<s.topics, s.subtopics, s.sources,
                                IF s.counted = 0 THEN 0 ELSE Percent(s.current, s.counted)>>]]

\* The numbers in the text that are buttons: those with a citation behind them.
Summary(e) == SelectSeq(e.markers, LAMBDA n : n \in DOMAIN e.citationIds)

\* A sub-topic's rows are its citations, a branch's the distinct artifacts below.
SourcesTab(e) ==
    IF e.level = "subtopic" /\ e.citationIds # <<>>
    THEN SelectSeq(e.citationIds, LAMBDA c : Each(getCitation(c), LAMBDA found : getArtifact(found[2])) # <<>>)
    ELSE Each(artifactsOfEntry(e.id), LAMBDA a : <<a[1]>>)

EntitiesTab(e) == Each(entitiesOfEntry(e.id), LAMBDA n : <<n.id>>)

LineageTab(e) == lineageOfEntry(e.id)

\* The counts on the inspector's tabs, the rows under them, and the lineage.
Inspector ==
    [id \in Ids |-> LET s == Stats[id] e == getEntry(id)
                   IN  [counts |-> <<s.sources, s.entities>>, rows |-> <<SourcesTab(e), EntitiesTab(e)>>,
                        lineage |-> LineageTab(e)]]

\* The facts under the title.
FactBand(e) ==
    LET s == Stats[e.id]
    IN  [status |-> e.status, topics |-> IF e.level = "subtopic" THEN 0 ELSE s.topics,
         subtopics |-> IF e.level = "subtopic" THEN 0 ELSE s.subtopics, sources |-> s.sources,
         citations |-> IF e.level = "subtopic" THEN s.citations ELSE 0, entities |-> s.entities]

\* A rebuild can be asked for once, of a stale entry.
EntryPage(e) ==
    [links |-> IF e.level = "subtopic" THEN {} ELSE {R("entry", k.id) : k \in ToSet(childrenOf(e.id))},
     rebuild |-> e.status = "stale" /\ ~local.requested]

\* The answer's entries and sources appear once a question was asked.
ANSWER == [markers |-> <<1, 2, 3>>, entries |-> {"s-eu-vat", "t-refunds"}, citationIds |-> <<"c1", "c2", "c3">>]
AnswerView ==
    [links |-> {R("entry", id) : id \in ANSWER.entries \cap Ids},
     rows |-> {i \in DOMAIN ANSWER.citationIds : getCitation(ANSWER.citationIds[i]) # <<>>}]
AskPage == IF local.asked = "" THEN {} ELSE AnswerView.links

PageLinks ==
    CASE at.page = "book" -> BookHomePage.links
      [] at.page = "entry" -> EntryPage(getEntry(at.tag)).links
      [] at.page = "ask" -> AskPage
      [] at.page = "entities" -> {R("ambiguity", "")}
      [] OTHER -> {}

\* Everything that leads somewhere at a click.
AppLinks ==
    AppSpine \cup ProfileMenu \cup AppContextPanel \cup PageLinks
    \cup {resolve[i].to : i \in {i \in DOMAIN resolve : resolve[i].linked}}

-----------------------------------------------------------------------------
(* The user in the frame.  The command menu and the dialogs are modal, and a *)
(* click outside the search closes its panel.                                *)

Inside == Does /\ at.page \in AppPages
Clicks == Inside /\ ~frame.menu /\ ~local.dialog
ClickAway == [frame EXCEPT !.search = FALSE]
Stays == UNCHANGED <<signVars, styleVars>>
Elsewhere == UNCHANGED <<stored, entry, proof, styleVars>>

AppFollow ==
    /\ Clicks
    /\ \E r \in AppLinks : Push(r, timers) /\ Moves(r, ClickAway)
    /\ Elsewhere

FilterTree(q) ==
    /\ Clicks /\ at.page \in BookPages /\ q # frame.panelQ
    /\ frame' = BookPanel([ClickAway EXCEPT !.panelQ = q])
    /\ Stays /\ UNCHANGED <<local, cookie>>

ToggleNode(id) ==
    /\ Clicks /\ at.page \in BookPages /\ id \in TreeNode(frame) /\ childrenOf(id) # <<>>
    /\ frame' = BookPanel([ClickAway EXCEPT
                    !.flips = IF id \in frame.flips THEN frame.flips \ {id} ELSE frame.flips \cup {id}])
    /\ Stays /\ UNCHANGED <<local, cookie>>

toggle ==
    /\ Inside
    /\ frame' = [frame EXCEPT !.expanded = ~@]
    /\ cookie' = IF frame'.expanded THEN "true" ELSE "false"
    /\ Stays /\ UNCHANGED local

SetOrg(o) ==
    /\ Clicks /\ o # frame.org
    /\ frame' = [ClickAway EXCEPT !.org = o]
    /\ Stays /\ UNCHANGED <<local, cookie>>

\* The shortcut opens and closes the command menu, Escape closes it; what was
\* typed in it stays.
ToggleMenu ==
    /\ Inside
    /\ frame' = [frame EXCEPT !.menu = ~@]
    /\ Stays /\ UNCHANGED <<local, cookie>>

TypeInMenu(q) ==
    /\ Inside /\ frame.menu /\ q # frame.menuQ
    /\ frame' = [frame EXCEPT !.menuQ = q]
    /\ Stays /\ UNCHANGED <<local, cookie>>

\* The items of the menu: ask what was typed, an entry, a page.  Which of them
\* match what was typed is the library's.
NAV == {"ask", "book", "sources", "members", "access", "entities", "audit", "usage", "settings"}
CommandItems ==
    When(frame.menuQ # "", R("ask", frame.menuQ)) \cup {R("entry", id) : id \in Ids} \cup {R(p, "") : p \in NAV}

\* go(href) of the command menu.
MenuGo ==
    /\ Inside /\ frame.menu
    /\ \E r \in CommandItems : Push(r, timers) /\ Moves(r, [frame EXCEPT !.menu = FALSE, !.menuQ = ""])
    /\ Elsewhere

\* The search field: focus opens its panel, as typing does; Escape empties it.
SearchFor(q) ==
    /\ Clicks /\ (q # frame.searchQ \/ ~frame.search)
    /\ frame' = [frame EXCEPT !.searchQ = q, !.search = TRUE]
    /\ Stays /\ UNCHANGED <<local, cookie>>

SearchEscape ==
    /\ Clicks /\ frame.search
    /\ frame' = [frame EXCEPT !.searchQ = "", !.search = FALSE]
    /\ Stays /\ UNCHANGED <<local, cookie>>

showPanel == frame.search /\ frame.searchQ # ""

SearchRows == {R("entry", id) : id \in Ids} \cup {R("sources", ""), R("entities", "")}

SearchGo ==
    /\ Clicks /\ showPanel
    /\ \E r \in SearchRows :
          Push(r, timers) /\ Moves(r, [frame EXCEPT !.search = FALSE, !.searchQ = ""])
    /\ Elsewhere

-----------------------------------------------------------------------------
(* The user on the pages.                                                    *)

OnPage(page) == Clicks /\ at.page = page /\ frame' = ClickAway /\ Stays /\ UNCHANGED cookie

openCitation(n) ==
    /\ OnPage("entry") /\ n \in ToSet(Summary(getEntry(at.tag)))
    /\ local' = [local EXCEPT !.activeCite = getEntry(at.tag).citationIds[n], !.tab = "sources",
                              !.inspector = TRUE]

\* A row of the sources tab: a second click lets the citation go.
CiteRow(c) ==
    /\ OnPage("entry") /\ local.inspector /\ local.tab = "sources"
    /\ c \in ToSet(getEntry(at.tag).citationIds)
    /\ local' = [local EXCEPT !.activeCite = IF local.activeCite = c THEN Nothing ELSE c]

setTab(t) ==
    /\ OnPage("entry") /\ local.inspector /\ t # local.tab
    /\ local' = [local EXCEPT !.tab = t]

requestFresh ==
    /\ OnPage("entry") /\ EntryPage(getEntry(at.tag)).rebuild
    /\ local' = [local EXCEPT !.requested = TRUE]

ToggleInspector ==
    /\ OnPage("entry")
    /\ local' = [local EXCEPT !.inspector = ~@]

\* The question typed, a suggestion or a recent one; blanks are not sent.
TypeQuestion(q) ==
    /\ OnPage("ask") /\ q # local.query
    /\ local' = [local EXCEPT !.query = q]

submit(q) ==
    /\ OnPage("ask") /\ q # "" /\ (q = local.query \/ local.asked = "")
    /\ local' = [local EXCEPT !.query = q, !.asked = q]

NewQuestion ==
    /\ OnPage("ask") /\ local.asked # ""
    /\ local' = [local EXCEPT !.query = "", !.asked = ""]

\* The dialogs of the members and access pages.  Closing one keeps what was
\* typed; extra is the role, or the description, when it was changed.
OpenDialog ==
    /\ at.page \in {"members", "access"} /\ OnPage(at.page)
    /\ local' = [local EXCEPT !.dialog = TRUE]

InDialog == Inside /\ local.dialog /\ ~frame.menu /\ Stays /\ UNCHANGED <<frame, cookie>>
InviteDialog == at.page = "members" /\ InDialog
TemplateDialog == at.page = "access" /\ InDialog

Close == local' = [local EXCEPT !.dialog = FALSE]
TypeDraft(q) == q # local.draft /\ local' = [local EXCEPT !.draft = q]
ChangeExtra == local' = [local EXCEPT !.extra = ~@]

\* Nothing is sent without an address, created without a name.
Submitted ==
    /\ local.draft # ""
    /\ local' = [local EXCEPT !.dialog = FALSE, !.draft = "", !.extra = FALSE]

sendInvite == InviteDialog /\ Submitted
create == TemplateDialog /\ Submitted
UseDialog ==
    /\ InviteDialog \/ TemplateDialog
    /\ Close \/ ChangeExtra \/ \E q \in Texts : TypeDraft(q)

SetFilter(f) ==
    /\ OnPage("audit") /\ f # local.filter
    /\ local' = [local EXCEPT !.filter = f]

\* The tabs of settings and account: the content of the other tabs is not
\* mounted, so a switch or a field changed there is as it was on coming back.
PageTabs == IF at.page = "settings" THEN 1..4 ELSE 1..3

SetPageTab(t) ==
    /\ OnPage(at.page) /\ at.page \in {"settings", "account"} /\ t \in PageTabs /\ t # local.pageTab
    /\ local' = [local EXCEPT !.pageTab = t, !.edits = {}]

Editable == CASE at.page = "settings" /\ local.pageTab = 1 -> {"name"}
              [] at.page = "account" /\ local.pageTab = 1 -> {"name"}
              [] at.page = "account" /\ local.pageTab = 2 -> {"digest", "rebuilds"}
              [] OTHER -> {}

EditSetting(x) ==
    /\ OnPage(at.page) /\ x \in Editable
    /\ local' = [local EXCEPT !.edits = IF x \in @ THEN @ \ {x} ELSE @ \cup {x}]

-----------------------------------------------------------------------------
(* The whole prototype.                                                      *)

Matters == {"entering", "reading", "frame", "administering", "style"}

Init ==
    /\ SignInInit /\ StyleInit /\ about \in SUBSET Matters
    /\ local = NoLocal /\ cookie = "unset" /\ frame = NoFrame("unset")

Reading ==
    \/ \E n \in 1..3 : openCitation(n)
    \/ \E c \in {CITATIONS[i][1] : i \in DOMAIN CITATIONS} : CiteRow(c)
    \/ \E t \in {"sources", "entities", "lineage"} : setTab(t)
    \/ requestFresh
    \/ ToggleInspector
    \/ \E q \in Texts : FilterTree(q)
    \/ \E id \in Ids : ToggleNode(id)

Framing ==
    \/ toggle
    \/ \E o \in 1..2 : SetOrg(o)
    \/ ToggleMenu
    \/ \E q \in Texts : TypeInMenu(q) \/ SearchFor(q)
    \/ MenuGo
    \/ SearchEscape
    \/ SearchGo

Asking == (\E q \in Texts : TypeQuestion(q) \/ submit(q)) \/ NewQuestion

Administering ==
    \/ OpenDialog
    \/ UseDialog
    \/ sendInvite
    \/ create
    \/ \E f \in ToSet(FILTERS) : SetFilter(f)
    \/ \E t \in 1..4 : SetPageTab(t)
    \/ \E x \in {"name", "digest", "rebuilds"} : EditSetting(x)

Styling ==
    /\ \/ Does /\ (RevealPicker \/ ThemeHotkey \/ \E c \in Picks : StylePicker(c))
       \/ StyleRenders /\ UNCHANGED steps
    /\ UNCHANGED <<signVars, appVars>>

SigningIn == SignInNext /\ Moves(at', frame) /\ UNCHANGED styleVars

Reloading ==
    /\ Reload /\ StyleReload
    /\ local' = NoLocal /\ frame' = NoFrame(cookie) /\ UNCHANGED cookie

UserNext ==
    \/ "entering" \in about /\ SigningIn
    \/ AppFollow
    \/ "reading" \in about /\ Reading
    \/ "frame" \in about /\ (Framing \/ Asking)
    \/ "administering" \in about /\ Administering
    \/ "style" \in about /\ Styling
    \/ Reloading

Next == UserNext /\ UNCHANGED about

Spec == Init /\ [][Next]_vars

-----------------------------------------------------------------------------
(* Properties.                                                               *)

OnEntry == at.page = "entry"
Shown == getEntry(at.tag)

\* The breadcrumb of an entry is its line of descent: it starts at the book, each
\* crumb is the parent of the next, the last is the entry and the only one that
\* is not a link (resolve, pathOf).
TrailIsPath ==
    OnEntry =>
        /\ resolve[1].to = R("book", "") /\ Last(resolve).to = at
        /\ \A i \in DOMAIN resolve : resolve[i].linked <=> i < Len(resolve)
        /\ getEntry(resolve[2].to.tag).parentId = Nothing
        /\ \A i \in 2..(Len(resolve) - 1) : getEntry(resolve[i + 1].to.tag).parentId = resolve[i].to.tag

\* The spine marks the section the breadcrumb starts with, and no other; the
\* account page, reached from the profile menu, is in none (isActive, resolve).
SpineAgreesWithTrail ==
    at.page \in AppPages \ {"account"} =>
        {r \in AppSpine : isActive(r.page)} = {resolve[1].to}

\* The counts of a branch are its own plus those of its children, at every
\* level, and the three statuses account for all of it (entryStats, descendantsOf).
RollsUp ==
    OnEntry =>
        LET s == Stats[at.tag]
            Sums(f) == FoldLeft(LAMBDA n, k : n + Stats[k.id][f], 0, childrenOf(at.tag))
        IN  /\ s.topics = Sums("topics") + (IF Shown.level = "topic" THEN 1 ELSE 0)
            /\ s.subtopics = Sums("subtopics") + (IF Shown.level = "subtopic" THEN 1 ELSE 0)
            /\ s.current + s.stale + s.building = s.topics + s.subtopics

\* The number on a tab of the inspector is the number of its rows, no row twice,
\* and the facts under the title and the lineage say the same, though they are
\* computed by different functions (entryStats against artifactsOfEntry,
\* entitiesOfEntry, lineageOfEntry and the citations).
CountsMatchRows ==
    OnEntry =>
        LET tabs == Inspector[at.tag] facts == FactBand(Shown)
        IN  /\ \A i \in 1..2 : /\ Len(tabs.rows[i]) = tabs.counts[i]
                               /\ Cardinality(ToSet(tabs.rows[i])) = tabs.counts[i]
            /\ <<facts.sources, facts.entities>> = tabs.counts
            /\ tabs.lineage.artifacts = tabs.counts[1]
            /\ tabs.lineage.sources <= tabs.lineage.artifacts

\* The citation highlighted belongs to the entry on screen, however the reader
\* came from another one (EntryPage's reset effect).
CiteOfEntry == OnEntry /\ local.activeCite # Nothing => local.activeCite \in ToSet(Shown.citationIds)

\* While the tree is filtered every entry whose title matches is in it, however
\* its branches were folded, and nothing is that leads to no match (TreeNode).
FilterFinds ==
    at.page \in BookPages /\ frame.panelQ # "" =>
        /\ TitleHas[frame.panelQ] \subseteq TreeNode(frame)
        /\ \A id \in TreeNode(frame) :
              \E hit \in TitleHas[frame.panelQ] : \E i \in DOMAIN Path[hit] : Path[hit][i].id = id

\* The spine is as the user left it after a reload, and after leaving for the
\* sign-in pages and coming back (SpineProvider's cookie).
SpineKept == at.page \in AppPages => (frame.expanded <=> cookie = "true")

\* The figures of a page add up, and pages that show the same thing agree: the
\* health of the sources, the entities, the proposals, the chapters of the book
\* and of its access rules, of which Everyone reads exactly the unrestricted.
FiguresAgree ==
    /\ at.page \in {"sources", "book"} =>
          /\ SourcesPage.healthy + SourcesPage.needsAttention = SourcesPage.connected
          /\ SourcesPage.healthy = BookHomePage.strip.sourcesHealthy
          /\ ToSet(SourcesPage.offered) \cap {s.kind : s \in ToSet(SOURCES)} = {}
    /\ at.page = "entities" => EntitiesPage.canonical + EntitiesPage.ambiguous = systemStatus.entities
    /\ at.page = "review" => ReviewPage.structural + ReviewPage.unfiled = ReviewPage.open
    /\ at.page = "ambiguity" => \A i \in DOMAIN AMBIGUITY_ITEMS : Cardinality(AmbiguityQueuePage[i]) = 1
    /\ at.page = "access" =>
          /\ AccessPage.chapters = {e.id : e \in ToSet(childrenOf(Nothing))}
          /\ \A c \in ToSet(CHAPTER_ACCESS) :
                /\ restricted(c) <=> "at-everyone" \notin ToSet(c.templates)
                /\ \A t \in ToSet(c.templates) : templateName(t)
    /\ at.page = "ask" => ToSet(ANSWER.markers) = AnswerView.rows
    /\ at.page = "audit" => AuditPage("all").total = AuditPage("all").reads + AuditPage("all").writes
                                                   + AuditPage("all").admin + Len(AuditPage("auth").rows)
    /\ at.page = "usage" => \A r \in DOMAIN USAGE : UsagePage.pct[r] <= 100
    /\ at.page = "members" => MembersPage.figures.active + MembersPage.figures.invited <= USAGE.seats[1]

\* Two places that show the same thing agree, and what the user chose outlives
\* the page it was chosen on: the trail, the spine and the roll-ups with the
\* book, each count with its rows, the figures of the pages with one another,
\* the filtered tree with the titles, and the frame and the style with what is
\* stored of them.
PagesAgree ==
    /\ TrailIsPath /\ SpineAgreesWithTrail /\ RollsUp /\ CountsMatchRows /\ FiguresAgree
    /\ CiteOfEntry /\ FilterFinds /\ SpineKept /\ StyleKept /\ HoverSeen
=============================================================================
