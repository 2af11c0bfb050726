------------------------------- MODULE Shell -------------------------------
(* The frame around every signed-in page of the web client: the router and  *)
(* the links that lead somewhere, the breadcrumb with the name a page       *)
(* publishes, the search box, the spine and the hotkeys, and the calls a    *)
(* page makes, whose callbacks run even when the page is gone.              *)
EXTENDS Integers, Sequences, FiniteSets

CONSTANTS
    Tokens,      \* the sources connected with a token, by the chosen name
    Oauths,      \* the sources connected through the provider's consent page
    Files,       \* the synced files
    MaxVisits,   \* bound: links a user follows and reloads
    MaxCalls,    \* bound: calls made
    MaxFails,    \* bound: calls and queries that fail
    MaxKeys      \* bound: what a user does with the search box, spine and hotkeys

\* The bounds are counts, and no source has the name of the page that adds one.
ASSUME ShellAssumption ==
    /\ MaxVisits \in Nat /\ MaxCalls \in Nat /\ MaxFails \in Nat /\ MaxKeys \in Nat
    /\ "new" \notin Tokens \cup Oauths
    /\ IsFiniteSet(Files)

VARIABLES
    route,   \* where the browser is
    nav,     \* the navigation the router is carrying out
    leaf,    \* the published name, as the thing it names
    calls,   \* the calls in flight
    made,    \* how many calls were made
    mount,   \* the page on the screen: the calls made before it, and its last of each kind
    fails,
    visits,
    frame,   \* search box, spine and theme
    keys,
    tour     \* the pages this user's links lead to

shell == <<route, nav, leaf, calls, made, mount, fails, visits, frame, keys, tour>>

Ops == {"connect", "authorize", "sync", "stop", "rename", "flag"}

Conns == Tokens \cup Oauths
Nowhere == "none"

Loc(page, id) == [at |-> page, id |-> id]
Page(page) == Loc(page, Nowhere)

-----------------------------------------------------------------------------
(* Paths and the breadcrumb.                                                *)

NAV == {"ask", "book", "sources", "files", "entities", "review", "members",
        "access", "audit", "usage", "settings"}

EXTRA == {"account"}

\* The marker of the list and the filter of the files are no part of the path.
Path(r) ==
    CASE r.at = "list" -> <<"sources">>
      [] r.at = "detail" -> <<"sources", r.id>>
      [] r.at = "manage" -> <<"sources", r.id, "manage">>
      [] r.at = "new" -> <<"sources", "new">>
      [] r.at = "connect" -> <<"sources", "new", "github_pat">>
      [] r.at = "file" -> <<"files", r.id>>
      [] OTHER -> <<r.at>>

Crumb(label, href) == [label |-> label, href |-> href, detail |-> FALSE]
Detail(href) == [label |-> "detail", href |-> href, detail |-> TRUE]
NoHref == <<>>

SourceCrumb(id) == Detail(<<"sources", id>>)

buildCrumbs(segs) ==
    LET key == segs[1]
        deeper == Len(segs) > 1
        home == Crumb("home", <<"home">>)
    IN IF segs = <<>> \/ key \notin NAV \cup EXTRA THEN <<home>>
       ELSE <<home, Crumb(key, IF deeper THEN <<key>> ELSE NoHref)>>
            \o (IF ~deeper THEN <<>>
                ELSE IF key = "sources" /\ segs[2] = "new"
                THEN <<Crumb("new", IF Len(segs) > 2 THEN <<"sources", "new">> ELSE NoHref)>>
                     \o (IF Len(segs) > 2 THEN <<Detail(NoHref)>> ELSE <<>>)
                ELSE IF key = "sources" /\ Len(segs) > 2 /\ segs[3] = "manage"
                THEN <<SourceCrumb(segs[2]), Crumb("manage", NoHref)>>
                ELSE <<Detail(NoHref)>>)

\* The detail crumb shows the published name, wherever in the trail it is.
AppContextBar ==
    LET crumbs == buildCrumbs(Path(route))
    IN [i \in DOMAIN crumbs |->
          IF leaf # Nowhere /\ crumbs[i].detail THEN [crumbs[i] EXCEPT !.label = leaf]
          ELSE crumbs[i]]

-----------------------------------------------------------------------------
(* The router.                                                              *)

Signed == {"home", "account", "list", "detail", "manage", "new", "connect",
           "files", "file", "audit", "members", "settings"}
InApp == route.at \in Signed

\* Where a link, a call's answer or the provider's page can lead.
Places ==
    {Page(p) : p \in {"home", "account", "new", "audit", "members", "settings"}}
    \cup [at: {"list", "files"}, id: Conns \cup {Nowhere}]
    \cup [at: {"detail", "manage"}, id: Conns] \cup [at: {"file"}, id: Files]
    \cup {Loc("connect", "github_pat")} \cup [at: {"consent"}, id: Oauths]

Idle == [to |-> Page(Nowhere), by |-> Nowhere]

\* A navigation replaces the one under way.
Push(to, by) == nav' = [to |-> to, by |-> by]

\* The page stays mounted when only the query of its address changes.
Stays == Path(nav.to) = Path(route)

Mounted(n) == [since |-> n, last |-> [op \in Ops |-> 0]]

\* Unmounting clears the name; the next page publishes its own.
ClearsName == leaf' = IF Stays THEN leaf ELSE Nowhere

Commit ==
    /\ nav # Idle
    /\ route' = nav.to /\ nav' = Idle
    /\ ClearsName
    /\ mount' = IF Stays THEN mount ELSE Mounted(made)
    /\ UNCHANGED <<calls, made, fails, visits, frame, keys, tour>>

\* usePublishBreadcrumbLeaf: the effect of the page that is mounted.
PublishLeaf(name) ==
    /\ leaf # name /\ leaf' = name
    /\ UNCHANGED <<route, nav, calls, made, mount, fails, visits, frame, keys, tour>>

\* Where the spine, its profile menu and the breadcrumb lead.
SpineLinks == {Page("home"), Page("account"), Page("list"), Page("files"),
               Page("members"), Page("audit"), Page("settings")}

CrumbLinks ==
    LET trail == AppContextBar
    IN {r \in {Page("home"), Page("list"), Page("new"), Page("files")}
              \cup [at: {"detail"}, id: Conns] :
          \E i \in 1..(Len(trail) - 1) : trail[i].href = Path(r)}

\* A user follows one of the links the page, the spine or the trail offers.
Follow(links) ==
    /\ InApp /\ visits < MaxVisits /\ visits' = visits + 1
    /\ \E to \in links \cup SpineLinks \cup CrumbLinks :
          to.at \in tour /\ Push(to, "user")
    /\ UNCHANGED <<route, leaf, calls, made, mount, fails, frame, keys, tour>>

-----------------------------------------------------------------------------
(* Calls.                                                                   *)

Ask(op, arg) ==
    /\ made < MaxCalls /\ made' = made + 1
    /\ calls' = calls \cup {[n |-> made + 1, op |-> op, arg |-> arg, at |-> "sent"]}
    /\ mount' = [mount EXCEPT !.last[op] = made + 1]
    /\ UNCHANGED <<route, nav, leaf, fails, visits, frame, keys, tour>>

\* isPending follows the page's last call; a callback knows the page it is of.
isPending(op) == \E c \in calls : c.n = mount.last[op]
OfThisPage(c) == c.n > mount.since

Fails == fails < MaxFails /\ fails' = fails + 1

\* The server has handled c; one whose page was unloaded has nobody to tell.
Served(c, how) ==
    /\ calls' = IF c.at = "lost" THEN calls \ {c}
                ELSE (calls \ {c}) \cup {[c EXCEPT !.at = how]}
    /\ IF how = "error" THEN Fails ELSE UNCHANGED fails
    /\ UNCHANGED <<route, nav, leaf, made, mount, visits, frame, keys, tour>>

Unserved(c) == c.at \in {"sent", "lost"}

Answered(c) ==
    /\ calls' = calls \ {c}
    /\ UNCHANGED <<leaf, made, mount, fails, visits, frame, keys, tour>>

-----------------------------------------------------------------------------
(* The search box, the spine and the theme.                                 *)

FreshSearch == [q |-> "", open |-> FALSE, typing |-> FALSE]

\* What outlives a reload: the cookie of the spine and the stored theme.
FrameInit ==
    [search |-> FreshSearch, expanded |-> FALSE, cookie |-> Nowhere, dark |-> FALSE,
     chosen |-> FALSE]

Key == InApp /\ keys < MaxKeys /\ keys' = keys + 1
OnlyFrame == UNCHANGED <<route, leaf, calls, made, mount, fails, tour, visits>>
Stay == OnlyFrame /\ UNCHANGED nav

showPanel == frame.search.open /\ frame.search.q # ""

\* "/" from anywhere but an input, or a click into the box.
FocusSearch ==
    /\ Key /\ ~frame.search.typing
    /\ frame' = [frame EXCEPT !.search.typing = TRUE, !.search.open = TRUE]
    /\ Stay

TypeSearch ==
    /\ Key /\ frame.search.typing
    /\ \E q \in {"", "s"} \ {frame.search.q} :
          frame' = [frame EXCEPT !.search.q = q, !.search.open = TRUE]
    /\ Stay

\* A click elsewhere keeps the text; Escape drops it.
DismissSearch ==
    /\ Key /\ frame.search.typing
    /\ \E q \in {"", frame.search.q} :
          frame' = [frame EXCEPT !.search = [FreshSearch EXCEPT !.q = q]]
    /\ Stay

go ==
    /\ Key /\ showPanel
    /\ frame' = [frame EXCEPT !.search = FreshSearch]
    /\ \E to \in SpineLinks : to.at \in tour /\ Push(to, "user")
    /\ OnlyFrame

ThemeHotkey ==
    /\ Key /\ ~frame.search.typing
    /\ frame' = [frame EXCEPT !.dark = ~@, !.chosen = TRUE]
    /\ Stay

setExpanded(v) == [frame EXCEPT !.expanded = v, !.cookie = IF v THEN "true" ELSE "false"]

\* A click on the collapsed rail, the fold button, or the shortcut.
AppSpine ==
    /\ Key /\ frame' = setExpanded(~frame.expanded)
    /\ Stay

\* The page loads again: what was in memory is gone, the cookie is read.
SpineProvider == [frame EXCEPT !.search = FreshSearch, !.expanded = frame.cookie = "true"]

Chrome == FocusSearch \/ TypeSearch \/ DismissSearch \/ go \/ ThemeHotkey \/ AppSpine

Reload(to) ==
    /\ route' = to /\ nav' = Idle /\ leaf' = Nowhere
    /\ calls' = {[c EXCEPT !.at = "lost"] : c \in {d \in calls : Unserved(d)}}
    /\ mount' = Mounted(made) /\ frame' = SpineProvider
    /\ UNCHANGED <<made, fails, keys, tour>>

-----------------------------------------------------------------------------
ShellInit ==
    /\ route \in Places /\ tour \subseteq Signed
    /\ nav = Idle /\ leaf = Nowhere /\ calls = {} /\ made \in 0..MaxCalls
    /\ mount = Mounted(made) /\ fails \in 0..MaxFails
    /\ visits \in 0..MaxVisits /\ keys \in 0..MaxKeys
    /\ frame = FrameInit

\* "clearing it on unmount so a stale name never lingers on the next page"
\* (breadcrumb-leaf.ts:35): whatever was loading, answered or clicked in
\* between, the published name is that of the thing the page is about.
LeafNamesPage ==
    leaf # Nowhere => route.at \in {"detail", "manage", "file", "connect"} /\ leaf = route.id

\* Every crumb but the last is a link, and following it shows the trail up to
\* that crumb (app-context-bar.tsx, "one level under it: the detail crumb
\* links to the source").
TrailNests ==
    LET trail == buildCrumbs(Path(route))
        Labels(t) == [i \in DOMAIN t |-> t[i].label]
    IN \A i \in 1..(Len(trail) - 1) :
          /\ trail[i].href # NoHref
          /\ Labels(buildCrumbs(trail[i].href)) = SubSeq(Labels(trail), 1, i)
=============================================================================
