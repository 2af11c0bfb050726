------------------------------ MODULE Sources ------------------------------
(* The pages about sources: the list, which opens a source just connected   *)
(* once its catalog is known, the page of one source with its live status,  *)
(* the gallery and the form that connects a source with a token.  Workers   *)
(* and other members change the same rows; the rows reach the pages through *)
(* the change feed (Watch).                                                 *)
EXTENDS Watch, Queries

VARIABLE src  \* the state of the page on the screen

Statuses == {"absent", "new", "ready", "idle", "syncing", "stopping", "error"}
discovered(st) == st \notin {"absent", "new"}
onboarded(st) == discovered(st) /\ st # "ready"

\* ListConnections, and the projects of one source.
ReadRows(s, rows) == IF s = "connections" THEN rows ELSE rows[s]

FreshPage == [opened |-> FALSE, grace |-> FALSE, form |-> "", only |-> "all", q |-> ""]

conns == sees["connections"]
Listed == IF conns = None THEN {} ELSE {c \in Conns : conns[c] # "absent"}
streamError == stream["connections"].at = "stopped"

-----------------------------------------------------------------------------
(* The list.                                                                *)

connectionHref(c) == Loc(IF onboarded(conns[c]) THEN "detail" ELSE "manage", c)

SourcesView ==
    IF streamError \/ query[<<"connectors">>].failed THEN "error"
    ELSE IF conns = None \/ ~Loaded(<<"connectors">>) THEN "loading"
    ELSE IF Listed = {} THEN "empty" ELSE "cards"

\* The action in the chrome needs a source, the empty state has its own.
ListLinks ==
    (IF Listed # {} \/ SourcesView = "empty" THEN {Page("new")} ELSE {})
    \cup (IF SourcesView = "cards" THEN {connectionHref(c) : c \in Listed} ELSE {})

\* An effect that latches as soon as the source is listed.
LatchesEarly ==
    /\ route.at = "list" /\ route.id \in Listed
    /\ ~src.opened /\ src' = [src EXCEPT !.opened = TRUE]
    /\ IF discovered(conns[route.id]) THEN Push(connectionHref(route.id), "open") ELSE UNCHANGED nav
    /\ UNCHANGED <<route, leaf, calls, made, mount, fails, visits, frame, keys, tour>>

\* The effect of the marker, once per mount.
autoOpened ==
    /\ route.at = "list" /\ route.id \in Listed /\ discovered(conns[route.id])
    /\ ~src.opened /\ src' = [src EXCEPT !.opened = TRUE]
    /\ Push(connectionHref(route.id), "open")
    /\ UNCHANGED <<route, leaf, calls, made, mount, fails, visits, frame, keys, tour>>

-----------------------------------------------------------------------------
(* One source.                                                              *)

\* A page that waits for the row whatever the time.
WaitsForRow ==
    IF streamError THEN "error"
    ELSE IF conns = None \/ route.id \notin Listed THEN "skeleton" ELSE "shown"

DetailView ==
    IF streamError THEN "error"
    ELSE IF conns = None \/ (route.id \notin Listed /\ ~src.grace) THEN "skeleton"
    ELSE IF route.id \notin Listed THEN "no longer exists" ELSE "shown"

\* The list of projects follows its own stream.
Loading == DetailView = "shown" /\ sees[route.id] = None

DetailLinks ==
    {Page("list")} \cup
    (IF DetailView = "shown" THEN {Loc("files", route.id), Loc("manage", route.id)} ELSE {})

GraceElapses ==
    /\ route.at = "detail" /\ ~src.grace
    /\ src' = [src EXCEPT !.grace = TRUE] /\ UNCHANGED shell

\* The one button: stop while it syncs, sync otherwise.
Button ==
    IF conns[route.id] = "syncing" THEN IF isPending("stop") THEN "disabled" ELSE "stop"
    ELSE IF conns[route.id] = "stopping" \/ isPending("sync") THEN "disabled" ELSE "sync"

PressButton ==
    /\ route.at = "detail" /\ DetailView = "shown" /\ Button # "disabled"
    /\ Ask(Button, route.id) /\ UNCHANGED src

-----------------------------------------------------------------------------
(* Adding a source.                                                         *)

patEnabled == Loaded(<<"flags">>) /\ query[<<"flags">>].data.val

\* The gallery: the token source, offered under its flag, and those of the
\* providers; a search for the token source finds it alone.
archetype(c) == IF c = "github_pat" THEN "code" ELSE "chat"
all == IF ~Loaded(<<"connectors">>) THEN {}
       ELSE Oauths \cup (IF patEnabled THEN {"github_pat"} ELSE {})
categories == {"all"} \cup {archetype(c) : c \in all}
shown == {c \in all : src.only \in {"all", archetype(c)} /\ src.q \in {"", c}}

Narrow ==
    /\ route.at = "new"
    /\ \/ \E cat \in categories \ {src.only} : src' = [src EXCEPT !.only = cat]
       \/ \E q \in {"", "github_pat"} \ {src.q} : src' = [src EXCEPT !.q = q]
    /\ UNCHANGED shell

\* The card of the token source leads to its form, the others ask for the
\* provider's address; all are disabled while that is on its way.
NewLinks ==
    {Page("list")} \cup
    (IF "github_pat" \in shown /\ ~isPending("authorize") THEN {Loc("connect", "github_pat")} ELSE {})

authorize ==
    /\ route.at = "new" /\ ~isPending("authorize")
    /\ \E c \in shown \ {"github_pat"} : Ask("authorize", c)
    /\ UNCHANGED src

\* The form is not shown while the flag is off, or not known to be on.
ConnectForm == route.at = "connect" /\ patEnabled

FillForm ==
    /\ ConnectForm /\ src.form = ""
    /\ \E c \in Tokens : src' = [src EXCEPT !.form = c]
    /\ UNCHANGED shell

\* The button waits for the call before; Enter does not.
onConnect(byKey) ==
    /\ ConnectForm /\ src.form # "" /\ (byKey \/ ~isPending("connect"))
    /\ Ask("connect", src.form) /\ UNCHANGED src

\* What the page publishes to the breadcrumb.
LeafShown ==
    IF route.at \in {"detail", "manage"} /\ route.id \in Listed THEN route.id
    ELSE IF route.at = "connect" /\ Loaded(<<"connectors">>) THEN route.id
    ELSE Nowhere

-----------------------------------------------------------------------------
(* The server.                                                              *)

Untold == writers' = writers /\ Miss /\ UNCHANGED <<notes, listener, sees, faults>>

\* The rows are keyed by the chosen name; nobody is notified.
Connected(c) ==
    /\ db' = [db EXCEPT ![c] = IF @ = "absent" THEN "new" ELSE @]
    /\ IF db[c] = "absent" THEN Untold ELSE UNCHANGED feed

ServeSource(c) ==
    /\ c \in calls /\ Unserved(c) /\ c.op \in {"connect", "authorize", "sync", "stop"}
    /\ \/ Served(c, "error") /\ UNCHANGED wvars
       \/ c.op = "connect" /\ ws.flag /\ Served(c, "ok") /\ Connected(c.arg)
       \/ c.op = "authorize" /\ Served(c, "ok") /\ UNCHANGED wvars
       \/ c.op = "sync" /\ db[c.arg] # "absent" /\ Served(c, "ok") /\ Written /\ UNCHANGED db
       \/ c.op = "stop" /\ db[c.arg] # "absent" /\ Served(c, "ok") /\ UNCHANGED wvars
    /\ UNCHANGED src

\* The consent page is another site: the browser leaves the application.
AnswerSource(c) ==
    /\ c \in calls /\ c.op \in {"connect", "sync", "stop"} /\ c.at \in {"ok", "error"}
    /\ IF c.op = "connect" /\ c.at = "ok" THEN Push(Loc("list", c.arg), "answer")
       ELSE UNCHANGED nav
    /\ Answered(c) /\ UNCHANGED <<route, src>>

AuthorizeFails(c) ==
    /\ c \in calls /\ c.op = "authorize" /\ c.at = "error"
    /\ Answered(c) /\ UNCHANGED <<route, nav, src>>

-----------------------------------------------------------------------------
(* Workers and other members.                                               *)

Event == events < MaxEvents /\ events' = events + 1

Becomes(c, from, to) == db[c] \in from /\ Write([db EXCEPT ![c] = to])

\* The catalog is discovered whether or not anybody watches.
Discovers == \E c \in Conns : Becomes(c, {"new"}, "ready") /\ UNCHANGED events

Works ==
    /\ Event
    /\ \E c \in Conns :
          \/ Becomes(c, {"idle", "error"}, "syncing")
          \/ Becomes(c, {"syncing"}, "stopping")
          \/ Becomes(c, {"syncing"}, "error")
          \/ Becomes(c, {"syncing", "stopping"}, "idle")
          \/ Becomes(c, Statuses \ {"absent"}, "absent")

\* The page that manages a source saves its first selection or removes the
\* source (ManageSource), and moves on.
Manages ==
    /\ route.at = "manage" /\ route.id \in Listed
    /\ \/ Becomes(route.id, {"ready"}, "idle") /\ Push(Loc("detail", route.id), "answer")
       \/ Becomes(route.id, Statuses \ {"absent"}, "absent") /\ Push(Page("list"), "answer")
    /\ Event
    /\ UNCHANGED <<route, leaf, calls, made, mount, fails, visits, frame, keys, tour>>

\* The streams the page mounts.
Watched(r) ==
    IF r.at = "detail" THEN {"connections", r.id}
    ELSE IF r.at \in {"list", "manage"} THEN {"connections"} ELSE {}

\* A page brings its own streams; those of the page before are aborted.
Rewatch(on) ==
    /\ stream' = [s \in Streams |-> Fresh(IF s \in on THEN "connecting" ELSE "off")]
    /\ sees' = [s \in Streams |-> None]
    /\ UNCHANGED <<writers, notes, listener, faults>>

-----------------------------------------------------------------------------
(* Properties.                                                              *)

\* The ref is not given back, and a source is opened with it.
Latched ==
    /\ src.opened => src'.opened
    /\ nav'.by = "open" => nav' = nav \/ (~src.opened /\ src'.opened)

\* "One-shot - a ref latches after the first fire so a re-render or a later
\* stream push can't loop or re-navigate" (sources/page.tsx:65): as long as the
\* page stays up, the ref stays latched and only latching it opens a source, so
\* a link the user follows while the list is opening the new source is not
\* overridden.  A list that the gate took down and brought back has a new ref.
OpensOnce == [][Reached /\ Reached' /\ Path(route') = Path(route) => Latched]_<<nav, src>>

\* "the list shows the new source's discovery progress and auto-opens its
\* manage page once discovery finishes" (new/[connector]/page.tsx:88): a list
\* that carries the marker and has not opened a source yet leaves it, unless
\* the source goes away, the change never reaches this browser, or the gate
\* reports that the server is not reached; and it opens it once.
OpensTheNew ==
    /\ OpensOnce
    /\ \A c \in Conns :
        (route = Loc("list", c) /\ ~src.opened /\ discovered(db[c]))
        ~> \/ route # Loc("list", c) \/ nav # Idle
           \/ db[c] = "absent" \/ streamError \/ stream["connections"].missed
           \/ query[<<"session">>].failed

\* "surface it instead of freezing on the skeleton forever"
\* (sources/[id]/page.tsx:84): the page of a source does not stay a skeleton,
\* and its list of projects not at "Loading", unless the stream of projects
\* alone was refused or the gate reports that the server is not reached.
DetailLoads ==
    \A c \in Conns :
        (route = Loc("detail", c) /\ (DetailView = "skeleton" \/ Loading))
        ~> \/ route # Loc("detail", c) \/ query[<<"session">>].failed
           \/ DetailView \in {"error", "no longer exists"}
           \/ DetailView = "shown" /\ (~Loading \/ stream[c].at = "stopped")

=============================================================================
