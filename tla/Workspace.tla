----------------------------- MODULE Workspace -----------------------------
(* The signed-in application: the frame (Shell), the query cache (Queries), *)
(* the change feed (Watch) and the pages (Sources, Administration, Display) *)
(* composed.  A page is on the screen with its state, its queries and its   *)
(* streams from the moment the router commits to it until it commits to     *)
(* another, the page is loaded again, or the gate takes the frame down.     *)
EXTENDS Sources, Administration, Display

vars == <<qvars, wvars, src>>

-----------------------------------------------------------------------------
(* Arriving at a page.                                                      *)

session == query[<<"session">>]

\* The page of r with its queries and streams, instead of the one before.
Arrive(r, q, aged) ==
    /\ src' = FreshPage /\ adm' = FreshAdmin(r, q[<<"session">>])
    /\ query' = Mounting(q, {<<"session">>}, Uses(r, 0), aged)
    /\ Rewatch(Watched(r))

\* Nothing but the gate.
TakeDown(q) ==
    /\ src' = FreshPage /\ adm' = FreshAdmin(Page("home"), q[<<"session">>])
    /\ query' = Mounting(q, {<<"session">>}, {}, FALSE)
    /\ Rewatch({})

\* The router shows where it was told to go.
RouterCommits ==
    /\ Commit /\ UNCHANGED <<db, ws, events>>
    /\ \E aged \in BOOLEAN :
          IF ~Reached THEN ~aged /\ UNCHANGED <<query, feed, src, adm>>
          ELSE IF ~Stays THEN Arrive(nav.to, query, aged)
          ELSE /\ LET old == Uses(route, adm.offset)
                      new == Uses(nav.to, adm.offset)
                  IN query' = Mounting(query, (old \cap new) \cup {<<"session">>}, new \ old, aged)
               /\ UNCHANGED <<feed, src, adm>>

\* The session arrives at a gate that was closed.
GateOpens ==
    /\ ~Reached /\ CanArrive(<<"session">>)
    /\ Arrive(route, Landed(<<"session">>), FALSE)
    /\ UNCHANGED <<shell, db, ws, events>>

\* A session fetched in the background fails: the frame unmounts.
GateShuts ==
    /\ Reached /\ session.fetch = "sent" /\ Fails
    /\ TakeDown(Failed(<<"session">>))
    /\ leaf' = Nowhere /\ mount' = Mounted(made) /\ frame' = SpineProvider
    /\ UNCHANGED <<route, nav, calls, made, visits, keys, tour, db, ws, events>>

\* The browser loads the application again: an empty cache, and the gate.
Loads(to) ==
    /\ Reload(to)
    /\ TakeDown([k \in Keys |-> IF k = <<"session">> THEN Sent(Blank) ELSE Blank])

Refresh ==
    /\ InApp /\ visits < MaxVisits /\ visits' = visits + 1
    /\ Loads(route) /\ UNCHANGED <<db, ws, events>>

\* The provider's address has come, and the browser goes there, wherever in
\* the application the user is by then.
Authorized(c) ==
    /\ c \in calls /\ c.op = "authorize" /\ c.at = "ok"
    /\ Reload(Loc("consent", c.arg))
    /\ TakeDown([k \in Keys |-> Blank])
    /\ UNCHANGED <<db, ws, events, visits>>

\* The provider's page, and connectorCallback: the source is stored and the
\* list opened with its marker, or the list is opened without.
Consent ==
    /\ route.at = "consent"
    /\ \/ Loads(Loc("list", route.id))
          /\ db' = [db EXCEPT ![route.id] = IF @ = "absent" THEN "new" ELSE @]
       \/ Loads(Page("list")) /\ UNCHANGED db
    /\ UNCHANGED <<ws, events, visits>>

-----------------------------------------------------------------------------
Links ==
    CASE route.at = "list" -> ListLinks
      [] route.at = "detail" -> DetailLinks
      [] route.at = "new" -> NewLinks
      [] route.at = "connect" -> {Page("new")}
      [] route.at = "files" -> FilesLinks
      [] route.at = "file" -> {Page("files")}
      [] OTHER -> {}

Publishes ==
    /\ Reached
    /\ PublishLeaf(IF route.at = "file" THEN AdminLeaf ELSE LeafShown)
    /\ UNCHANGED <<query, ws, adm, events, src, wvars>>

SourceClicks ==
    /\ PressButton \/ authorize \/ FillForm \/ Narrow \/ \E b \in BOOLEAN : onConnect(b)
    /\ UNCHANGED <<query, ws, adm, events, wvars>>

User ==
    \/ Reached /\ InApp
       /\ \/ (Follow(Links) \/ Chrome) /\ UNCHANGED <<query, ws, adm, events, src, wvars>>
          \/ SourceClicks
          \/ Clicks /\ UNCHANGED <<src, wvars>>
    \/ TryAgain /\ UNCHANGED <<src, wvars>>
    \/ WindowFocus /\ InApp /\ UNCHANGED <<src, wvars>>
    \/ Refresh

\* What React does as soon as it is due, and the timer of the grace period.
Opens == Reached /\ autoOpened /\ UNCHANGED <<query, ws, adm, events, wvars>>
Elapses == Reached /\ GraceElapses /\ UNCHANGED <<query, ws, adm, events, wvars>>

\* The handlers of the API and the browser's callbacks.
Serves ==
    \E c \in calls :
        \/ ServeSource(c) /\ UNCHANGED <<query, ws, adm, events>>
        \/ ServeAdmin(c) /\ UNCHANGED <<src, wvars>>

Answering ==
    \E c \in calls :
        \/ (AnswerSource(c) \/ AuthorizeFails(c)) /\ UNCHANGED <<query, ws, adm, events, wvars>>
        \/ AnswerAdmin(c) /\ UNCHANGED <<src, wvars>>
        \/ Authorized(c)

Feeding == Feed(Streams) /\ UNCHANGED <<qvars, src>>
Fetching == Fetches /\ UNCHANGED <<src, wvars>>

Others ==
    \/ (Discovers \/ Works) /\ UNCHANGED <<shell, query, ws, adm, src>>
    \/ Reached /\ Manages /\ UNCHANGED <<query, ws, adm, src>>
    \/ Colleague /\ UNCHANGED <<src, wvars>>

WorkspaceNext ==
    \/ RouterCommits \/ GateOpens \/ GateShuts \/ Consent \/ Publishes \/ User
    \/ Opens \/ Elapses \/ Serves \/ Answering \/ Feeding \/ Fetching \/ Others

\* A workspace with one source and the application just entered.
WorkspaceInit ==
    /\ ShellInit /\ WatchInit /\ db \in [Conns -> Statuses]
    /\ ws = [name |-> "acme", answers |-> Answers, flag |-> TRUE, log |-> PAGE, theirs |-> 0]
    /\ query = [k \in Keys |-> IF k = <<"session">> THEN Sent(Blank) ELSE Blank]
    /\ events \in 0..MaxEvents
    /\ src = FreshPage
    /\ adm = FreshAdmin(Page("home"), Blank)

\* The streams, the server, the fetches, the router and the timers go on by
\* themselves; users, other members and faults need not act.
WorkspaceFairness ==
    /\ WF_vars(Opens) /\ WF_vars(Elapses) /\ WF_vars(RouterCommits) /\ WF_vars(GateOpens)
    /\ WF_vars((\E k \in Keys : Progress(k)) /\ UNCHANGED <<src, wvars>>)
    /\ \A s \in Streams :
          WF_vars((Subscribe(s) \/ Send(s) \/ Reconnect(s)) /\ UNCHANGED <<qvars, src>>)
    /\ WF_vars((NotifyConnectionChanged \/ Deliver \/ Listen) /\ UNCHANGED <<qvars, src>>)

WorkspaceSpec == WorkspaceInit /\ [][WorkspaceNext]_vars /\ WorkspaceFairness

-----------------------------------------------------------------------------
\* What a page says is so, whatever was answered, pushed, cached, renamed or
\* clicked while it was up: its trail leads back the way it came and names the
\* thing on the page, it shows this workspace's own writes, says "nothing" only
\* of nothing and leaves nothing out silently, and puts ages, intervals and
\* totals the same way wherever it shows them.
PagesTellTheTruth ==
    /\ LeafNamesPage /\ TrailNests
    /\ OwnWritesShow /\ EmptyMeansEmpty /\ NothingMissingSilently
    /\ OlderReadsOlder /\ PagesSayTheSame /\ TotalsAreOfTheList
=============================================================================
