------------------------------ MODULE Queries ------------------------------
(* The rows of the workspace the API serves, and the browser's query cache  *)
(* over them: what a page uses is fetched when it mounts, dropped fetches   *)
(* leave the cache as it was, and invalidateQueries fetches again what is   *)
(* on the screen and marks the rest.                                        *)
EXTENDS Shell

CONSTANTS
    NoData,            \* a query without data
    Workspaces,        \* the names a workspace can be given
    FileOf,            \* per file its source and its project
    LIMIT, PAGE,       \* files listed, audit events per page
    MaxOffset,         \* bound: how far the audit log is paged through
    MaxEvents          \* bound: what other members do

ASSUME QueriesAssumption ==
    PAGE \in Nat \ {0} /\ MaxOffset \in Nat /\ MaxEvents \in Nat

VARIABLES
    ws,      \* the workspace's rows
    query,   \* the query cache
    events,
    adm      \* the state of the page on the screen

Answers == "answers"  \* the onboarding answers: size and use cases

Offsets == {n \in 0..MaxOffset : \E i \in 0..n : n = i * PAGE}

Keys == {<<"session">>, <<"flags">>, <<"members">>, <<"connectors">>}
        \cup ({"audit"} \X Offsets) \cup ({"files"} \X (Conns \cup {Nowhere}))
        \cup ({"content"} \X Files)

\* The rows whose contents matter, each with the writes of others it has seen.
Volatile(k) == k[1] \in {"session", "flags", "audit"}

Truth(k) ==
    CASE k[1] = "session" -> [val |-> <<ws.name, ws.answers>>, theirs |-> ws.theirs]
      [] k[1] = "flags" -> [val |-> ws.flag, theirs |-> ws.theirs]
      [] k[1] = "audit" -> [val |-> ws.log, theirs |-> ws.theirs]
      [] OTHER -> [val |-> "rows", theirs |-> 0]

\* The values they can have: a tenant's name and its answers, the flag, the
\* length of the log.
Names == Workspaces \cup {"acme", ""}
Tenants == Names \X {Answers}

Results(k) ==
    [val: CASE k[1] = "session" -> Tenants
            [] k[1] = "flags" -> BOOLEAN
            [] k[1] = "audit" -> Nat
            [] OTHER -> {"rows"},
     theirs: Nat]

\* No answer is mistaken for a missing one.
ASSUME ResultsAssumption == \A k \in Keys : NoData \notin Results(k)

\* The rest of the browser's state, and the events of others.
qvars == <<shell, ws, query, adm, events>>

Blank == [data |-> NoData, fetch |-> "no", got |-> NoData, stale |-> FALSE, failed |-> FALSE]

\* What a page uses; the gate around every page uses the session, and the
\* settings use it again.
Uses(r, offset) ==
    CASE r.at \in {"list", "detail", "manage"} -> {<<"connectors">>}
      [] r.at \in {"new", "connect"} -> {<<"connectors">>, <<"flags">>}
      [] r.at = "files" -> {<<"files", r.id>>}
      [] r.at = "file" -> {<<"files", Nowhere>>, <<"content", r.id>>}
      [] r.at = "audit" -> {<<"audit", offset>>}
      [] r.at = "members" -> {<<"members">>}
      [] r.at = "settings" -> {<<"session">>, <<"flags">>, <<"members">>}
      [] OTHER -> {}

Loaded(k) == query[k].data # NoData
Pending(k) == query[k].data = NoData /\ ~query[k].failed

Sent(q) == [q EXCEPT !.fetch = "sent", !.got = NoData, !.failed = @ /\ q.data # NoData]

\* AppGate renders the frame and the page; an error of the session, even one
\* of a fetch in the background, takes them down.
Reached == Loaded(<<"session">>) /\ ~query[<<"session">>].failed

\* Users come and stay: a query fetches for a new user when it has no data,
\* was invalidated, or has aged; with its last user a fetch is cancelled.
Mounting(q, stay, come, aged) ==
    [k \in Keys |->
        LET due == q[k].data = NoData \/ q[k].stale \/ aged
        IN IF k \in come \cap stay THEN IF due /\ q[k].fetch = "no" THEN Sent(q[k]) ELSE q[k]
           ELSE IF k \in come THEN IF due \/ q[k].fetch # "no" THEN Sent(q[k]) ELSE q[k]
           ELSE IF k \in stay THEN q[k] ELSE [q[k] EXCEPT !.fetch = "no", !.got = NoData]]

Active == {<<"session">>} \cup (IF Reached THEN Uses(route, adm.offset) ELSE {})

\* A fetch under way is left to finish.
KeepsFetch(k) ==
    IF k \notin Active THEN [query[k] EXCEPT !.stale = TRUE]
    ELSE IF query[k].fetch # "no" THEN [query[k] EXCEPT !.stale = TRUE]
    ELSE [Sent(query[k]) EXCEPT !.stale = TRUE]

\* A fetch under way starts over, except a first one.
Invalidated(k) ==
    IF k \notin Active THEN [query[k] EXCEPT !.stale = TRUE]
    ELSE IF query[k].fetch # "no" /\ ~Loaded(k) THEN [query[k] EXCEPT !.stale = TRUE]
    ELSE [Sent(query[k]) EXCEPT !.stale = TRUE]

invalidateQueries == query' = [k \in Keys |-> Invalidated(k)]

\* The server answers; the answer reaches the cache; or the retries run out.
Reads(k) ==
    /\ Volatile(k) /\ query[k].fetch = "sent"
    /\ query' = [query EXCEPT ![k].fetch = "read", ![k].got = Truth(k)]
    /\ UNCHANGED <<shell, ws, adm, events>>

Landed(k) ==
    [query EXCEPT ![k] =
       [Blank EXCEPT !.data = IF query[k].fetch = "read" THEN query[k].got ELSE Truth(k)]]

CanArrive(k) == query[k].fetch = "read" \/ (query[k].fetch = "sent" /\ ~Volatile(k))

Arrives(k) ==
    /\ CanArrive(k) /\ (k = <<"session">> => Reached)
    /\ query' = Landed(k)
    /\ UNCHANGED <<shell, ws, adm, events>>

Failed(k) ==
    [query EXCEPT ![k].fetch = "no", ![k].got = NoData, ![k].failed = TRUE, ![k].stale = TRUE]

FetchFails(k) ==
    /\ query[k].fetch = "sent" /\ (k = <<"session">> => ~Reached) /\ Fails
    /\ query' = Failed(k)
    /\ UNCHANGED <<route, nav, leaf, calls, made, mount, visits, frame, keys, tour, ws, adm, events>>

\* The window gets the focus after a while: what is on the screen has aged.
WindowFocus ==
    /\ events < MaxEvents /\ events' = events + 1
    /\ query' = [k \in Keys |-> IF k \in Active /\ query[k].fetch = "no" THEN Sent(query[k])
                                ELSE query[k]]
    /\ UNCHANGED <<shell, ws, adm>>

\* "Try again", at the gate.
TryAgain ==
    /\ query[<<"session">>].failed /\ query[<<"session">>].fetch = "no"
    /\ query' = [query EXCEPT ![<<"session">>] = Sent(@)]
    /\ UNCHANGED <<shell, ws, adm, events>>

Progress(k) == Reads(k) \/ Arrives(k)
Fetches == \E k \in Keys : Progress(k) \/ FetchFails(k)

=============================================================================
