------------------------------- MODULE Watch -------------------------------
(* The change feed, end to end: a handler writes rows and then notifies     *)
(* (database NotifyConnectionChanged), one LISTEN connection receives the   *)
(* notifications (integrations/internal/events), the broker wakes every     *)
(* subscriber through a channel of one, WatchConnections and WatchProjects  *)
(* re-read the rows and send them, and the hooks useConnectionsStream and   *)
(* useProjectsStream of the web client keep the last snapshot, reconnect    *)
(* after a drop and stop for good on an auth error.                         *)
(*                                                                          *)
(* Read(s, db) is the query behind stream s.                                *)
EXTENDS Integers

CONSTANTS
    Streams,     \* the streams the client watches
    Read(_, _),  \* what the query behind a stream returns
    None,        \* no snapshot yet
    MaxWriters,  \* bound: handlers between their write and their notification
    MaxFaults    \* bound: notifications lost, connections and streams dropped

ASSUME WatchAssumption == MaxWriters \in Nat /\ MaxFaults \in Nat

VARIABLES
    db,        \* the rows
    writers,   \* handlers that have written and not notified yet
    notes,     \* a notification waits on the LISTEN connection
    listener,  \* the LISTEN connection is up
    stream,    \* per stream: the hook's loop and the subscription that serves it
    sees,      \* per stream, the snapshot the client shows
    faults

feed == <<writers, notes, listener, stream, sees, faults>>
wvars == <<db, feed>>

\* off: not mounted; connecting: called; subscribed: in the broker, nothing
\* sent yet; open: at least one snapshot sent; backoff; stopped.
Phases == {"off", "connecting", "subscribed", "open", "backoff", "stopped"}

\* signal: the channel of one holds a signal; missed: a change was never
\* signalled since the last snapshot.
StreamStates == [at: Phases, signal: BOOLEAN, missed: BOOLEAN]

Fresh(p) == [at |-> p, signal |-> FALSE, missed |-> FALSE]

InBroker(q) == q.at \in {"subscribed", "open"}

WatchInit ==
    /\ writers = 0 /\ notes = FALSE /\ listener = TRUE
    /\ stream = [s \in Streams |-> Fresh("off")]
    /\ sees = [s \in Streams |-> None]
    /\ faults \in 0..MaxFaults

Fault == faults < MaxFaults /\ faults' = faults + 1

-----------------------------------------------------------------------------
(* The writer and the listener.                                             *)

\* A handler commits its rows; its notification is the next thing it does.
Written ==
    /\ writers < MaxWriters /\ writers' = writers + 1
    /\ UNCHANGED <<notes, listener, stream, sees, faults>>

Write(rows) == Written /\ db' = rows

\* A change nobody tells the subscribers about.
Miss == stream' = [s \in Streams |-> IF InBroker(stream[s]) THEN [stream[s] EXCEPT !.missed = TRUE]
                                     ELSE stream[s]]

\* pg_notify reaches the listener, or nobody is listening.
NotifyConnectionChanged ==
    /\ writers > 0 /\ writers' = writers - 1
    /\ IF listener THEN notes' = TRUE /\ UNCHANGED stream
                   ELSE Miss /\ UNCHANGED notes
    /\ UNCHANGED <<db, listener, sees, faults>>

\* The handler ignores an error of the notification.
NotifyFails ==
    /\ writers > 0 /\ writers' = writers - 1
    /\ Miss /\ Fault
    /\ UNCHANGED <<db, notes, listener, sees>>

\* A handler that fails between two of its writes returns before it notifies.
WrittenUntold ==
    /\ Miss /\ Fault
    /\ UNCHANGED <<writers, notes, listener, sees>>

\* The budget of faults is shared with the calls beside the feed.
FaultElsewhere == Fault /\ UNCHANGED <<db, writers, notes, listener, stream, sees>>

\* A Publish that drains a full channel instead of leaving it alone.
DrainsFull(q) == [q EXCEPT !.signal = ~@]

\* Publish: a channel that is full is left alone.
Publish(q) == [q EXCEPT !.signal = TRUE]

\* listenOnce receives the notification and publishes it.
Deliver ==
    /\ notes /\ listener /\ notes' = FALSE
    /\ stream' = [s \in Streams |-> IF InBroker(stream[s]) THEN Publish(stream[s]) ELSE stream[s]]
    /\ UNCHANGED <<db, writers, listener, sees, faults>>

\* The LISTEN connection is lost with what it had not delivered.
ListenerLost ==
    /\ listener /\ listener' = FALSE /\ Fault
    /\ notes' = FALSE
    /\ IF notes THEN Miss ELSE UNCHANGED stream
    /\ UNCHANGED <<db, writers, sees>>

\* Listen connects again, two seconds later.
Listen == ~listener /\ listener' = TRUE /\ UNCHANGED <<db, writers, notes, stream, sees, faults>>

-----------------------------------------------------------------------------
(* One stream: the handler on the server, the hook in the browser.          *)

At(s, q) == stream' = [stream EXCEPT ![s] = q]

\* WatchConnections, WatchProjects: subscribe first, then read.
Subscribe(s) ==
    /\ stream[s].at = "connecting"
    /\ At(s, Fresh("subscribed"))
    /\ UNCHANGED <<db, writers, notes, listener, sees, faults>>

\* The first snapshot, and one for every signal taken from the channel; the
\* hook replaces its state with the message.
Send(s) ==
    /\ \/ stream[s].at = "subscribed"
       \/ stream[s].at = "open" /\ stream[s].signal
    /\ At(s, [Fresh("open") EXCEPT !.signal = (stream[s].at = "subscribed" /\ stream[s].signal)])
    /\ sees' = [sees EXCEPT ![s] = Read(s, db)]
    /\ UNCHANGED <<db, writers, notes, listener, faults>>

\* The stream drops: a transient error is retried after a backoff, an auth
\* error ends the loop.  The last snapshot stays.
Drop(s, why) ==
    /\ stream[s].at \in {"connecting", "subscribed", "open"} /\ Fault
    /\ At(s, Fresh(IF why = "auth" THEN "stopped" ELSE "backoff"))
    /\ UNCHANGED <<db, writers, notes, listener, sees>>

Reconnect(s) ==
    /\ stream[s].at = "backoff"
    /\ At(s, Fresh("connecting"))
    /\ UNCHANGED <<db, writers, notes, listener, sees, faults>>

Reasons == {"auth", "transient"}

\* What the streams in S do by themselves.
Feed(S) ==
    \/ NotifyConnectionChanged \/ NotifyFails \/ Deliver \/ ListenerLost \/ Listen
    \/ \E s \in S : Subscribe(s) \/ Send(s) \/ Reconnect(s) \/ \E why \in Reasons : Drop(s, why)

\* The page that uses the hooks mounts and unmounts: a fresh loop and no
\* snapshot, an aborted loop and its state gone.
Watching(on) ==
    /\ stream' = [s \in Streams |-> IF s \notin on THEN Fresh("off")
                                    ELSE IF stream[s].at = "off" THEN Fresh("connecting") ELSE stream[s]]
    /\ sees' = [s \in Streams |-> IF s \in on THEN sees[s] ELSE None]
    /\ UNCHANGED <<writers, notes, listener, faults>>

WatchNext ==
    \/ Feed(Streams)
    \/ Written \/ WrittenUntold \/ FaultElsewhere
    \/ \E on \in SUBSET Streams : Watching(on) /\ UNCHANGED db

WatchSpec == WatchInit /\ [][WatchNext]_wvars

-----------------------------------------------------------------------------
WatchTypeOK ==
    /\ writers \in 0..MaxWriters /\ notes \in BOOLEAN /\ listener \in BOOLEAN
    /\ stream \in [Streams -> StreamStates]
    /\ DOMAIN sees = Streams
    /\ faults \in 0..MaxFaults

\* "a missed notification only delays a refresh until the next change"
\* (events.go:72): a client that shows anything but the rows as they are has
\* the change on its way to it - unnotified, on the LISTEN connection or in
\* its channel - unless a notification was really lost.
ShownIsCurrentOrComing ==
    \A s \in Streams :
        stream[s].at = "open" =>
            \/ sees[s] = Read(s, db)
            \/ writers > 0 \/ notes \/ stream[s].signal \/ stream[s].missed
=============================================================================
