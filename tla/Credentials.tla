---------------------------- MODULE Credentials ----------------------------
(* The tokens of one connection (activity/client.go): every attempt of a     *)
(* sync activity turns the stored row into a client, refreshing the access   *)
(* token when it is about to end.  Attempts run on several worker processes; *)
(* the lock that makes a refresh single-flight is one process's.  A          *)
(* reconnect writes the same row from the server.  Tokens are numbered in    *)
(* the order the provider issues them; a token and its expiry are one thing. *)
EXTENDS Naturals, Sequences, FiniteSets

CONSTANTS
    Attempts,       \* activity attempts that use the connection
    Workers,        \* worker processes
    Placements,     \* how Temporal may place the attempts on the workers
    MaxTokens,      \* bound on the tokens the provider issues
    None,           \* no token, no holder
    MaxFaults       \* bound on crashes, lost answers, failed reads and writes

ASSUME PlacementsAssumption == Placements \subseteq [Attempts -> Workers]
ASSUME BoundsAssumption == MaxTokens \in Nat /\ MaxFaults \in Nat
ASSUME NoneAssumption == None \notin Nat \cup Attempts

VARIABLES
    row,            \* the tokens of connector_connection
    status,         \* its status
    home,           \* the worker each attempt runs on
    lock,           \* per worker, the attempt that holds the connection's mutex
    att,            \* the attempts: where they are, the row they read, the token they got
    consent,        \* tokens of a new consent that the server has yet to store
    issued,         \* the newest token of the provider
    valid,          \* the refresh token the provider accepts
    age,            \* how far each access token is from its expiry
    faults          \* what has gone wrong so far

vars == <<row, status, home, lock, att, consent, issued, valid, age, faults>>

Tokens == 0..MaxTokens

\* More than refreshSkew left; within it; too close to the end for oauth2 to use.
FRESH == 0
NEAR == 1
SPENT == 2

Row(access, refresh, expires, installation) ==
    [access |-> access, refresh |-> refresh, expires |-> expires, installation |-> installation]
Token(access, refresh) == [access |-> access, refresh |-> refresh]
Idle == [pc |-> "idle", conn |-> Row(None, None, FALSE, FALSE), tok |-> Token(None, None)]

OAuth == Row(0, 0, TRUE, FALSE)
PersonalToken == Row(0, None, FALSE, FALSE)
Installation == Row(None, None, FALSE, TRUE)

Attempt == [pc : {"idle", "loaded", "waiting", "holding", "asked"},
            conn : [access : Tokens \cup {None}, refresh : Tokens \cup {None},
                    expires : BOOLEAN, installation : BOOLEAN],
            tok : [access : Tokens \cup {None}, refresh : Tokens \cup {None}]]

Init ==
    /\ row \in {OAuth, PersonalToken, Installation}
    /\ status = "connected"
    /\ home \in Placements
    /\ lock = [w \in Workers |-> None]
    /\ att = [a \in Attempts |-> Idle]
    /\ consent = Token(None, None)
    /\ issued = 0 /\ valid = 0
    /\ age = [n \in Tokens |-> FRESH]
    /\ faults = <<>>

-----------------------------------------------------------------------------
(* One attempt.                                                              *)

At(a, pc) == att[a].pc = pc
Goes(a, pc) == att' = [att EXCEPT ![a].pc = pc]
Ends(a) == att' = [att EXCEPT ![a] = Idle]      \* with a client or an error; another may follow
Fault(kind) == Len(faults) < MaxFaults /\ faults' = Append(faults, kind)
Unlock(a) == lock' = [lock EXCEPT ![home[a]] = None]

Fresh(r) == r.expires /\ age[r.access] = FRESH

\* The activity reads the connection some steps before it asks for a client.
Load(a) ==
    /\ At(a, "idle")
    /\ att' = [att EXCEPT ![a].pc = "loaded", ![a].conn = row]
    /\ UNCHANGED <<row, status, home, lock, consent, issued, valid, age, faults>>

\* An installation token is minted for each attempt; a token without a refresh
\* token or an expiry, or with time left, is used as it is.
clientFor(a) ==
    /\ At(a, "loaded")
    /\ LET conn == att[a].conn
           asIs == conn.installation \/ conn.refresh = None \/ ~conn.expires \/ Fresh(conn)
       IN  IF asIs THEN Ends(a) ELSE Goes(a, "waiting")
    /\ UNCHANGED <<row, status, home, lock, consent, issued, valid, age, faults>>

\* The winner of the lock reads the row again: it takes the tokens found there,
\* keeping its refresh token over an empty one, and is done when they are fresh.
\* A failed read is ignored.
LockKeepsOld(a) ==
    /\ At(a, "waiting") /\ lock[home[a]] = None
    /\ lock' = [lock EXCEPT ![home[a]] = a]
    /\ Goes(a, "holding")
    /\ UNCHANGED <<row, status, home, consent, issued, valid, age, faults>>

LockNeverFreed(a) ==
    /\ At(a, "waiting") /\ lock[home[a]] = None
    /\ lock' = [lock EXCEPT ![home[a]] = a]
    /\ att' = [att EXCEPT ![a] = IF Fresh(row) THEN Idle ELSE [@ EXCEPT !.conn = row, !.pc = "holding"]]
    /\ UNCHANGED <<row, status, home, consent, issued, valid, age, faults>>

Lock(a) ==
    /\ At(a, "waiting") /\ lock[home[a]] = None
    /\ \/ Fresh(row) /\ Ends(a) /\ UNCHANGED <<lock, faults>>
       \/ /\ ~Fresh(row)
          /\ att' = [att EXCEPT ![a].pc = "holding",
                                ![a].conn = [row EXCEPT !.refresh = IF @ = None THEN att[a].conn.refresh ELSE @]]
          /\ lock' = [lock EXCEPT ![home[a]] = a]
          /\ UNCHANGED faults
       \/ /\ Goes(a, "holding") /\ lock' = [lock EXCEPT ![home[a]] = a]
          /\ Fault("read")
    /\ UNCHANGED <<row, status, home, consent, issued, valid, age>>

\* src.Token(): a token the library still takes for valid comes back as it is.
Reuse(a) ==
    /\ At(a, "holding")
    /\ LET conn == att[a].conn
       IN  /\ age[conn.access] # SPENT
           /\ att' = [att EXCEPT ![a].pc = "asked", ![a].tok = Token(conn.access, conn.refresh)]
    /\ UNCHANGED <<row, status, home, lock, consent, issued, valid, age, faults>>

\* The provider issues a new access token, and a new refresh token in the place of
\* the one it was shown, or none.
Issues(rotates) ==
    /\ issued < MaxTokens
    /\ issued' = issued + 1
    /\ valid' = IF rotates THEN issued' ELSE valid

Asks(a) == At(a, "holding") /\ age[att[a].conn.access] = SPENT

\* The answer arrives, or is lost with the connection; nothing was stored yet.
Refresh(a) ==
    /\ Asks(a) /\ att[a].conn.refresh = valid
    /\ \E rotates \in BOOLEAN :
          /\ Issues(rotates)
          /\ \/ /\ att' = [att EXCEPT ![a].pc = "asked", ![a].tok = Token(issued', IF rotates THEN issued' ELSE None)]
                /\ UNCHANGED <<lock, faults>>
             \/ Ends(a) /\ Unlock(a) /\ Fault("answer")
    /\ UNCHANGED <<row, status, home, consent, age>>

\* Any other error of the provider is worth another attempt.
Unavailable(a) ==
    /\ Asks(a) /\ Ends(a) /\ Unlock(a)
    /\ UNCHANGED <<row, status, home, consent, issued, valid, age, faults>>

\* invalid_grant is terminal: classify marks the connection.
InvalidGrant(a) ==
    /\ Asks(a) /\ att[a].conn.refresh # valid
    /\ Ends(a) /\ Unlock(a)
    /\ status' = "needs_reauth"
    /\ UNCHANGED <<row, home, consent, issued, valid, age, faults>>

\* The token is written by connection id alone.  A rotation without a refresh
\* token leaves the stored one.
persistBlanks(a) ==
    /\ At(a, "asked")
    /\ row' = [row EXCEPT !.access = att[a].tok.access, !.refresh = att[a].tok.refresh]
    /\ Ends(a) /\ Unlock(a)
    /\ UNCHANGED <<status, home, consent, issued, valid, age, faults>>

persistRotatedToken(a) ==
    /\ At(a, "asked")
    /\ LET tok == att[a].tok
       IN  \/ /\ row' = [row EXCEPT !.access = tok.access,
                                    !.refresh = IF tok.refresh = None THEN @ ELSE tok.refresh]
              /\ Ends(a) /\ UNCHANGED faults
           \/ Ends(a) /\ Fault("write") /\ UNCHANGED row
    /\ Unlock(a)
    /\ UNCHANGED <<status, home, consent, issued, valid, age>>

-----------------------------------------------------------------------------
(* Around it.                                                                *)

\* A worker dies; Temporal runs its attempts again.
Crash(w) ==
    /\ \E a \in Attempts : home[a] = w /\ ~At(a, "idle")
    /\ Fault("crash")
    /\ att' = [a \in Attempts |-> IF home[a] = w THEN Idle ELSE att[a]]
    /\ lock' = [lock EXCEPT ![w] = None]
    /\ UNCHANGED <<row, status, home, consent, issued, valid, age>>

\* CompleteConnection exchanges the code of a new consent, which supersedes the
\* old one unless the provider omits the refresh token, and stores the tokens.
Exchange ==
    /\ row.expires /\ consent = Token(None, None)
    /\ \E rotates \in BOOLEAN :
          /\ Issues(rotates)
          /\ consent' = Token(issued', IF rotates THEN issued' ELSE None)
    /\ Fault("consent")
    /\ UNCHANGED <<row, status, home, lock, att, age>>

UpsertConnection ==
    /\ consent # Token(None, None)
    /\ row' = [row EXCEPT !.access = consent.access, !.refresh = IF consent.refresh = None THEN @ ELSE consent.refresh]
    /\ status' = "connected"
    /\ consent' = Token(None, None)
    /\ UNCHANGED <<home, lock, att, issued, valid, age, faults>>

\* Time passes; an older token ends no later than a newer one.
Age(n) ==
    /\ row.expires /\ n <= issued /\ age[n] # SPENT
    /\ \A m \in 0..(n - 1) : age[m] > age[n]
    /\ age' = [age EXCEPT ![n] = @ + 1]
    /\ UNCHANGED <<row, status, home, lock, att, consent, issued, valid, faults>>

Steps(a) ==
    \/ Load(a) \/ clientFor(a) \/ Lock(a) \/ Reuse(a) \/ Refresh(a)
    \/ Unavailable(a) \/ InvalidGrant(a) \/ persistRotatedToken(a)

Next ==
    \/ \E a \in Attempts : Steps(a)
    \/ \E w \in Workers : Crash(w)
    \/ Exchange \/ UpsertConnection
    \/ \E n \in Tokens : Age(n)

Spec == Init /\ [][Next]_vars

\* A running activity takes its next step; the mutex is fair to a waiter
\* (sync.Mutex hands itself over to one that has waited a millisecond).
FairSpec ==
    /\ Spec
    /\ \A a \in Attempts : /\ WF_vars(Reuse(a) \/ Refresh(a) \/ Unavailable(a) \/ InvalidGrant(a))
                           /\ WF_vars(persistRotatedToken(a))
                           /\ SF_vars(Lock(a))

-----------------------------------------------------------------------------
(* Properties.                                                               *)

\* A mutex is held by an attempt of its worker that is between lock and unlock,
\* and by no other.
TypeOK ==
    /\ att \in [Attempts -> Attempt]
    /\ row \in [access : Tokens \cup {None}, refresh : Tokens \cup {None}, expires : BOOLEAN, installation : BOOLEAN]
    /\ status \in {"connected", "needs_reauth"}
    /\ issued \in Tokens /\ valid \in 0..issued
    /\ age \in [Tokens -> FRESH..SPENT]
    /\ \A w \in Workers : {a \in Attempts : home[a] = w /\ att[a].pc \in {"holding", "asked"}}
                           = IF lock[w] = None THEN {} ELSE {lock[w]}

\* On one worker, while no answer, read or write is lost and nobody reconnects,
\* the grant is never lost: the refresh token the provider accepts is the stored
\* one, or in the hands of the attempt about to store it, and no attempt is told
\* invalid_grant (the second look under the lock in refreshedAccessToken).
OneWorkerKeepsGrant ==
    /\ row.expires /\ faults = <<>>
    /\ \A a, b \in Attempts : home[a] = home[b]
    => /\ status = "connected"
       /\ row.refresh = valid \/ \E a \in Attempts : At(a, "asked") /\ att[a].tok.refresh = valid

\* A provider that keeps its refresh token is never asked with another, on any
\* number of workers and whatever crashes or is lost: no write blanks the stored
\* token (persistRotatedToken, UpsertConnection), and the connection stays connected.
ReusedGrantSurvives ==
    row.expires /\ valid = 0 => row.refresh = 0 /\ status = "connected"

\* An attempt that waits for another's refresh gets the lock, or is run again:
\* every way out of refreshedAccessToken gives the mutex back.
WaiterServed ==
    \A a \in Attempts : At(a, "waiting") ~> ~At(a, "waiting")
=============================================================================
