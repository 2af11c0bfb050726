------------------------- MODULE WorkspaceInvariant -------------------------
(* The inductive invariant of the signed-in application: how what a page    *)
(* has in its cache relates to the rows on the server and to the calls that *)
(* are under way, for any sources, files, page sizes and numbers of visits, *)
(* calls, failures and events.                                              *)
EXTENDS Workspace, TLAPS

-----------------------------------------------------------------------------
(* The values.                                                              *)

Worlds == [name: Names, answers: {Answers}, flag: BOOLEAN, log: Nat, theirs: Nat]

Entries(k) ==
    [data: Results(k) \cup {NoData}, fetch: {"no", "sent", "read"},
     got: Results(k) \cup {NoData}, stale: BOOLEAN, failed: BOOLEAN]

Args(op) ==
    CASE op = "connect" -> Tokens
      [] op = "authorize" -> Oauths
      [] op = "rename" -> Tenants
      [] op = "flag" -> BOOLEAN
      [] OTHER -> Conns

CallStates == {"sent", "lost", "ok", "error"}
CallsOf(op) == [n: Nat, op: {op}, arg: Args(op), at: CallStates]

-----------------------------------------------------------------------------
(* The query cache.                                                         *)

(* The call that writes what k reads.                                       *)
Writes(k) == CASE k[1] = "session" -> "rename" [] k[1] = "flags" -> "flag" [] OTHER -> Nowhere

(* Truth(k), of the rows w.                                                 *)
Stands(k, w) ==
    CASE k[1] = "session" -> <<w.name, w.answers>>
      [] k[1] = "flags" -> w.flag
      [] k[1] = "audit" -> w.log
      [] OTHER -> "rows"

(* The page of the audit log at k is not past its end.                      *)
InLog(k, w) == k[1] = "audit" => k[2] = 0 \/ k[2] < w.log

(* An answer x is no newer than the rows, and of a page of the log that was *)
(* there.                                                                   *)
Seen(k, x, w) ==
    x # NoData =>
        /\ Volatile(k) => x.theirs <= w.theirs
        /\ k[1] = "audit" => x.val <= w.log /\ (k[2] = 0 \/ k[2] < x.val)

(* It is what the rows hold, or another member wrote since.                 *)
Current(k, x, w) == x.val = Stands(k, w) \/ x.theirs # w.theirs

(* A call of ours stored what k reads and was not answered yet.             *)
Unanswered(k, cs) == \E c \in cs : c.op = Writes(k) /\ c.at = "ok"

(* The entry q of the cache, with the rows w and the calls cs.              *)
Sound(k, q, w, cs) ==
    /\ q \in Entries(k)
    /\ q.fetch = "read" <=> q.got # NoData
    /\ q.fetch = "read" => Volatile(k)
    /\ q.fetch = "sent" => InLog(k, w)
    /\ Seen(k, q.data, w) /\ Seen(k, q.got, w)
    /\ \A c \in cs : c.op = Writes(k) /\ c.at # "lost" => q.data # NoData
    /\ Writes(k) # Nowhere /\ ~Unanswered(k, cs) =>
          /\ q.data # NoData /\ ~q.stale => Current(k, q.data, w)
          /\ q.got # NoData => Current(k, q.got, w)

Consistent(q, w, cs) == DOMAIN q = Keys /\ \A k \in Keys : Sound(k, q[k], w, cs)

CacheSound == Consistent(query, ws, calls)

(* Nothing is fetched for a page that is gone.                              *)
Quiet(q, on) == \A k \in Keys \ on : q[k].fetch = "no"

QuietOff == Quiet(query, Active)

-----------------------------------------------------------------------------
(* The rest of the state.                                                   *)

TypeOK ==
    /\ route \in Places /\ (nav = Idle \/ nav.to \in Places)
    /\ \A c \in calls : c.op \in Ops /\ c \in CallsOf(c.op)
    /\ made \in Nat
    /\ ws \in Worlds
    /\ DOMAIN adm = {"editing", "offset", "project", "open", "name"}
    /\ adm.offset \in Offsets /\ adm.name \in Names
    /\ DOMAIN src = {"opened", "grace", "form", "only", "q"}
    /\ src.form \in Tokens \cup {""}

IInv ==
    /\ TypeOK
    /\ CacheSound /\ QuietOff
    /\ adm.offset = 0 \/ adm.offset < ws.log
    /\ LeafNamesPage

-----------------------------------------------------------------------------
(* One entry of the cache.                                                  *)

(* The kinds of query.                                                      *)
LEMMA KindsOfKey ==
    ASSUME NEW k \in Keys
    PROVE  /\ k[1] \in {"session", "flags", "members", "connectors", "audit", "files", "content"}
           /\ k[1] = "session" => k = <<"session">>
           /\ k[1] = "flags" => k = <<"flags">>
           /\ k[1] = "audit" => k[2] \in Offsets /\ k = <<"audit", k[2]>>
  BY DEF Keys

(* An answer is data.                                                       *)
LEMMA TruthIsData ==
    ASSUME TypeOK, NEW k \in Keys
    PROVE  Truth(k) \in Results(k) /\ Truth(k) # NoData /\ Truth(k).val = Stands(k, ws)
           /\ (Volatile(k) => Truth(k).theirs = ws.theirs)
<1>1. ws \in Worlds
  BY Zenon DEF TypeOK
<1>2. Truth(k) \in Results(k)
  BY <1>1, KindsOfKey DEF Truth, Results, Worlds, Tenants
<1>3. Truth(k).val = Stands(k, ws) /\ (Volatile(k) => Truth(k).theirs = ws.theirs)
  BY <1>1, KindsOfKey DEF Truth, Stands, Volatile
<1> QED BY <1>2, <1>3, ResultsAssumption

(* A fetch is sent.                                                         *)
LEMMA SentSound ==
    ASSUME NEW k, NEW q, NEW w, NEW cs, Sound(k, q, w, cs), InLog(k, w)
    PROVE  Sound(k, Sent(q), w, cs)
<1> DEFINE s == Sent(q)
<1>1. s \in Entries(k) /\ s.fetch = "sent" /\ s.got = NoData /\ s.data = q.data /\ s.stale = q.stale
  BY Zenon DEF Sound, Entries, Sent
<1> HIDE DEF s
<1>2. Sound(k, s, w, cs)
  BY <1>1 DEF Sound, Seen
<1> QED BY <1>2 DEF s

(* A fetch is dropped.                                                      *)
LEMMA DroppedSound ==
    ASSUME NEW k, NEW q, NEW w, NEW cs, Sound(k, q, w, cs)
    PROVE  Sound(k, [q EXCEPT !.fetch = "no", !.got = NoData], w, cs)
<1> DEFINE s == [q EXCEPT !.fetch = "no", !.got = NoData]
<1>1. s \in Entries(k) /\ s.fetch = "no" /\ s.got = NoData /\ s.data = q.data /\ s.stale = q.stale
  BY Zenon DEF Sound, Entries
<1> HIDE DEF s
<1>2. Sound(k, s, w, cs)
  BY <1>1 DEF Sound, Seen
<1> QED BY <1>2 DEF s
(* An entry is marked for the next time it is used.                         *)
LEMMA StaleSound ==
    ASSUME NEW k, NEW q, NEW w, NEW cs, Sound(k, q, w, cs)
    PROVE  Sound(k, [q EXCEPT !.stale = TRUE], w, cs)
<1> DEFINE s == [q EXCEPT !.stale = TRUE]
<1>1. s \in Entries(k) /\ s.fetch = q.fetch /\ s.got = q.got /\ s.data = q.data /\ s.stale = TRUE
  BY Zenon DEF Sound, Entries
<1> HIDE DEF s
<1>2. Sound(k, s, w, cs)
  BY <1>1 DEF Sound, Seen
<1> QED BY <1>2 DEF s

(* A fetch fails.                                                           *)
LEMMA FailedSound ==
    ASSUME NEW k, NEW q, NEW w, NEW cs, Sound(k, q, w, cs)
    PROVE  Sound(k, [q EXCEPT !.fetch = "no", !.got = NoData, !.failed = TRUE, !.stale = TRUE], w, cs)
<1> DEFINE s == [q EXCEPT !.fetch = "no", !.got = NoData, !.failed = TRUE, !.stale = TRUE]
<1>1. s \in Entries(k) /\ s.fetch = "no" /\ s.got = NoData /\ s.data = q.data /\ s.stale = TRUE
  BY Zenon DEF Sound, Entries
<1> HIDE DEF s
<1>2. Sound(k, s, w, cs)
  BY <1>1 DEF Sound, Seen
<1> QED BY <1>2 DEF s

(* The server reads the rows.                                               *)
LEMMA ReadSound ==
    ASSUME IInv, NEW k \in Keys, Volatile(k), query[k].fetch = "sent"
    PROVE  Sound(k, [query[k] EXCEPT !.fetch = "read", !.got = Truth(k)], ws, calls)
<1> DEFINE q == query[k]
           s == [q EXCEPT !.fetch = "read", !.got = Truth(k)]
<1>0. Sound(k, q, ws, calls) /\ TypeOK /\ ws \in Worlds
  BY Zenon DEF IInv, CacheSound, Consistent, TypeOK
<1>1. /\ Truth(k) \in Results(k) /\ Truth(k) # NoData
      /\ Truth(k).val = Stands(k, ws) /\ Truth(k).theirs = ws.theirs
  BY <1>0, TruthIsData
<1>2. s \in Entries(k) /\ s.fetch = "read" /\ s.got = Truth(k) /\ s.data = q.data /\ s.stale = q.stale
  BY <1>0, <1>1, Zenon DEF Sound, Entries
<1>3. Seen(k, Truth(k), ws)
  BY <1>0, <1>1 DEF Seen, Sound, InLog, Stands, Worlds
<1> HIDE DEF s, q
<1>4. Sound(k, s, ws, calls)
  BY <1>0, <1>1, <1>2, <1>3 DEF Sound, Current
<1> QED BY <1>4 DEF s, q

(* The answer reaches the cache.                                            *)
LEMMA LandedSound ==
    ASSUME IInv, NEW k \in Keys, CanArrive(k)
    PROVE  LET s == [Blank EXCEPT !.data = IF query[k].fetch = "read" THEN query[k].got ELSE Truth(k)]
           IN Sound(k, s, ws, calls) /\ s.data # NoData /\ ~s.failed /\ s.fetch = "no"
<1> DEFINE q == query[k]
           x == IF q.fetch = "read" THEN q.got ELSE Truth(k)
           s == [Blank EXCEPT !.data = x]
<1>0. Sound(k, q, ws, calls) /\ TypeOK
  BY DEF IInv, CacheSound, Consistent
<1>1. /\ x \in Results(k) /\ x # NoData /\ Seen(k, x, ws)
      /\ Writes(k) # Nowhere /\ ~Unanswered(k, calls) => Current(k, x, ws)
  <2>1. CASE q.fetch = "read"
    BY <1>0, <2>1 DEF Sound, Entries
  <2>2. CASE q.fetch = "sent" /\ ~Volatile(k)
    <3>1. x = Truth(k) /\ k[1] # "audit" /\ Writes(k) = Nowhere
      BY <2>2 DEF Volatile, Writes
    <3> QED BY <1>0, <2>2, <3>1, TruthIsData DEF Seen
  <2> QED BY <2>1, <2>2 DEF CanArrive
<1> HIDE DEF x
<1>2. /\ s \in Entries(k) /\ s.fetch = "no" /\ s.got = NoData /\ s.data = x
      /\ s.stale = FALSE /\ s.failed = FALSE
  BY <1>1, Zenon DEF Blank, Entries
<1> HIDE DEF s
<1>3. Sound(k, s, ws, calls)
  BY <1>0, <1>1, <1>2 DEF Sound, Seen
<1>4. Sound(k, s, ws, calls) /\ s.data # NoData /\ ~s.failed /\ s.fetch = "no"
  BY <1>1, <1>2, <1>3
<1> QED BY <1>4 DEF s, x

(* An entry that holds nothing, when no call of ours is in flight.          *)
LEMMA BlankSound ==
    ASSUME NEW k, NEW w, NEW cs, \A c \in cs : c.at = "lost"
    PROVE  Sound(k, Blank, w, cs)
  BY DEF Sound, Entries, Blank, Seen

(* The pages of the log among the queries ks are there.                     *)
Logged(ks, w) == \A k \in Keys \cap ks : InLog(k, w)

(* A page of the log that is used is there.                                 *)
LEMMA UsedInLog ==
    ASSUME NEW r, NEW o, NEW w, o = 0 \/ o < w.log
    PROVE  Logged(Uses(r, o), w)
  BY DEF Uses, InLog, Logged

LEMMA ActiveInLog == ASSUME IInv PROVE Logged(Active, ws)
  BY UsedInLog DEF IInv, Active, InLog, Logged

-----------------------------------------------------------------------------
(* The whole cache.                                                         *)

(* An entry shows its data.                                                 *)
Holds(q) == q.data # NoData /\ ~q.failed

LEMMA SessionKey == <<"session">> \in Keys
  BY DEF Keys

LEMMA SentHolds ==
    ASSUME NEW k, NEW q \in Entries(k)
    PROVE  Sent(q).data = q.data /\ Holds(Sent(q)) = Holds(q)
  BY DEF Sent, Entries, Holds

(* The cache p shows what q does.                                           *)
Shows(p, q) == \A k \in Keys : Holds(p[k]) = Holds(q[k])

(* What a page uses is fetched when it is due, and what is not used is not. *)
LEMMA MountingSound ==
    ASSUME NEW q, NEW stay, NEW come, NEW aged, NEW w, NEW cs,
           Consistent(q, w, cs), Logged(come, w)
    PROVE  /\ Consistent(Mounting(q, stay, come, aged), w, cs)
           /\ Quiet(Mounting(q, stay, come, aged), stay \cup come)
           /\ Shows(Mounting(q, stay, come, aged), q)
<1> DEFINE m == Mounting(q, stay, come, aged)
<1>1. DOMAIN m = Keys
  BY DEF Mounting
<1>2. ASSUME NEW k \in Keys
      PROVE  /\ Sound(k, m[k], w, cs)
             /\ k \notin stay \cup come => m[k].fetch = "no"
             /\ Holds(m[k]) = Holds(q[k])
  <2> DEFINE off == [q[k] EXCEPT !.fetch = "no", !.got = NoData]
  <2>1. Sound(k, q[k], w, cs) /\ q[k] \in Entries(k)
    BY DEF Consistent, Sound
  <2>2. Sound(k, off, w, cs) /\ off.fetch = "no" /\ Holds(off) = Holds(q[k])
    <3>1. Sound(k, off, w, cs)
      BY <2>1, DroppedSound, Zenon
    <3>2. off.fetch = "no" /\ Holds(off) = Holds(q[k])
      BY <2>1 DEF Holds, Entries
    <3> QED BY <3>1, <3>2
  <2>3. k \in come => Sound(k, Sent(q[k]), w, cs) /\ Holds(Sent(q[k])) = Holds(q[k])
    BY <2>1, SentSound, SentHolds DEF Logged
  <2>4. \/ k \in come /\ m[k] \in {Sent(q[k]), q[k]}
        \/ k \in stay /\ m[k] = q[k]
        \/ k \notin stay \cup come /\ m[k] = off
    BY DEF Mounting
  <2> HIDE DEF m, off
  <2> QED BY <2>1, <2>2, <2>3, <2>4, SMTT(30)
<1> HIDE DEF m
<1>3. Consistent(m, w, cs) /\ Quiet(m, stay \cup come) /\ Shows(m, q)
  BY <1>1, <1>2 DEF Consistent, Quiet, Shows
<1> QED BY <1>3 DEF m

(* An answered call of ours invalidates what it wrote, even where a fetch   *)
(* read the rows before it.                                                 *)
LEMMA InvalidatedSound ==
    ASSUME IInv, NEW c \in calls, c.at = "ok", NEW k \in Keys
    PROVE  /\ Sound(k, Invalidated(k), ws, calls \ {c})
           /\ k \notin Active => Invalidated(k).fetch = "no"
           /\ Holds(Invalidated(k)) = Holds(query[k])
<1> DEFINE q == query[k]
           cs == calls \ {c}
           old == [q EXCEPT !.stale = TRUE]
           again == [Sent(q) EXCEPT !.stale = TRUE]
<1>1. Sound(k, q, ws, calls) /\ q \in Entries(k)
  BY DEF IInv, CacheSound, Consistent, Sound
<1>2. k \notin Active => q.fetch = "no"
  BY DEF IInv, QuietOff, Quiet
<1>3. /\ old \in Entries(k) /\ old.fetch = q.fetch /\ old.got = q.got /\ old.data = q.data
      /\ old.stale = TRUE /\ Holds(old) = Holds(q)
  BY <1>1, Zenon DEF Entries, Holds
<1>4. /\ again \in Entries(k) /\ again.fetch = "sent" /\ again.got = NoData /\ again.data = q.data
      /\ again.stale = TRUE /\ Holds(again) = Holds(q)
  BY <1>1, Zenon DEF Entries, Holds, Sent
<1> HIDE DEF q
<1>5. CASE k \notin Active
  <2>1. Invalidated(k) = old
    BY <1>5, Zenon DEF Invalidated, q
  <2> HIDE DEF old
  <2>2. Sound(k, old, ws, cs)
    BY <1>1, <1>2, <1>3, <1>5 DEF Sound, Seen
  <2> QED BY <1>2, <1>3, <1>5, <2>1, <2>2 DEF q
<1>6. CASE k \in Active /\ q.fetch # "no" /\ q.data = NoData
  <2>1. Invalidated(k) = old
    BY <1>6 DEF Invalidated, q, Loaded
  <2> HIDE DEF old
  <2>2. c.op # Writes(k)
    BY <1>1, <1>6 DEF Sound
  <2>3. Unanswered(k, cs) <=> Unanswered(k, calls)
    BY <2>2, Zenon DEF Unanswered
  <2>4. Sound(k, old, ws, cs)
    BY <1>1, <1>3, <2>3 DEF Sound, Seen
  <2> QED BY <1>3, <1>6, <2>1, <2>4 DEF q
<1>7. CASE k \in Active /\ ~(q.fetch # "no" /\ q.data = NoData)
  <2>1. Invalidated(k) = again
    BY <1>7 DEF Invalidated, q, Loaded
  <2>2. InLog(k, ws)
    BY <1>7, ActiveInLog, Zenon DEF Logged
  <2> HIDE DEF again
  <2>3. Sound(k, again, ws, cs)
    BY <1>1, <1>4, <2>2, Zenon DEF Sound, Seen
  <2> QED BY <1>4, <1>7, <2>1, <2>3 DEF q
<1> QED BY <1>5, <1>6, <1>7, SMTT(30)

(* Calls come and go: an entry is as it should be, unless a call of ours    *)
(* that wrote what it reads is forgotten.                                   *)
LEMMA CallsSound ==
    ASSUME NEW k, NEW q, NEW w, NEW cs, NEW ds, Sound(k, q, w, cs),
           \A c \in ds : c.op = Writes(k) /\ c.at # "lost" => q.data # NoData,
           Unanswered(k, cs) => Unanswered(k, ds)
    PROVE  Sound(k, q, w, ds)
  BY SMTT(30) DEF Sound

(* Another member writes.                                                   *)
LEMMA TheirsSound ==
    ASSUME NEW k \in Keys, NEW q, NEW w \in Worlds, NEW v \in Worlds, NEW cs, NEW ds,
           Sound(k, q, w, cs), w.log <= v.log, w.theirs < v.theirs, ds \subseteq cs
    PROVE  Sound(k, q, v, ds)
<1>1. /\ q \in Entries(k) /\ Seen(k, q.data, w) /\ Seen(k, q.got, w)
      /\ q.fetch = "sent" => InLog(k, w)
  BY DEF Sound
<1>2. k[1] = "audit" => k[2] \in Nat
  BY KindsOfKey DEF Offsets
<1>3. InLog(k, w) => InLog(k, v)
  BY <1>2, SMTT(30) DEF InLog, Worlds
<1>4. ASSUME NEW x \in Results(k) \cup {NoData}, Seen(k, x, w)
      PROVE  Seen(k, x, v) /\ (Volatile(k) /\ x # NoData => Current(k, x, v))
  <2>1. x # NoData => x.theirs \in Nat /\ (k[1] = "audit" => x.val \in Nat)
    BY DEF Results
  <2> QED BY <1>4, <2>1 DEF Seen, Current, Worlds
<1>5. q.data \in Results(k) \cup {NoData} /\ q.got \in Results(k) \cup {NoData}
  BY <1>1, Zenon DEF Entries
<1>6. /\ Seen(k, q.data, v) /\ Seen(k, q.got, v)
      /\ Volatile(k) /\ q.data # NoData => Current(k, q.data, v)
      /\ Volatile(k) /\ q.got # NoData => Current(k, q.got, v)
  BY <1>1, <1>4, <1>5
<1>7. Writes(k) # Nowhere => Volatile(k)
  BY DEF Writes, Volatile
<1> QED BY <1>3, <1>6, <1>7, SMTT(30) DEF Sound

(* A call of ours writes; it is to be answered.                             *)
LEMMA OursSound ==
    ASSUME NEW k \in Keys, NEW q, NEW w \in Worlds, NEW v \in Worlds, NEW cs, NEW c \in cs, NEW d,
           Sound(k, q, w, cs), w.log <= v.log, w.theirs = v.theirs,
           c.at = "sent", d.at = "ok", d.op = c.op,
           Writes(k) \notin {Nowhere, c.op} => Stands(k, w) = Stands(k, v)
    PROVE  Sound(k, q, v, (cs \ {c}) \cup {d})
<1> DEFINE ds == (cs \ {c}) \cup {d}
<1>1. /\ q \in Entries(k) /\ Seen(k, q.data, w) /\ Seen(k, q.got, w)
      /\ q.fetch = "sent" => InLog(k, w)
  BY DEF Sound
<1>2. k[1] = "audit" => k[2] \in Nat
  BY KindsOfKey DEF Offsets
<1>3. InLog(k, w) => InLog(k, v)
  BY <1>2, SMTT(30) DEF InLog, Worlds
<1>4. ASSUME NEW x \in Results(k) \cup {NoData}, Seen(k, x, w)
      PROVE  /\ Seen(k, x, v)
             /\ Writes(k) \notin {Nowhere, c.op} /\ Current(k, x, w) => Current(k, x, v)
  <2>1. x # NoData => x.theirs \in Nat /\ (k[1] = "audit" => x.val \in Nat)
    BY DEF Results
  <2> QED BY <1>4, <2>1 DEF Seen, Current, Worlds
<1>5. q.data \in Results(k) \cup {NoData} /\ q.got \in Results(k) \cup {NoData}
  BY <1>1, Zenon DEF Entries
<1>6. \A e \in ds : e.op = Writes(k) /\ e.at # "lost" => q.data # NoData
  BY DEF Sound
<1>7. CASE Writes(k) \in {Nowhere, c.op}
  <2>1. Writes(k) = Nowhere \/ Unanswered(k, ds)
    BY <1>7, Zenon DEF Unanswered
  <2> HIDE DEF ds
  <2>2. Sound(k, q, v, ds)
    BY <1>1, <1>3, <1>4, <1>5, <1>6, <2>1, Zenon DEF Sound
  <2> QED BY <2>2 DEF ds
<1>8. CASE Writes(k) \notin {Nowhere, c.op}
  <2>1. Unanswered(k, cs) => Unanswered(k, ds)
    BY <1>8, Zenon DEF Unanswered
  <2> HIDE DEF ds
  <2>2. Sound(k, q, v, ds)
    BY <1>1, <1>3, <1>4, <1>5, <1>6, <1>8, <2>1, Zenon DEF Sound
  <2> QED BY <2>2 DEF ds
<1> QED BY <1>7, <1>8, SMTT(30)

-----------------------------------------------------------------------------
(* The steps.  Most leave most of the state alone.                          *)

LEMMA ActiveStays ==
    ASSUME route' = route, adm'.offset = adm.offset,
           Holds(query'[<<"session">>]) = Holds(query[<<"session">>])
    PROVE  Active' = Active
  BY DEF Active, Reached, Loaded, Holds

(* What a step that leaves the page where it is has to keep.                *)
LEMMA OnThePage ==
    ASSUME IInv, route' = route, leaf' = leaf, adm'.offset = adm.offset,
           ws.log <= ws'.log, TypeOK',
           Consistent(query', ws', calls'), Quiet(query', Active),
           Holds(query'[<<"session">>]) = Holds(query[<<"session">>])
    PROVE  IInv'
<1>1. Active' = Active
  BY ActiveStays
<1>2. CacheSound' /\ QuietOff'
  BY <1>1 DEF CacheSound, QuietOff
<1>3. (adm.offset = 0 \/ adm.offset < ws.log)'
  <2>1. adm.offset \in Offsets /\ ws \in Worlds /\ ws' \in Worlds
    BY Zenon DEF IInv, TypeOK
  <2>2. adm.offset \in Nat /\ ws.log \in Nat /\ ws'.log \in Nat
    BY <2>1 DEF Offsets, Worlds
  <2> QED BY <2>2 DEF IInv
<1>4. LeafNamesPage'
  BY DEF IInv, LeafNamesPage
<1> QED BY <1>2, <1>3, <1>4 DEF IInv

(* The cache and the rows stay.                                             *)
LEMMA CacheStays ==
    ASSUME IInv, route' = route, leaf' = leaf, adm'.offset = adm.offset,
           UNCHANGED <<ws, query, calls>>, TypeOK'
    PROVE  IInv'
<1>1. ws.log \in Nat
  BY Zenon DEF IInv, TypeOK, Worlds
<1>2. /\ Consistent(query', ws', calls') /\ Quiet(query', Active)
      /\ Holds(query'[<<"session">>]) = Holds(query[<<"session">>])
  BY DEF IInv, CacheSound, QuietOff
<1> QED BY <1>1, <1>2, OnThePage

(* Only calls come and go.                                                  *)
LEMMA CallsStep ==
    ASSUME IInv, UNCHANGED <<route, leaf, ws, query>>, adm'.offset = adm.offset, TypeOK',
           \A k \in Keys : Sound(k, query[k], ws, calls')
    PROVE  IInv'
<1>1. ws.log \in Nat
  BY Zenon DEF IInv, TypeOK, Worlds
<1>2. /\ Consistent(query', ws', calls') /\ Quiet(query', Active)
      /\ Holds(query'[<<"session">>]) = Holds(query[<<"session">>])
  BY DEF IInv, CacheSound, Consistent, QuietOff
<1> QED BY <1>1, <1>2, OnThePage

(* A page is where it was, and the router may have been told to go on.      *)
LEMMA LocalStep ==
    ASSUME IInv, UNCHANGED <<route, leaf, ws, query, calls, made, adm>>,
           nav' = nav \/ nav'.to \in Places,
           DOMAIN src' = DOMAIN src, src'.form \in Tokens \cup {""}
    PROVE  IInv'
<1>1. TypeOK'
  BY Zenon DEF IInv, TypeOK
<1> QED BY <1>1, CacheStays, Zenon

(* A click on a page that changes its state.                                *)
LEMMA ClickStep ==
    ASSUME IInv, Local, UNCHANGED src,
           DOMAIN adm' = DOMAIN adm, adm'.offset = adm.offset, adm'.name \in Names
    PROVE  IInv'
<1>1. UNCHANGED <<route, nav, leaf, calls, made, ws, query>>
  BY DEF Local, shell
<1>2. TypeOK'
  BY <1>1, Zenon DEF IInv, TypeOK
<1> QED BY <1>1, <1>2, CacheStays

(* A call is made; one that writes a query's rows is made by a page that    *)
(* shows them.                                                              *)
LEMMA AskStep ==
    ASSUME IInv, NEW op \in Ops, NEW arg \in Args(op), Ask(op, arg),
           UNCHANGED <<ws, query, adm, src>>,
           op = "rename" => Loaded(<<"session">>), op = "flag" => Loaded(<<"flags">>)
    PROVE  IInv'
<1> DEFINE c == [n |-> made + 1, op |-> op, arg |-> arg, at |-> "sent"]
<1>1. /\ UNCHANGED <<route, nav, leaf>> /\ made' = made + 1
      /\ calls' = calls \cup {c}
  BY DEF Ask
<1>2. made \in Nat
  BY Zenon DEF IInv, TypeOK
<1>3. c \in CallsOf(op) /\ c.op = op /\ c.at = "sent"
  BY <1>2 DEF CallsOf, CallStates
<1> HIDE DEF c
<1>4. TypeOK'
  <2>1. \A d \in calls' : d.op \in Ops /\ d \in CallsOf(d.op)
    BY <1>1, <1>3, Zenon DEF IInv, TypeOK
  <2>2. made' \in Nat
    BY <1>1, <1>2
  <2> QED BY <1>1, <2>1, <2>2, Zenon DEF IInv, TypeOK
<1>5. ASSUME NEW k \in Keys
      PROVE  Sound(k, query[k], ws, calls')
  <2>1. Sound(k, query[k], ws, calls)
    BY DEF IInv, CacheSound, Consistent
  <2>2. op = Writes(k) => query[k].data # NoData
    BY KindsOfKey DEF Writes, Loaded, Ops, Nowhere
  <2>3. \A d \in calls' : d.op = Writes(k) /\ d.at # "lost" => query[k].data # NoData
    BY <1>1, <1>3, <2>1, <2>2, Zenon DEF Sound
  <2>4. Unanswered(k, calls) => Unanswered(k, calls')
    BY <1>1 DEF Unanswered
  <2> QED BY <2>1, <2>3, <2>4, CallsSound
<1> QED BY <1>1, <1>4, <1>5, CallsStep

-----------------------------------------------------------------------------
(* Where links lead.                                                        *)

LEMMA PlaceFacts ==
    ASSUME NEW r \in Places
    PROVE  /\ r = Loc(r.at, r.id)
           /\ r.at \in Signed \cup {"consent"}
           /\ r.at \in {"detail", "manage"} => r.id \in Conns
           /\ r.at \in {"list", "files"} => r.id \in Conns \cup {Nowhere}
           /\ r.at = "file" => r.id \in Files
           /\ r.at = "connect" => r.id = "github_pat"
           /\ r.at = "consent" => r.id \in Oauths
           /\ r.at \in {"home", "account", "new", "audit", "members", "settings"} => r.id = Nowhere
  BY DEF Places, Page, Loc, Signed, Nowhere

LEMMA PlacesFrom ==
    /\ \A p \in {"home", "account", "new", "audit", "members", "settings", "list", "files"} :
          Page(p) \in Places
    /\ \A c \in Conns : \A p \in {"list", "files", "detail", "manage"} : Loc(p, c) \in Places
    /\ \A f \in Files : Loc("file", f) \in Places
    /\ \A c \in Oauths : Loc("consent", c) \in Places
    /\ Loc("connect", "github_pat") \in Places
  BY DEF Places, Page, Loc

LEMMA SpineLeads == SpineLinks \subseteq Places
  BY PlacesFrom DEF SpineLinks

LEMMA LinksLead ==
    ASSUME TypeOK
    PROVE  Links \cup SpineLinks \cup CrumbLinks \subseteq Places
<1>1. CrumbLinks \subseteq Places
  <2>1. \A r \in [at: {"detail"}, id: Conns] : r = Loc("detail", r.id) /\ r.id \in Conns
    BY DEF Loc
  <2> QED BY <2>1, PlacesFrom DEF CrumbLinks
<1>2. Listed \subseteq Conns
  BY DEF Listed
<1>3. \A c \in Listed : connectionHref(c) \in Places
  BY <1>2, PlacesFrom DEF connectionHref
<1>4. ListLinks \subseteq Places
  BY <1>3, PlacesFrom DEF ListLinks
<1>5. route.at = "detail" => DetailLinks \subseteq Places
  <2>1. route.at = "detail" => route.id \in Conns
    BY PlaceFacts, Zenon DEF TypeOK
  <2> QED BY <2>1, PlacesFrom DEF DetailLinks
<1>6. NewLinks \subseteq Places
  BY PlacesFrom DEF NewLinks
<1>7. FilesLinks \subseteq Places
  <2>1. shownFiles \subseteq Files
    BY DEF shownFiles, items, Newest, Scope
  <2> QED BY <2>1, PlacesFrom DEF FilesLinks
<1>8. Links \subseteq Places
  BY <1>4, <1>5, <1>6, <1>7, PlacesFrom DEF Links
<1> QED BY <1>1, <1>8, SpineLeads

(* The router is told to go to a place.                                     *)
LEMMA UserNavigates ==
    ASSUME IInv, Follow(Links) \/ Chrome, UNCHANGED <<query, ws, adm, src>>
    PROVE  IInv'
<1>1. UNCHANGED <<route, leaf, calls, made>>
  BY Zenon DEF Follow, Chrome, FocusSearch, TypeSearch, DismissSearch, go, ThemeHotkey, AppSpine, Stay, OnlyFrame
<1>2. nav' = nav \/ nav'.to \in Places
  <2>1. CASE Follow(Links)
    <3>1. PICK to \in Links \cup SpineLinks \cup CrumbLinks : Push(to, "user")
      BY <2>1 DEF Follow
    <3>2. to \in Places
      BY <3>1, LinksLead DEF IInv
    <3> QED BY <3>1, <3>2 DEF Push
  <2>2. CASE go
    BY <2>2, SpineLeads DEF go, Push
  <2>3. CASE FocusSearch \/ TypeSearch \/ DismissSearch \/ ThemeHotkey \/ AppSpine
    BY <2>3, Zenon DEF FocusSearch, TypeSearch, DismissSearch, ThemeHotkey, AppSpine, Stay
  <2> QED BY <2>1, <2>2, <2>3 DEF Chrome
<1>3. DOMAIN src' = DOMAIN src /\ src'.form \in Tokens \cup {""}
  BY Zenon DEF IInv, TypeOK
<1> QED BY <1>1, <1>2, <1>3, LocalStep, Zenon

LEMMA SourceClicksKept == ASSUME IInv, SourceClicks PROVE IInv'
<1>1. UNCHANGED <<query, ws, adm>>
  BY DEF SourceClicks
<1>2. route \in Places /\ src.form \in Tokens \cup {""}
      /\ DOMAIN src = {"opened", "grace", "form", "only", "q"}
  BY Zenon DEF IInv, TypeOK
<1>3. CASE PressButton
  <2>1. UNCHANGED src /\ Button \in {"sync", "stop"} /\ Ask(Button, route.id) /\ route.at = "detail"
    BY <1>3 DEF PressButton, Button
  <2>2. route.id \in Conns
    BY <1>2, <2>1, PlaceFacts, Zenon
  <2>3. Button \in Ops /\ route.id \in Args(Button)
    BY <2>1, <2>2 DEF Ops, Args
  <2> QED BY <1>1, <2>1, <2>3, AskStep, SMTT(30)
<1>4. CASE authorize
  <2>1. PICK c \in shown \ {"github_pat"} : Ask("authorize", c)
    BY <1>4 DEF authorize
  <2>2. c \in Oauths
    BY <2>1, Zenon DEF shown, all
  <2>3. "authorize" \in Ops /\ c \in Args("authorize")
    BY <2>2 DEF Ops, Args
  <2> QED BY <1>1, <1>4, <2>1, <2>3, AskStep, SMTT(30) DEF authorize
<1>5. CASE FillForm \/ Narrow
  <2>1. UNCHANGED shell
    BY <1>5, Zenon DEF FillForm, Narrow
  <2>2. DOMAIN src' = DOMAIN src /\ src'.form \in Tokens \cup {""}
    BY <1>2, <1>5, Zenon DEF FillForm, Narrow
  <2> QED BY <1>1, <2>1, <2>2, LocalStep, Zenon DEF shell
<1>6. CASE \E b \in BOOLEAN : onConnect(b)
  <2>1. src.form # "" /\ Ask("connect", src.form) /\ UNCHANGED src
    BY <1>6, Zenon DEF onConnect
  <2>2. "connect" \in Ops /\ src.form \in Args("connect")
    BY <1>2, <2>1, Zenon DEF Ops, Args
  <2> QED BY <1>1, <2>1, <2>2, AskStep, Zenon
<1> QED BY <1>3, <1>4, <1>5, <1>6 DEF SourceClicks

(* The gate is open: the tenant is known.                                   *)
LEMMA TenantKnown ==
    ASSUME IInv, Loaded(<<"session">>)
    PROVE  tenant \in Tenants /\ tenant[1] \in Names /\ tenant[2] = Answers
<1>1. query[<<"session">>] \in Entries(<<"session">>)
  BY SessionKey DEF IInv, CacheSound, Consistent, Sound
<1>2. query[<<"session">>].data \in Results(<<"session">>)
  BY <1>1 DEF Loaded, Entries
<1>3. tenant \in Tenants
  BY <1>2 DEF Results, tenant
<1> QED BY <1>3, ZenonT(60) DEF Tenants

(* Another page of the log: a multiple of the page size, and not past the   *)
(* end.                                                                     *)
LEMMA OffsetsBetween ==
    ASSUME NEW o \in Offsets, o # 0
    PROVE  Smaller(PAGE, o) = PAGE /\ o - PAGE \in Offsets
<1>1. PICK i \in 0..o : o = i * PAGE
  BY DEF Offsets
<1>2. i \in Nat /\ i >= 1 /\ PAGE \in Nat /\ PAGE >= 1 /\ o \in Nat /\ o <= MaxOffset
  BY <1>1, QueriesAssumption DEF Offsets
<1>3. o - PAGE = (i - 1) * PAGE /\ i - 1 \in Nat
  BY <1>1, <1>2
<1>4. (i - 1) * PAGE >= i - 1
  BY <1>2
<1>5. o - PAGE \in 0..MaxOffset /\ i - 1 \in 0..(o - PAGE)
  BY <1>2, <1>3, <1>4, QueriesAssumption
<1>6. o - PAGE \in Offsets
  BY <1>3, <1>5 DEF Offsets
<1>7. Smaller(PAGE, o) = PAGE
  BY <1>2, <1>5, QueriesAssumption DEF Smaller
<1> QED BY <1>6, <1>7

LEMMA PageTurned ==
    ASSUME IInv, Reached, NEW o \in Offsets, o = 0 \/ o < ws.log, NEW aged \in BOOLEAN, TurnTo(o, aged),
           UNCHANGED src
    PROVE  IInv'
<1> DEFINE come == Uses(route, o)
<1>1. UNCHANGED <<route, nav, leaf, calls, made, ws>>
  BY DEF TurnTo, shell
<1>2. query' = Mounting(query, {<<"session">>}, come, aged)
  BY DEF TurnTo
<1>3. DOMAIN adm' = DOMAIN adm /\ adm'.offset = o /\ adm'.name = adm.name
  BY Zenon DEF TurnTo, IInv, TypeOK
<1>4. /\ Consistent(query', ws, calls) /\ Quiet(query', {<<"session">>} \cup come)
      /\ Shows(query', query)
  BY <1>2, UsedInLog, MountingSound DEF IInv, CacheSound
<1>5. TypeOK'
  BY <1>1, <1>3, Zenon DEF IInv, TypeOK
<1>6. CacheSound'
  BY <1>1, <1>4 DEF CacheSound
<1>7. QuietOff'
  <2>1. Reached' = Reached
    BY <1>4, SessionKey, SMTT(30) DEF Reached, Loaded, Shows, Holds
  <2>2. Active' = {<<"session">>} \cup come
    BY <1>1, <1>3, <2>1 DEF Active
  <2> QED BY <1>4, <2>2, Zenon DEF QuietOff
<1>8. (adm.offset = 0 \/ adm.offset < ws.log)'
  BY <1>1, <1>3
<1>9. LeafNamesPage'
  BY <1>1 DEF IInv, LeafNamesPage
<1> QED BY <1>5, <1>6, <1>7, <1>8, <1>9 DEF IInv

LEMMA ClicksKept == ASSUME IInv, Reached, Clicks, UNCHANGED src PROVE IInv'
<1>1. /\ Loaded(<<"session">>) /\ tenant \in Tenants /\ tenant[1] \in Names /\ tenant[2] = Answers
      /\ DOMAIN adm = {"editing", "offset", "project", "open", "name"}
      /\ adm.offset \in Offsets /\ adm.name \in Names
  BY TenantKnown, Zenon DEF Reached, IInv, TypeOK
<1>a. ws.log \in Nat
  BY Zenon DEF IInv, TypeOK, Worlds
<1>b. adm.offset \in Nat
  BY <1>1 DEF Offsets
<1>2. CASE EditName \/ CancelEdit \/ ChooseProject
  <2>1. /\ Local /\ DOMAIN adm' = DOMAIN adm /\ adm'.offset = adm.offset
        /\ adm'.name \in Names
    BY <1>1, <1>2, Zenon DEF EditName, CancelEdit, ChooseProject
  <2> QED BY <2>1, ClickStep
<1>3. CASE \E n \in Workspaces \cup {""} : SetName(n)
  <2>1. /\ Local /\ DOMAIN adm' = DOMAIN adm /\ adm'.offset = adm.offset
        /\ adm'.name \in Names
    BY <1>1, <1>3, Zenon DEF SetName, Names
  <2> QED BY <2>1, ClickStep
<1>4. CASE \E n \in {"root", "branch", "twig"} : JsonNode(n)
  <2>1. /\ Local /\ DOMAIN adm' = DOMAIN adm /\ adm'.offset = adm.offset
        /\ adm'.name \in Names
    BY <1>1, <1>4 DEF JsonNode
  <2> QED BY <2>1, ClickStep
<1>5. CASE SetFlag
  <2>1. /\ UNCHANGED <<ws, query, adm>> /\ Loaded(<<"flags">>)
        /\ Ask("flag", ~query[<<"flags">>].data.val)
    BY <1>5 DEF SetFlag, FeatureFlags
  <2>2. "flag" \in Ops /\ (~query[<<"flags">>].data.val) \in Args("flag")
    BY DEF Ops, Args
  <2> QED BY <2>1, <2>2, AskStep, SMTT(30)
<1>6. CASE \E b \in BOOLEAN : onSave(b)
  <2>1. UNCHANGED <<ws, query, adm>> /\ Ask("rename", <<adm.name, tenant[2]>>)
    BY <1>6, Zenon DEF onSave
  <2>2. "rename" \in Ops /\ <<adm.name, tenant[2]>> \in Args("rename")
    BY <1>1 DEF Ops, Args, Tenants
  <2> QED BY <1>1, <2>1, <2>2, AskStep
<1>7. CASE \E b \in BOOLEAN : Previous(b)
  <2>1. PICK b \in BOOLEAN : adm.offset # 0 /\ TurnTo(adm.offset - Smaller(PAGE, adm.offset), b)
    BY <1>7 DEF Previous
  <2>2. adm.offset - PAGE \in Offsets /\ TurnTo(adm.offset - PAGE, b)
    BY <1>1, <2>1, OffsetsBetween
  <2>3. adm.offset - PAGE < ws.log
    <3>1. adm.offset < ws.log
      BY <2>1 DEF IInv
    <3> QED BY <1>a, <1>b, <3>1, QueriesAssumption
  <2> QED BY <2>2, <2>3, PageTurned
<1>8. CASE \E b \in BOOLEAN : NextPage(b)
  <2>1. PICK b \in BOOLEAN :
           adm.offset + PAGE \in Offsets /\ ~LastPage /\ TurnTo(adm.offset + PAGE, b)
    BY <1>8 DEF NextPage
  <2>2. total \in Nat /\ total <= ws.log
    <3>1. Sound(auditKey, query[auditKey], ws, calls) /\ auditKey[1] = "audit"
      <4>1. auditKey \in Keys /\ auditKey[1] = "audit"
        BY <1>1 DEF auditKey, Keys
      <4> QED BY <4>1 DEF IInv, CacheSound, Consistent
    <3>2. CASE Loaded(auditKey)
      <4>1. query[auditKey].data \in Results(auditKey) /\ query[auditKey].data.val <= ws.log
        BY <3>1, <3>2, Zenon DEF Sound, Entries, Seen, Loaded
      <4> QED BY <3>1, <3>2, <4>1 DEF total, Results
    <3>3. CASE ~Loaded(auditKey)
      BY <1>a, <3>3 DEF total
    <3> QED BY <3>2, <3>3, ZenonT(60)
  <2>3. adm.offset + PAGE < ws.log
    <3>1. adm.offset + PAGE < total
      BY <2>1, <2>2, <1>b, QueriesAssumption DEF LastPage
    <3> QED BY <1>a, <1>b, <2>2, <3>1, QueriesAssumption, SMTT(30)
  <2> QED BY <2>1, <2>3, PageTurned
<1> QED BY <1>2, <1>3, <1>4, <1>5, <1>6, <1>7, <1>8, Zenon DEF Clicks

-----------------------------------------------------------------------------
(* The cache by itself.                                                     *)

LEMMA QueryStep ==
    ASSUME IInv, UNCHANGED <<route, nav, leaf, calls, made, ws, adm, src>>,
           Consistent(query', ws, calls), Quiet(query', Active),
           Holds(query'[<<"session">>]) = Holds(query[<<"session">>])
    PROVE  IInv'
<1>1. ws.log \in Nat
  BY Zenon DEF IInv, TypeOK, Worlds
<1>2. TypeOK'
  BY Zenon DEF IInv, TypeOK
<1>3. route' = route /\ leaf' = leaf /\ adm'.offset = adm.offset /\ ws.log <= ws'.log
  BY <1>1, SMTT(30)
<1>4. Consistent(query', ws', calls')
  BY Zenon
<1> QED BY <1>2, <1>3, <1>4, OnThePage, Zenon

(* One entry changes.                                                       *)
LEMMA EntryStep ==
    ASSUME IInv, UNCHANGED <<route, nav, leaf, calls, made, ws, adm, src>>,
           NEW k \in Keys, NEW s, query' = [query EXCEPT ![k] = s],
           Sound(k, s, ws, calls), k \notin Active => s.fetch = "no",
           k = <<"session">> => Holds(s) = Holds(query[k])
    PROVE  IInv'
<1>1. Consistent(query, ws, calls) /\ Quiet(query, Active)
  BY DEF IInv, CacheSound, QuietOff
<1>2. \A j \in Keys : query'[j] = IF j = k THEN s ELSE query[j]
  BY <1>1 DEF Consistent
<1>3. Consistent(query', ws, calls)
  BY <1>1, <1>2 DEF Consistent
<1>4. Quiet(query', Active)
  BY <1>1, <1>2 DEF Quiet
<1>5. Holds(query'[<<"session">>]) = Holds(query[<<"session">>])
  BY <1>2, SessionKey
<1> QED BY <1>3, <1>4, <1>5, QueryStep

LEMMA FetchingKept == ASSUME IInv, Fetching PROVE IInv'
<1>1. PICK k \in Keys : Reads(k) \/ Arrives(k) \/ FetchFails(k)
  BY DEF Fetching, Fetches, Progress
<1>2. UNCHANGED <<route, nav, leaf, calls, made, ws, adm, src>>
  BY <1>1 DEF Fetching, Reads, Arrives, FetchFails, shell
<1>3. Sound(k, query[k], ws, calls) /\ query[k] \in Entries(k) /\ DOMAIN query = Keys
  BY Zenon DEF IInv, CacheSound, Consistent, Sound
<1>4. k \notin Active => query[k].fetch = "no"
  BY DEF IInv, QuietOff, Quiet
<1>5. CASE Reads(k)
  <2> DEFINE s == [query[k] EXCEPT !.fetch = "read", !.got = Truth(k)]
  <2>1. query' = [query EXCEPT ![k] = s] /\ Volatile(k) /\ query[k].fetch = "sent"
    BY <1>5, Zenon DEF Reads
  <2>2. Sound(k, s, ws, calls)
    BY <2>1, ReadSound, Zenon
  <2>3. Holds(s) = Holds(query[k]) /\ k \in Active
    BY <1>3, <1>4, <2>1 DEF Holds, Entries
  <2> HIDE DEF s
  <2> QED BY <1>2, <2>1, <2>2, <2>3, EntryStep, Zenon
<1>6. CASE Arrives(k)
  <2> DEFINE s == [Blank EXCEPT !.data = IF query[k].fetch = "read" THEN query[k].got ELSE Truth(k)]
  <2>1. query' = [query EXCEPT ![k] = s] /\ CanArrive(k) /\ (k = <<"session">> => Reached)
    BY <1>6 DEF Arrives, Landed
  <2>2. Sound(k, s, ws, calls) /\ s.data # NoData /\ ~s.failed /\ s.fetch = "no"
    BY <2>1, LandedSound, SMTT(30)
  <2> HIDE DEF s
  <2>3. k = <<"session">> => Holds(s) = Holds(query[k])
    BY <2>1, <2>2 DEF Reached, Loaded, Holds
  <2> QED BY <1>2, <2>1, <2>2, <2>3, EntryStep, Zenon
<1>7. CASE FetchFails(k)
  <2> DEFINE s == [query[k] EXCEPT !.fetch = "no", !.got = NoData, !.failed = TRUE, !.stale = TRUE]
  <2>1. query' = [query EXCEPT ![k] = s] /\ (k = <<"session">> => ~Reached)
    BY <1>7, Zenon DEF FetchFails, Failed
  <2>2. Sound(k, s, ws, calls)
    BY <1>3, FailedSound, Zenon
  <2>3. s.fetch = "no" /\ s.failed = TRUE
    BY <1>3 DEF Entries
  <2> HIDE DEF s
  <2>4. k = <<"session">> => Holds(s) = Holds(query[k])
    BY <2>1, <2>3 DEF Reached, Loaded, Holds
  <2> QED BY <1>2, <2>1, <2>2, <2>3, <2>4, EntryStep, Zenon
<1> QED BY <1>1, <1>5, <1>6, <1>7

LEMMA TryAgainKept == ASSUME IInv, TryAgain, UNCHANGED src PROVE IInv'
<1> DEFINE k == <<"session">>
           s == Sent(query[k])
<1>1. k \in Keys /\ k \in Active /\ InLog(k, ws)
  BY SessionKey DEF Active, InLog
<1>2. UNCHANGED <<route, nav, leaf, calls, made, ws, adm>> /\ query' = [query EXCEPT ![k] = s]
  BY <1>1, Zenon DEF TryAgain, shell
<1>3. Sound(k, query[k], ws, calls) /\ query[k] \in Entries(k)
  BY <1>1, Zenon DEF IInv, CacheSound, Consistent, Sound
<1>4. Sound(k, s, ws, calls) /\ Holds(s) = Holds(query[k])
  BY <1>1, <1>3, SentSound, SentHolds, ZenonT(60)
<1> HIDE DEF k, s
<1> QED BY <1>1, <1>2, <1>4, EntryStep, ZenonT(60)

LEMMA WindowFocusKept == ASSUME IInv, WindowFocus, UNCHANGED src PROVE IInv'
<1>1. /\ UNCHANGED <<route, nav, leaf, calls, made, ws, adm>>
      /\ query' = [k \in Keys |-> IF k \in Active /\ query[k].fetch = "no" THEN Sent(query[k])
                                  ELSE query[k]]
  BY ZenonT(60) DEF WindowFocus, shell
<1>2. ASSUME NEW k \in Keys
      PROVE  /\ Sound(k, query'[k], ws, calls) /\ Holds(query'[k]) = Holds(query[k])
             /\ k \notin Active => query'[k].fetch = "no"
  <2>1. /\ Sound(k, query[k], ws, calls) /\ query[k] \in Entries(k)
        /\ k \notin Active => query[k].fetch = "no"
    BY ZenonT(60) DEF IInv, CacheSound, Consistent, Sound, QuietOff, Quiet
  <2>2. k \in Active => Sound(k, Sent(query[k]), ws, calls)
    BY <2>1, SentSound, ActiveInLog, Zenon DEF Logged
  <2>3. Holds(Sent(query[k])) = Holds(query[k])
    BY <2>1, SentHolds
  <2>4. query'[k] = query[k] \/ (k \in Active /\ query'[k] = Sent(query[k]))
    BY <1>1, ZenonT(60)
  <2> QED BY <2>1, <2>2, <2>3, <2>4
<1>3. Consistent(query', ws, calls) /\ Quiet(query', Active)
  BY <1>1, <1>2 DEF Consistent, Quiet
<1> QED BY <1>1, <1>2, <1>3, SessionKey, QueryStep

-----------------------------------------------------------------------------
(* The server and the callbacks.                                            *)

(* The server has handled a call.                                           *)
LEMMA ServedCalls ==
    ASSUME IInv, NEW c \in calls, Unserved(c), NEW how \in {"ok", "error"}, Served(c, how)
    PROVE  /\ UNCHANGED <<route, nav, leaf, made>>
           /\ \A d \in calls' : d.op \in Ops /\ d \in CallsOf(d.op)
           /\ \A k \in Keys : Sound(k, query[k], ws, calls')
<1> DEFINE d == [c EXCEPT !.at = how]
<1>1. c.op \in Ops /\ c \in CallsOf(c.op) /\ \A e \in calls : e.op \in Ops /\ e \in CallsOf(e.op)
  BY Zenon DEF IInv, TypeOK
<1>2. d \in CallsOf(c.op) /\ d.op = c.op /\ d.at = how
  BY <1>1 DEF CallsOf, CallStates
<1>3. calls' = IF c.at = "lost" THEN calls \ {c} ELSE (calls \ {c}) \cup {d}
  BY DEF Served
<1> HIDE DEF d
<1>4. \A e \in calls' : e.op \in Ops /\ e \in CallsOf(e.op)
  BY <1>1, <1>2, <1>3, SMTT(30)
<1>5. ASSUME NEW k \in Keys
      PROVE  Sound(k, query[k], ws, calls')
  <2>1. Sound(k, query[k], ws, calls)
    BY DEF IInv, CacheSound, Consistent
  <2>2. \A e \in calls' : e.op = Writes(k) /\ e.at # "lost" => query[k].data # NoData
    BY <1>2, <1>3, <2>1, Zenon DEF Sound
  <2>3. Unanswered(k, calls) => Unanswered(k, calls')
    BY <1>3 DEF Unanswered, Unserved
  <2> QED BY <2>1, <2>2, <2>3, CallsSound
<1> QED BY <1>4, <1>5 DEF Served

LEMMA ServeSourceKept ==
    ASSUME IInv, NEW c \in calls, ServeSource(c), UNCHANGED <<query, ws, adm>>
    PROVE  IInv'
<1>1. Unserved(c) /\ UNCHANGED src /\ (Served(c, "ok") \/ Served(c, "error"))
  BY DEF ServeSource
<1>2. /\ UNCHANGED <<route, nav, leaf, made>>
      /\ \A d \in calls' : d.op \in Ops /\ d \in CallsOf(d.op)
      /\ \A k \in Keys : Sound(k, query[k], ws, calls')
  BY <1>1, ServedCalls
<1>3. TypeOK'
  BY <1>1, <1>2, ZenonT(60) DEF IInv, TypeOK
<1> QED BY <1>2, <1>3, CallsStep, Zenon

(* A call of ours stores a name or a flag, and the log grows.               *)
LEMMA WroteKept ==
    ASSUME IInv, NEW c \in calls, Unserved(c), NEW new \in Worlds, Wrote(c, new),
           new.log = ws.log, new.theirs = ws.theirs, new.answers = ws.answers,
           c.op # "rename" => new.name = ws.name, c.op # "flag" => new.flag = ws.flag,
           UNCHANGED <<query, adm, src>>
    PROVE  IInv'
<1>1. /\ UNCHANGED <<route, nav, leaf, made>>
      /\ \A d \in calls' : d.op \in Ops /\ d \in CallsOf(d.op)
  BY ServedCalls DEF Wrote
<1>2. ws \in Worlds /\ c \in CallsOf(c.op)
  BY Zenon DEF IInv, TypeOK
<1>3. /\ ws' \in Worlds /\ ws'.log = ws.log + 1 /\ ws'.name = new.name /\ ws'.answers = new.answers
      /\ ws'.flag = new.flag
      /\ ws'.theirs = IF c.at = "lost" THEN ws.theirs + 1 ELSE ws.theirs
  <2>1. PICK t : /\ t = (IF c.at = "lost" THEN ws.theirs + 1 ELSE ws.theirs)
                 /\ ws' = [new EXCEPT !.log = ws.log + 1, !.theirs = t]
    BY Zenon DEF Wrote
  <2>2. ws.log + 1 \in Nat /\ t \in Nat
    BY <1>2, <2>1, SMTT(30) DEF Worlds
  <2> QED BY <2>1, <2>2, Zenon DEF Worlds
<1>4. ws.log <= ws'.log /\ ws.theirs \in Nat
  BY <1>2, <1>3 DEF Worlds
<1>5. TypeOK'
  BY <1>1, <1>3, Zenon DEF IInv, TypeOK
<1>6. ASSUME NEW k \in Keys
      PROVE  Sound(k, query[k], ws', calls')
  <2>1. Sound(k, query[k], ws, calls)
    BY ZenonT(60) DEF IInv, CacheSound, Consistent
  <2>2. CASE c.at = "lost"
    <3>1. ws.theirs < ws'.theirs /\ calls' \subseteq calls
      BY <1>3, <1>4, <2>2, SMTT(30) DEF Wrote, Served
    <3> QED BY <1>2, <1>3, <1>4, <2>1, <3>1, TheirsSound
  <2>3. CASE c.at = "sent"
    <3> DEFINE d == [c EXCEPT !.at = "ok"]
    <3>1. ws.theirs = ws'.theirs /\ calls' = (calls \ {c}) \cup {d}
      BY <1>3, <2>3 DEF Wrote, Served
    <3>2. d.at = "ok" /\ d.op = c.op
      BY <1>2 DEF CallsOf
    <3>3. Writes(k) \notin {Nowhere, c.op} => Stands(k, ws) = Stands(k, ws')
      BY <1>3 DEF Writes, Stands
    <3> HIDE DEF d
    <3> QED BY <1>2, <1>3, <1>4, <2>1, <2>3, <3>1, <3>2, <3>3, OursSound, SMTT(30)
  <2> QED BY <2>2, <2>3, Zenon DEF Unserved
<1>7. /\ Consistent(query', ws', calls') /\ Quiet(query', Active)
      /\ Holds(query'[<<"session">>]) = Holds(query[<<"session">>])
  BY <1>6, Zenon DEF IInv, CacheSound, Consistent, QuietOff
<1> QED BY <1>1, <1>4, <1>5, <1>7, OnThePage

LEMMA ServeAdminKept ==
    ASSUME IInv, NEW c \in calls, ServeAdmin(c), UNCHANGED src
    PROVE  IInv'
<1>1. Unserved(c) /\ UNCHANGED <<query, adm>>
  BY DEF ServeAdmin
<1>2. ws \in Worlds /\ c.op \in Ops /\ c \in CallsOf(c.op)
  BY Zenon DEF IInv, TypeOK
<1>3. CASE Served(c, "error") /\ UNCHANGED ws
  <2>1. /\ UNCHANGED <<route, nav, leaf, made>>
        /\ \A d \in calls' : d.op \in Ops /\ d \in CallsOf(d.op)
        /\ \A k \in Keys : Sound(k, query[k], ws, calls')
    BY <1>1, <1>3, ServedCalls
  <2>2. TypeOK'
    BY <1>1, <1>3, <2>1, Zenon DEF IInv, TypeOK
  <2> QED BY <1>1, <1>3, <2>1, <2>2, CallsStep, SMTT(30)
<1>4. CASE c.op = "rename" /\ Wrote(c, [ws EXCEPT !.name = c.arg[1], !.answers = c.arg[2]])
  <2> DEFINE new == [ws EXCEPT !.name = c.arg[1], !.answers = c.arg[2]]
  <2>1. c.arg \in Tenants
    BY <1>2, <1>4 DEF CallsOf, Args
  <2>2. c.arg[1] \in Names /\ c.arg[2] = Answers
    BY <2>1 DEF Tenants
  <2>3. /\ new \in Worlds /\ new.log = ws.log /\ new.theirs = ws.theirs /\ new.answers = ws.answers
        /\ new.flag = ws.flag
    BY <1>2, <2>2, Zenon DEF Worlds
  <2> HIDE DEF new
  <2>4. Wrote(c, new)
    BY <1>4 DEF new
  <2> QED BY <1>1, <1>4, <2>3, <2>4, WroteKept
<1>5. CASE c.op = "flag" /\ Wrote(c, [ws EXCEPT !.flag = c.arg])
  <2> DEFINE new == [ws EXCEPT !.flag = c.arg]
  <2>1. c.arg \in BOOLEAN
    BY <1>2, <1>5 DEF CallsOf, Args
  <2>2. /\ new \in Worlds /\ new.log = ws.log /\ new.theirs = ws.theirs /\ new.answers = ws.answers
        /\ new.name = ws.name
    BY <1>2, <2>1 DEF Worlds
  <2> HIDE DEF new
  <2>3. Wrote(c, new)
    BY <1>5 DEF new
  <2> QED BY <1>1, <1>5, <2>2, <2>3, WroteKept
<1> QED BY <1>3, <1>4, <1>5 DEF ServeAdmin

(* A call is answered: one that stored nothing a query reads, or failed.    *)
LEMMA AnsweredKept ==
    ASSUME IInv, NEW c \in calls, Answered(c), UNCHANGED <<route, query, ws, adm, src>>,
           nav' = nav \/ nav'.to \in Places,
           c.op \in {"rename", "flag"} => c.at = "error"
    PROVE  IInv'
<1>1. calls' = calls \ {c} /\ UNCHANGED <<leaf, made>>
  BY DEF Answered
<1>2. TypeOK'
  <2>1. \A d \in calls' : d.op \in Ops /\ d \in CallsOf(d.op)
    BY <1>1, Zenon DEF IInv, TypeOK
  <2> QED BY <1>1, <2>1, Zenon DEF IInv, TypeOK
<1>3. ASSUME NEW k \in Keys
      PROVE  Sound(k, query[k], ws, calls')
  <2>1. Sound(k, query[k], ws, calls)
    BY DEF IInv, CacheSound, Consistent
  <2>2. \A e \in calls' : e.op = Writes(k) /\ e.at # "lost" => query[k].data # NoData
    BY <1>1, <2>1, Zenon DEF Sound
  <2>3. c.op \in Ops
    BY Zenon DEF IInv, TypeOK
  <2>4. Unanswered(k, calls) => Unanswered(k, calls')
    BY <1>1, <2>3 DEF Unanswered, Writes, Ops, Nowhere
  <2> QED BY <2>1, <2>2, <2>4, CallsSound, SMTT(30)
<1> QED BY <1>1, <1>2, <1>3, CallsStep, SMTT(30)

LEMMA AnswerSourceKept ==
    ASSUME IInv, NEW c \in calls, AnswerSource(c) \/ AuthorizeFails(c), UNCHANGED <<query, ws, adm>>
    PROVE  IInv'
<1>1. Answered(c) /\ UNCHANGED <<route, src>> /\ c.op \notin {"rename", "flag"}
  BY DEF AnswerSource, AuthorizeFails
<1>2. nav' = nav \/ nav'.to \in Places
  <2>1. CASE c.op = "connect" /\ Push(Loc("list", c.arg), "answer")
    <3>1. c.arg \in Tokens
      BY <2>1, Zenon DEF IInv, TypeOK, CallsOf, Args
    <3>2. Loc("list", c.arg) \in Places
      BY <3>1, PlacesFrom DEF Conns
    <3> QED BY <2>1, <3>2 DEF Push
  <2>2. CASE UNCHANGED nav
    BY <2>2
  <2> QED BY <2>1, <2>2, SMTT(30) DEF AnswerSource, AuthorizeFails
<1> QED BY <1>1, <1>2, AnsweredKept, SMTT(30)

LEMMA AnswerAdminKept ==
    ASSUME IInv, NEW c \in calls, AnswerAdmin(c), UNCHANGED src
    PROVE  IInv'
<1>1. Answered(c) /\ UNCHANGED <<route, nav, ws>> /\ c.at \in {"ok", "error"}
  BY DEF AnswerAdmin
<1>2. CASE c.at = "error"
  BY <1>1, <1>2, AnsweredKept DEF AnswerAdmin
<1>3. CASE c.at = "ok"
  <2>1. calls' = calls \ {c} /\ UNCHANGED <<leaf, made>>
    BY <1>1 DEF Answered
  <2>2. query' = [k \in Keys |-> Invalidated(k)]
    BY <1>3 DEF AnswerAdmin, invalidateQueries
  <2>3. DOMAIN adm' = DOMAIN adm /\ adm'.offset = adm.offset /\ adm'.name = adm.name
    BY Zenon DEF AnswerAdmin, IInv, TypeOK
  <2>4. TypeOK'
    <3>1. \A d \in calls' : d.op \in Ops /\ d \in CallsOf(d.op)
      BY <2>1, ZenonT(60) DEF IInv, TypeOK
    <3> QED BY <1>1, <2>1, <2>3, <3>1, Zenon DEF IInv, TypeOK
  <2>5. \A k \in Keys : /\ Sound(k, query'[k], ws, calls')
                        /\ k \notin Active => query'[k].fetch = "no"
                        /\ Holds(query'[k]) = Holds(query[k])
    BY <1>3, <2>1, <2>2, InvalidatedSound, ZenonT(60)
  <2>6. Consistent(query', ws', calls') /\ Quiet(query', Active)
    BY <1>1, <2>2, <2>5, Zenon DEF Consistent, Quiet
  <2>7. ws.log \in Nat /\ ws'.log = ws.log
    BY <1>1, Zenon DEF IInv, TypeOK, Worlds
  <2>8. ws.log <= ws'.log
    BY <2>7, SMTT(30)
  <2>9. Holds(query'[<<"session">>]) = Holds(query[<<"session">>])
    BY <2>5, SessionKey, Zenon
  <2> QED BY <1>1, <2>1, <2>3, <2>4, <2>6, <2>8, <2>9, OnThePage, Zenon
<1> QED BY <1>1, <1>2, <1>3

-----------------------------------------------------------------------------
(* What React does, the streams, and other members.                         *)

LEMMA PublishesKept == ASSUME IInv, Publishes PROVE IInv'
<1>1. UNCHANGED <<route, nav, calls, made, ws, query, adm, src>>
  BY Zenon DEF Publishes, PublishLeaf
<1>2. LeafNamesPage'
  BY <1>1 DEF Publishes, PublishLeaf, AdminLeaf, LeafShown, LeafNamesPage
<1>3. TypeOK' /\ CacheSound' /\ QuietOff' /\ (adm.offset = 0 \/ adm.offset < ws.log)'
  BY <1>1, Zenon DEF IInv, TypeOK, CacheSound, QuietOff, Active, Reached, Loaded
<1> QED BY <1>2, <1>3 DEF IInv

LEMMA EffectsKept == ASSUME IInv, Opens \/ Elapses PROVE IInv'
<1>1. UNCHANGED <<route, leaf, ws, query, calls, made, adm>>
  BY DEF Opens, Elapses, autoOpened, GraceElapses, shell
<1>2. DOMAIN src = {"opened", "grace", "form", "only", "q"} /\ src.form \in Tokens \cup {""}
  BY Zenon DEF IInv, TypeOK
<1>3. DOMAIN src' = DOMAIN src /\ src'.form \in Tokens \cup {""}
  BY <1>2, Zenon DEF Opens, Elapses, autoOpened, GraceElapses
<1>4. nav' = nav \/ nav'.to \in Places
  <2>1. CASE Opens
    <3>1. route.id \in Conns
      BY <2>1 DEF Opens, autoOpened, Listed
    <3>2. connectionHref(route.id) \in Places
      BY <3>1, PlacesFrom DEF connectionHref
    <3> QED BY <2>1, <3>2 DEF Opens, autoOpened, Push
  <2>2. CASE Elapses
    BY <2>2, ZenonT(60) DEF Elapses, GraceElapses, shell
  <2> QED BY <2>1, <2>2
<1> QED BY <1>1, <1>3, <1>4, LocalStep, Zenon

LEMMA ColleagueKept == ASSUME IInv, Colleague, UNCHANGED src PROVE IInv'
<1>1. UNCHANGED <<route, nav, leaf, calls, made, query, adm>>
  BY Zenon DEF Colleague, shell
<1>2. ws \in Worlds
  BY Zenon DEF IInv, TypeOK
<1>3. ws' \in Worlds /\ ws'.log = ws.log + 1 /\ ws'.theirs = ws.theirs + 1
  <2>1. ws.log + 1 \in Nat /\ ws.theirs + 1 \in Nat
    BY <1>2 DEF Worlds
  <2> QED BY <1>2, <2>1, Zenon DEF Colleague, Worlds, Names
<1>4. ws.log <= ws'.log /\ ws.theirs < ws'.theirs
  BY <1>2, <1>3 DEF Worlds
<1>5. TypeOK'
  BY <1>1, <1>3, Zenon DEF IInv, TypeOK
<1>6. \A k \in Keys : Sound(k, query[k], ws', calls)
  BY <1>2, <1>3, <1>4, TheirsSound, ZenonT(60) DEF IInv, CacheSound, Consistent
<1>7. /\ Consistent(query', ws', calls') /\ Quiet(query', Active)
      /\ Holds(query'[<<"session">>]) = Holds(query[<<"session">>])
  BY <1>1, <1>6, SMTT(30) DEF IInv, CacheSound, Consistent, QuietOff
<1> QED BY <1>1, <1>4, <1>5, <1>7, OnThePage

LEMMA OthersKept == ASSUME IInv, Others \/ Feeding PROVE IInv'
<1>1. CASE (Discovers \/ Works) /\ UNCHANGED <<shell, query, ws, adm, src>>
  <2>1. UNCHANGED <<route, nav, leaf, ws, query, calls, made, adm, src>>
    BY <1>1 DEF shell
  <2> QED BY <2>1, LocalStep, Zenon DEF IInv, TypeOK
<1>2. CASE Manages /\ UNCHANGED <<query, ws, adm, src>>
  <2>1. UNCHANGED <<route, leaf, ws, query, calls, made, adm, src>>
    BY <1>2, Zenon DEF Manages
  <2>2. route.id \in Conns
    BY <1>2, Zenon DEF Manages, Listed
  <2>3. nav'.to \in Places
    BY <1>2, <2>2, PlacesFrom DEF Manages, Push
  <2> QED BY <2>1, <2>3, LocalStep, Zenon DEF IInv, TypeOK
<1>3. CASE Colleague /\ UNCHANGED src
  BY <1>3, ColleagueKept, SMTT(30)
<1>4. CASE Feeding
  <2>1. UNCHANGED <<route, nav, leaf, ws, query, calls, made, adm, src>>
    BY <1>4 DEF Feeding, qvars, shell
  <2> QED BY <2>1, LocalStep, Zenon DEF IInv, TypeOK
<1> QED BY <1>1, <1>2, <1>3, <1>4 DEF Others

-----------------------------------------------------------------------------
(* Pages come and go.                                                       *)

(* A page that publishes a name is told from every other by its path.       *)
LEMMA PathTells ==
    ASSUME NEW r \in Places, NEW s \in Places, Path(s) = Path(r),
           r.at \in {"detail", "manage", "file", "connect"}
    PROVE  s.at = r.at /\ s.id = r.id
<1>1. /\ r.at \in {"detail", "manage"} => r.id \in Conns
      /\ s.at \in {"detail", "manage"} => s.id \in Conns
      /\ r.at = "connect" => r.id = "github_pat"
      /\ s.at = "connect" => s.id = "github_pat"
      /\ s.at \in Signed \cup {"consent"}
  BY PlaceFacts
<1>2. "new" \notin Conns
  BY ShellAssumption DEF Conns
<1>3. CASE r.at = "detail"
  <2>1. Path(r) = <<"sources", r.id>>
    BY <1>3 DEF Path
  <2> QED BY <1>1, <1>2, <1>3, <2>1 DEF Path, Signed
<1>4. CASE r.at = "manage"
  <2>1. Path(r) = <<"sources", r.id, "manage">>
    BY <1>4 DEF Path
  <2> QED BY <1>1, <1>2, <1>4, <2>1, SMTT(30) DEF Path, Signed
<1>5. CASE r.at = "file"
  <2>1. Path(r) = <<"files", r.id>>
    BY <1>5 DEF Path
  <2> QED BY <1>1, <1>2, <1>5, <2>1 DEF Path, Signed
<1>6. CASE r.at = "connect"
  <2>1. Path(r) = <<"sources", "new", "github_pat">>
    BY <1>6 DEF Path
  <2> QED BY <1>1, <1>2, <1>6, <2>1 DEF Path, Signed
<1> QED BY <1>3, <1>4, <1>5, <1>6, Zenon

LEMMA CommitKeepsName == ASSUME IInv, Commit PROVE LeafNamesPage' /\ nav.to \in Places
<1>1. nav.to \in Places /\ route \in Places /\ route' = nav.to /\ ClearsName
  BY ZenonT(60) DEF Commit, IInv, TypeOK
<1>2. CASE Stays
  <2>1. leaf' = leaf /\ Path(nav.to) = Path(route)
    BY <1>1, <1>2 DEF ClearsName, Stays
  <2> QED BY <1>1, <2>1, PathTells, SMTT(30) DEF IInv, LeafNamesPage
<1>3. CASE ~Stays
  BY <1>1, <1>3 DEF ClearsName, LeafNamesPage
<1> QED BY <1>1, <1>2, <1>3

LEMMA ZeroOffset == 0 \in Offsets
  BY QueriesAssumption, SMTT(30) DEF Offsets

(* A page mounts with what it uses.                                         *)
LEMMA ArriveKept ==
    ASSUME IInv, NEW r \in Places, NEW q, NEW aged, Arrive(r, q, aged),
           Consistent(q, ws, calls), Holds(q[<<"session">>]),
           UNCHANGED <<calls, made, ws>>, route' = r, nav' = Idle \/ nav'.to \in Places,
           LeafNamesPage'
    PROVE  IInv'
<1>1. /\ src' = FreshPage /\ adm' = FreshAdmin(r, q[<<"session">>])
      /\ query' = Mounting(q, {<<"session">>}, Uses(r, 0), aged)
  BY Zenon DEF Arrive
<1>2. q[<<"session">>].data.val[1] \in Names
  <2>1. q[<<"session">>] \in Entries(<<"session">>)
    BY SessionKey, Zenon DEF Consistent, Sound
  <2>2. q[<<"session">>].data \in Results(<<"session">>)
    BY <2>1, Zenon DEF Holds, Entries
  <2> QED BY <2>2 DEF Results, Tenants
<1>3. /\ DOMAIN adm' = {"editing", "offset", "project", "open", "name"}
      /\ adm'.offset = 0 /\ adm'.name \in Names
  BY <1>1, <1>2, Zenon DEF FreshAdmin, Names
<1>4. TypeOK'
  <2>1. DOMAIN src' = {"opened", "grace", "form", "only", "q"} /\ src'.form \in Tokens \cup {""}
    BY <1>1, Zenon DEF FreshPage
  <2> QED BY <1>3, <2>1, ZeroOffset, Zenon DEF IInv, TypeOK
<1>5. /\ Consistent(query', ws, calls) /\ Quiet(query', {<<"session">>} \cup Uses(r, 0))
      /\ Shows(query', q)
  BY <1>1, UsedInLog, MountingSound, Zenon
<1>6. Reached'
  BY <1>5, SessionKey, ZenonT(60) DEF Shows, Holds, Reached, Loaded
<1>7. Active' = {<<"session">>} \cup Uses(r, 0)
  BY <1>3, <1>6 DEF Active
<1>8. CacheSound' /\ QuietOff'
  BY <1>5, <1>7, Zenon DEF CacheSound, QuietOff
<1> QED BY <1>3, <1>4, <1>8 DEF IInv

LEMMA RouterCommitsKept == ASSUME IInv, RouterCommits PROVE IInv'
<1>1. /\ Commit /\ UNCHANGED ws /\ nav.to \in Places /\ LeafNamesPage'
      /\ route' = nav.to /\ nav' = Idle /\ UNCHANGED <<calls, made>>
  BY CommitKeepsName DEF RouterCommits, Commit
<1>2. CASE ~Reached
  <2>1. UNCHANGED <<query, src, adm>>
    BY <1>2 DEF RouterCommits
  <2>2. TypeOK' /\ (adm.offset = 0 \/ adm.offset < ws.log)'
    BY <1>1, <2>1, ZenonT(60) DEF IInv, TypeOK
  <2>3. Active' = Active
    BY <1>2, <2>1 DEF Active, Reached, Loaded
  <2>4. CacheSound' /\ QuietOff'
    BY <1>1, <2>1, <2>3, ZenonT(60) DEF IInv, CacheSound, QuietOff
  <2> QED BY <1>1, <2>2, <2>4, SMTT(30) DEF IInv
<1>3. CASE Reached /\ ~Stays
  <2>1. PICK aged : Arrive(nav.to, query, aged)
    BY <1>3, Zenon DEF RouterCommits
  <2>2. Consistent(query, ws, calls) /\ Holds(query[<<"session">>])
    BY <1>3, Zenon DEF IInv, CacheSound, Reached, Loaded, Holds
  <2> QED BY <1>1, <2>1, <2>2, ArriveKept
<1>4. CASE Reached /\ Stays
  <2> DEFINE old == Uses(route, adm.offset)
             new == Uses(nav.to, adm.offset)
             stay == (old \cap new) \cup {<<"session">>}
  <2>1. PICK aged : query' = Mounting(query, stay, new \ old, aged)
    BY <1>4, Zenon DEF RouterCommits
  <2>2. UNCHANGED <<src, adm>>
    BY <1>4 DEF RouterCommits
  <2>3. TypeOK' /\ (adm.offset = 0 \/ adm.offset < ws.log)'
    BY <1>1, <2>2, Zenon DEF IInv, TypeOK
  <2>4. Logged(new, ws)
    BY UsedInLog DEF IInv
  <2> HIDE DEF old, new
  <2>5. Logged(new \ old, ws)
    BY <2>4 DEF Logged
  <2>6. /\ Consistent(query', ws, calls) /\ Quiet(query', stay \cup (new \ old))
        /\ Shows(query', query)
    BY <2>1, <2>5, MountingSound, Zenon DEF IInv, CacheSound
  <2>7. Reached'
    BY <1>4, <2>6, SessionKey, Zenon DEF Shows, Holds, Reached, Loaded
  <2>8. Active' = {<<"session">>} \cup new
    BY <1>1, <2>2, <2>7 DEF Active, new
  <2>9. stay \cup (new \ old) = Active'
    BY <2>8, ZenonT(60)
  <2>10. CacheSound' /\ QuietOff'
    BY <1>1, <2>6, <2>9 DEF CacheSound, QuietOff
  <2> QED BY <1>1, <2>3, <2>10 DEF IInv
<1> QED BY <1>2, <1>3, <1>4, ZenonT(60)

LEMMA GateOpensKept == ASSUME IInv, GateOpens PROVE IInv'
<1> DEFINE k == <<"session">>
           s == [Blank EXCEPT !.data = IF query[k].fetch = "read" THEN query[k].got ELSE Truth(k)]
           q == Landed(k)
<1>1. k \in Keys /\ CanArrive(k) /\ Arrive(route, q, FALSE) /\ UNCHANGED <<shell, ws>>
  BY SessionKey, Zenon DEF GateOpens
<1>2. Sound(k, s, ws, calls) /\ s.data # NoData /\ ~s.failed
  BY <1>1, LandedSound
<1>3. q = [query EXCEPT ![k] = s]
  BY DEF Landed
<1> HIDE DEF s, q, k
<1>4. Consistent(q, ws, calls) /\ Holds(q[k])
  BY <1>1, <1>2, <1>3, SMTT(30) DEF IInv, CacheSound, Consistent, Holds
<1>5. UNCHANGED <<route, nav, leaf, calls, made>>
  BY <1>1 DEF shell
<1>6. LeafNamesPage' /\ route \in Places /\ (nav' = Idle \/ nav'.to \in Places)
  BY <1>5, Zenon DEF IInv, LeafNamesPage, TypeOK
<1> QED BY <1>1, <1>4, <1>5, <1>6, ArriveKept, Zenon DEF k

(* Only the gate is left, with the cache q.                                 *)
LEMMA TakeDownKept ==
    ASSUME IInv, NEW q, TakeDown(q), Consistent(q, ws, calls'), UNCHANGED <<made, ws>>,
           \A c \in calls' : c.op \in Ops /\ c \in CallsOf(c.op),
           route' \in Places, nav' = Idle \/ nav'.to \in Places, leaf' = Nowhere
    PROVE  IInv'
<1>1. /\ src' = FreshPage /\ adm' = FreshAdmin(Page("home"), q[<<"session">>])
      /\ query' = Mounting(q, {<<"session">>}, {}, FALSE)
  BY Zenon DEF TakeDown
<1>2. /\ DOMAIN adm' = {"editing", "offset", "project", "open", "name"}
      /\ adm'.offset = 0 /\ adm'.name \in Names
  BY <1>1, Zenon DEF FreshAdmin, Names, Page, Loc
<1>3. TypeOK'
  <2>1. DOMAIN src' = {"opened", "grace", "form", "only", "q"} /\ src'.form \in Tokens \cup {""}
    BY <1>1, Zenon DEF FreshPage
  <2> QED BY <1>2, <2>1, ZeroOffset, Zenon DEF IInv, TypeOK
<1>4. Consistent(query', ws, calls') /\ Quiet(query', {<<"session">>} \cup {})
  BY <1>1, MountingSound, ZenonT(60) DEF Logged
<1>5. CacheSound' /\ QuietOff'
  BY <1>4, ZenonT(60) DEF CacheSound, QuietOff, Quiet, Active
<1>6. LeafNamesPage'
  BY DEF LeafNamesPage
<1> QED BY <1>2, <1>3, <1>5, <1>6, Zenon DEF IInv

LEMMA GateShutsKept == ASSUME IInv, GateShuts PROVE IInv'
<1> DEFINE k == <<"session">>
           s == [query[k] EXCEPT !.fetch = "no", !.got = NoData, !.failed = TRUE, !.stale = TRUE]
           q == Failed(k)
<1>1. k \in Keys /\ TakeDown(q) /\ leaf' = Nowhere /\ UNCHANGED <<route, nav, calls, made, ws>>
  BY SessionKey DEF GateShuts
<1>2. Sound(k, s, ws, calls)
  BY <1>1, FailedSound, Zenon DEF IInv, CacheSound, Consistent
<1>3. q = [query EXCEPT ![k] = s]
  BY Zenon DEF Failed
<1> HIDE DEF s, q, k
<1>4. Consistent(q, ws, calls)
  BY <1>1, <1>2, <1>3 DEF IInv, CacheSound, Consistent
<1>5. /\ route' \in Places /\ (nav' = Idle \/ nav'.to \in Places)
      /\ \A c \in calls' : c.op \in Ops /\ c \in CallsOf(c.op)
  BY <1>1, Zenon DEF IInv, TypeOK
<1> QED BY <1>1, <1>4, <1>5, TakeDownKept, SMTT(30)

(* The calls of a page that was unloaded have nobody to tell.               *)
LEMMA ReloadedCalls ==
    ASSUME IInv, NEW to \in Places, Reload(to)
    PROVE  /\ route' \in Places /\ nav' = Idle /\ leaf' = Nowhere /\ made' = made
           /\ \A c \in calls' : c.op \in Ops /\ c \in CallsOf(c.op)
           /\ \A c \in calls' : c.at = "lost"
<1>1. calls' = {[c EXCEPT !.at = "lost"] : c \in {d \in calls : Unserved(d)}}
  BY DEF Reload
<1>2. ASSUME NEW d \in calls
      PROVE  LET e == [d EXCEPT !.at = "lost"] IN e.at = "lost" /\ e.op \in Ops /\ e \in CallsOf(e.op)
  <2>1. d.op \in Ops /\ d \in CallsOf(d.op)
    BY Zenon DEF IInv, TypeOK
  <2> QED BY <2>1 DEF CallsOf, CallStates
<1>3. \A c \in calls' : c.at = "lost" /\ c.op \in Ops /\ c \in CallsOf(c.op)
  BY <1>1, <1>2, Zenon
<1> QED BY <1>3 DEF Reload

LEMMA LoadsKept == ASSUME IInv, NEW to \in Places, Loads(to), UNCHANGED ws PROVE IInv'
<1> DEFINE q == [k \in Keys |-> IF k = <<"session">> THEN Sent(Blank) ELSE Blank]
<1>1. TakeDown(q) /\ Reload(to)
  BY DEF Loads
<1>2. /\ route' \in Places /\ nav' = Idle /\ leaf' = Nowhere /\ made' = made
      /\ \A c \in calls' : c.op \in Ops /\ c \in CallsOf(c.op)
      /\ \A c \in calls' : c.at = "lost"
  BY <1>1, ReloadedCalls
<1>3. ASSUME NEW k \in Keys
      PROVE  Sound(k, q[k], ws, calls')
  <2>1. Sound(k, Blank, ws, calls')
    BY <1>2, BlankSound, Zenon
  <2>2. k = <<"session">> => Sound(k, Sent(Blank), ws, calls')
    BY <2>1, SentSound DEF InLog
  <2> QED BY <2>1, <2>2
<1>4. DOMAIN q = Keys
  OBVIOUS
<1> HIDE DEF q
<1>5. Consistent(q, ws, calls')
  BY <1>3, <1>4, Zenon DEF Consistent
<1> QED BY <1>1, <1>2, <1>5, TakeDownKept, SMTT(30)

LEMMA AuthorizedKept == ASSUME IInv, NEW c, Authorized(c) PROVE IInv'
<1> DEFINE q == [k \in Keys |-> Blank]
<1>1. /\ c \in calls /\ c.op = "authorize" /\ TakeDown(q) /\ Reload(Loc("consent", c.arg))
      /\ UNCHANGED ws
  BY DEF Authorized
<1>2. c.arg \in Oauths
  BY <1>1, Zenon DEF IInv, TypeOK, CallsOf, Args
<1>3. Loc("consent", c.arg) \in Places
  BY <1>2, PlacesFrom, SMTT(30)
<1>4. /\ route' \in Places /\ nav' = Idle /\ leaf' = Nowhere /\ made' = made
      /\ \A d \in calls' : d.op \in Ops /\ d \in CallsOf(d.op)
      /\ \A d \in calls' : d.at = "lost"
  BY <1>1, <1>3, ReloadedCalls, SMTT(30)
<1>5. \A k \in Keys : Sound(k, Blank, ws, calls')
  BY <1>4, BlankSound
<1>6. Consistent(q, ws, calls')
  BY <1>5, SMTT(30) DEF Consistent
<1> HIDE DEF q
<1> QED BY <1>1, <1>4, <1>6, TakeDownKept, SMTT(30)

LEMMA ConsentKept == ASSUME IInv, Consent PROVE IInv'
<1>1. route.id \in Oauths
  BY PlaceFacts, Zenon DEF Consent, IInv, TypeOK
<1>2. Loc("list", route.id) \in Places /\ Page("list") \in Places
  BY <1>1, PlacesFrom, Zenon DEF Conns
<1> QED BY <1>2, LoadsKept DEF Consent

LEMMA UserKept == ASSUME IInv, User PROVE IInv'
<1>1. CASE (Follow(Links) \/ Chrome) /\ UNCHANGED <<query, ws, adm, events, src, wvars>>
  BY <1>1, UserNavigates, SMTT(30)
<1>2. CASE SourceClicks
  BY <1>2, SourceClicksKept
<1>3. CASE Reached /\ Clicks /\ UNCHANGED src
  BY <1>3, ClicksKept
<1>4. CASE TryAgain /\ UNCHANGED src
  BY <1>4, TryAgainKept
<1>5. CASE WindowFocus /\ UNCHANGED src
  BY <1>5, WindowFocusKept
<1>6. CASE Refresh
  <2>1. route \in Places
    BY Zenon DEF IInv, TypeOK
  <2> QED BY <1>6, <2>1, LoadsKept DEF Refresh
<1> QED BY <1>1, <1>2, <1>3, <1>4, <1>5, <1>6, SMTT(30) DEF User

LEMMA ServesKept == ASSUME IInv, Serves PROVE IInv'
  BY ServeSourceKept, ServeAdminKept, SMTT(30) DEF Serves

LEMMA AnsweringKept == ASSUME IInv, Answering PROVE IInv'
  BY AnswerSourceKept, AnswerAdminKept, AuthorizedKept, SMTT(30) DEF Answering

LEMMA NextKept == ASSUME IInv, WorkspaceNext PROVE IInv'
  BY RouterCommitsKept, GateOpensKept, GateShutsKept, ConsentKept, PublishesKept, UserKept,
     EffectsKept, ServesKept, AnsweringKept, FetchingKept, OthersKept, SMTT(30) DEF WorkspaceNext

LEMMA StutterKept == ASSUME IInv, UNCHANGED vars PROVE IInv'
<1>1. UNCHANGED <<route, nav, leaf, ws, query, calls, made, adm, src>>
  BY DEF vars, qvars, shell
<1> QED BY <1>1, LocalStep, Zenon DEF IInv, TypeOK

LEMMA InitKept == WorkspaceInit => IInv
<1> SUFFICES ASSUME WorkspaceInit PROVE IInv
  BY Zenon
<1>1. /\ route \in Places /\ nav = Idle /\ leaf = Nowhere /\ calls = {} /\ made \in 0..MaxCalls
      /\ ws = [name |-> "acme", answers |-> Answers, flag |-> TRUE, log |-> PAGE, theirs |-> 0]
      /\ query = [k \in Keys |-> IF k = <<"session">> THEN Sent(Blank) ELSE Blank]
      /\ src = FreshPage /\ adm = FreshAdmin(Page("home"), Blank)
  BY DEF WorkspaceInit, ShellInit
<1>2. /\ DOMAIN adm = {"editing", "offset", "project", "open", "name"}
      /\ adm.offset = 0 /\ adm.name \in Names
  BY <1>1, Zenon DEF FreshAdmin, Names, Page, Loc
<1>3. TypeOK
  <2>1. DOMAIN src = {"opened", "grace", "form", "only", "q"} /\ src.form \in Tokens \cup {""}
    BY <1>1, ZenonT(60) DEF FreshPage
  <2>2. ws \in Worlds
    BY <1>1, QueriesAssumption, Zenon DEF Worlds, Names
  <2>3. made \in Nat
    BY <1>1, ShellAssumption, SMTT(30)
  <2> QED BY <1>1, <1>2, <2>1, <2>2, <2>3, ZeroOffset, Zenon DEF TypeOK
<1>4. ASSUME NEW k \in Keys
      PROVE  Sound(k, query[k], ws, calls) /\ (k # <<"session">> => query[k].fetch = "no")
  <2>1. Sound(k, Blank, ws, calls)
    BY <1>1, BlankSound, Zenon
  <2>2. k = <<"session">> => Sound(k, Sent(Blank), ws, calls)
    BY <2>1, SentSound DEF InLog
  <2> QED BY <1>1, <2>1, <2>2, Zenon DEF Blank
<1>5. CacheSound /\ QuietOff
  BY <1>1, <1>4, Zenon DEF CacheSound, Consistent, QuietOff, Quiet, Active
<1>6. LeafNamesPage
  BY <1>1 DEF LeafNamesPage
<1> QED BY <1>2, <1>3, <1>5, <1>6 DEF IInv

(* The cache is consistent with the rows and the calls, whatever the user,  *)
(* the other members, the server and the network do.                        *)
THEOREM Invariance == WorkspaceSpec => []IInv
<1>1. IInv /\ [WorkspaceNext]_vars => IInv'
  BY NextKept, StutterKept
<1> QED BY <1>1, InitKept, PTL DEF WorkspaceSpec
=============================================================================
