---------------------------- MODULE IngestProofs ----------------------------
(* What SyncUnit promises whatever is cut short, for any items, pages,      *)
(* budgets, edits and attempts: no row without bytes, no gap below the      *)
(* cursor, and no unit visible before a full pass.                          *)
EXTENDS IngestInvariant

-----------------------------------------------------------------------------
(* A page, the emission of its entries, an edit at the source, and the      *)
(* theorems.                                                                *)

(* The entries of a page.                                                   *)
LEMMA EntriesOfPage ==
    ASSUME IInv, NEW p
    PROVE  /\ Entries(p) \subseteq EntrySet
           /\ \A e \in Entries(p) :
                 /\ e.item \in Page(p) \cap Wanted /\ e.item \in Items /\ Exists(e.item)
                 /\ e.key = Key(e.item) /\ e.version = source[e.item].version /\ e.version >= 1
                 /\ e.stamp = (IF kind = "board" THEN 0 ELSE source[e.item].stamp)
           /\ \A i \in Page(p) \cap Wanted : \E e \in Entries(p) : e.item = i
<1> DEFINE E(i) == [item |-> i, key |-> Key(i), version |-> source[i].version,
                    stamp |-> IF kind = "board" THEN 0 ELSE source[i].stamp]
<1>1. Entries(p) = {E(i) : i \in Page(p) \cap Wanted}
  BY DEF Entries
<1>2. \A i \in Page(p) : i \in Items /\ Exists(i)
  BY PageOfListing DEF IInv
<1>3. \A i \in Page(p) : /\ Key(i) \in Nat /\ source[i].version \in Versions /\ source[i].version >= 1
                         /\ source[i].stamp \in Stamps
  BY <1>2 DEF IInv, Keyed, Sourced, TypeOK
<1>4. ASSUME NEW i \in Page(p)
      PROVE  /\ E(i).item = i /\ E(i).key = Key(i) /\ E(i).version = source[i].version
             /\ E(i).stamp = (IF kind = "board" THEN 0 ELSE source[i].stamp)
             /\ E(i) \in EntrySet
  <2>1. (IF kind = "board" THEN 0 ELSE source[i].stamp) \in Stamps
    BY <1>3, IngestBoundsAssumption DEF Stamps
  <2> QED BY <1>2, <1>3, <2>1 DEF EntrySet
<1> HIDE DEF E
<1> QED BY <1>1, <1>2, <1>3, <1>4

(* The page an attempt fetches.                                             *)
LEMMA FetchPageKept == ASSUME IInv, NEW a \in Attempts, FetchPage(a) PROVE IInv'
<1> DEFINE p == attempt[a]
           m == [p EXCEPT !.batch = Entries(p), !.more = More(p), !.token = Token(p)]
           q == NextEntry(m)
<1>1. p \in AttemptSet /\ p.at = "page" /\ p.batch = {} /\ p.page \in Nat /\ p.page >= 1 /\ p.token \in Nat
  <2>1. p \in AttemptSet /\ p.at = "page"
    BY DEF FetchPage, IInv, TypeOK
  <2>2. p.page \in Nat /\ p.token \in Nat
    BY <2>1 DEF AttemptSet
  <2>3. p.batch = {} /\ p.page >= 1
    BY <2>1 DEF IInv, Placed
  <2> QED BY <2>1, <2>2, <2>3
<1>2. attempt' = [attempt EXCEPT ![a] = q]
  BY DEF FetchPage
<1>3. UNCHANGED <<kind, source, edits, history, cursor, committed, manifest, objects, mishaps>>
  BY DEF FetchPage, unitRow
<1>4. /\ m.at = p.at /\ m.start = p.start /\ m.high = p.high /\ m.page = p.page /\ m.version = p.version
      /\ m.batch = Entries(p) /\ m.more = More(p) /\ m.token = Token(p)
  BY <1>1 DEF AttemptSet
<1>5. /\ Placed(p) /\ Batched(p) /\ Reaches(p) /\ Cursorless(p, cursor)
      /\ Sourced /\ Keyed
  BY DEF IInv
<1>6. Token(p) \in Nat /\ (\A i \in Page(p) : Key(i) \in Nat /\ Key(i) <= Token(p))
      /\ (Token(p) = p.token \/ \E i \in Items : Exists(i) /\ Token(p) = Key(i))
  <2>1. Page(p) \subseteq Items /\ \A i \in Page(p) : Exists(i) /\ Key(i) \in Nat
    BY <1>5, PageOfListing, Zenon DEF Keyed
  <2> QED BY <1>1, <1>5, <2>1, PageOfListing
<1>7. m \in AttemptSet
  <2>1. More(p) \in BOOLEAN
    BY Zenon DEF More
  <2>2. Entries(p) \in SUBSET EntrySet
    BY EntriesOfPage
  <2> HIDE DEF p
  <2> QED BY <1>1, <1>6, <2>1, <2>2, Zenon DEF AttemptSet
<1>8. Lined(m)
  <2>1. \A e \in Entries(p) : /\ e.item \in Items /\ e.item \in Page(p) /\ Exists(e.item)
                              /\ e.key = Key(e.item) /\ e.version >= 1
                              /\ e.stamp = (IF kind = "board" THEN 0 ELSE source[e.item].stamp)
    BY EntriesOfPage
  <2>2. \A i \in Items : source[i].stamp \in Nat /\ source[i].at \in Nat
    BY <1>5 DEF Sourced
  <2>3. \A e \in m.batch : /\ e.version >= 1 /\ Exists(e.item) /\ e.key <= m.token
                           /\ kind = "board" => e.stamp = 0
                           /\ kind # "board" => e.stamp <= source[e.item].stamp
                           /\ kind # "board" => e.key = source[e.item].at
    BY <1>4, <1>6, <2>1, <2>2 DEF Key
  <2>4. \A e, f \in m.batch : e.key <= f.key => e.stamp <= f.stamp
    <3>1. SUFFICES ASSUME NEW e \in Entries(p), NEW f \in Entries(p), e.key <= f.key
                   PROVE  e.stamp <= f.stamp
      BY <1>4
    <3>2. CASE kind = "board"
      BY <2>1, <3>2
    <3>3. CASE kind # "board"
      <4>1. source[e.item].at <= source[f.item].at
        BY <2>1, <3>1, <3>3 DEF Key
      <4>2. ~(source[f.item].stamp < source[e.item].stamp)
        BY <2>1, <2>2, <4>1, <1>5 DEF Sourced
      <4>3. e.stamp = source[e.item].stamp /\ f.stamp = source[f.item].stamp
        BY <2>1, <3>3
      <4>4. source[e.item].stamp \in Nat /\ source[f.item].stamp \in Nat
        BY <2>1, <2>2
      <4> QED BY <4>2, <4>3, <4>4
    <3> QED BY <3>2, <3>3
  <2>5. kind # "board" => \A e \in m.batch, i \in Items :
           Exists(i) /\ source[i].stamp < e.stamp => source[i].at < e.key
    <3>1. SUFFICES ASSUME kind # "board", NEW e \in Entries(p), NEW i \in Items,
                          Exists(i), source[i].stamp < e.stamp
                   PROVE  source[i].at < e.key
      BY <1>4
    <3>2. e.stamp = source[e.item].stamp /\ e.key = source[e.item].at /\ e.item \in Items /\ Exists(e.item)
      BY <2>1, <3>1 DEF Key
    <3> QED BY <3>1, <3>2, <1>5 DEF Sourced
  <2> QED BY <2>3, <2>4, <2>5 DEF Lined
<1>9. Reaches(m) /\ Cursorless(m, cursor)
  <2>1. Reached(m.start) /\ Reached(m.high) /\ Cursorless(m, cursor)
    BY <1>4, <1>5 DEF Reaches, Cursorless
  <2>2. m.token = 0 \/ \E i \in Items : Exists(i) /\ m.token <= Key(i)
    BY <1>4, <1>5, <1>6 DEF Reaches
  <2> QED BY <2>1, <2>2 DEF Reaches
<1>10. ASSUME Undisturbed PROVE Draining(m, m.more, m.page, cursor, manifest)
  <2> HIDE DEF p, m
  <2>1. Draining(p, Due(p), PagesGiven(p), cursor, manifest)
    BY <1>1, <1>10 DEF IInv, Drained, Drains, p
  <2>2. Due(p) /\ PagesGiven(p) = p.page - 1
    BY <1>1 DEF Due, PagesGiven
  <2>3. Counted(p)
    BY <1>1, <2>1, <2>2 DEF Counted, Draining, Paged
  <2>4. /\ p.token <= Token(p)
        /\ \A i \in Page(p) : p.token < Key(i) /\ Key(i) <= Token(p)
        /\ \A i \in Listing(p.start) : Key(i) <= Token(p) => i \in Given(p) \/ i \in Page(p)
        /\ \A i \in Listing(p.start) : Token(p) < Key(i) => More(p)
    BY <1>1, <1>5, <2>3, PageIsNext, Zenon
  <2>5. /\ Page(p) \subseteq Listing(p.start) /\ Listing(p.start) \subseteq Items
        /\ \A i \in Listing(p.start) : Exists(i) /\ Key(i) \in Nat
    BY <1>5, PageOfListing DEF Keyed
  <2>6. /\ Entries(p) \subseteq EntrySet
        /\ \A e \in Entries(p) :
              /\ e.item \in Page(p) /\ e.key = Key(e.item) /\ e.version = source[e.item].version
              /\ e.stamp = (IF kind = "board" THEN 0 ELSE source[e.item].stamp)
        /\ \A i \in Page(p) \cap Wanted : \E e \in Entries(p) : e.item = i
    BY EntriesOfPage
  <2>7. cursor <= m.high /\ m.start <= cursor /\ CoveredTo(m.high, manifest)
    BY <1>4, <2>1, Zenon DEF Draining
  <2>8. Ahead(m)
    <3>1. SUFFICES ASSUME NEW e \in Entries(p) PROVE p.high <= e.stamp
      BY <1>4 DEF Ahead
    <3>2. CASE kind = "board"
      <4>1. p.high = 0 /\ e.stamp = 0
        BY <1>5, <2>6, <3>2, Zenon DEF Cursorless
      <4> QED BY <4>1
    <3>3. CASE kind # "board"
      <4>1. e.item \in Listing(p.start) /\ p.token < source[e.item].at
        BY <3>3, <2>4, <2>5, <2>6 DEF Key
      <4>2. e.item \in Items /\ source[e.item].at \in Nat /\ source[e.item].stamp \in Nat
        BY <4>1, <2>5, <1>5 DEF Sourced
      <4>3. source[e.item].stamp < p.high => source[e.item].at <= p.token
        BY <3>3, <4>1, <2>1, Zenon DEF Draining, Kept
      <4>4. p.high \in Nat
        BY <1>1 DEF AttemptSet, Stamps
      <4>5. e.stamp = source[e.item].stamp
        BY <3>3, <2>6
      <4> QED BY <1>1, <4>1, <4>2, <4>3, <4>4, <4>5, SMTT(30)
    <3> QED BY <3>2, <3>3
  <2>9. Kept(m, manifest)
    <3>1. SUFFICES ASSUME kind # "board"
                   PROVE  /\ \A i \in Listing(p.start) : source[i].stamp < p.high => source[i].at <= Token(p)
                          /\ \A i \in Given(m) \cap Wanted :
                                \/ manifest[i] = source[i].version
                                \/ \E e \in Entries(p) : e.item = i /\ e.key = source[i].at
      BY <1>4 DEF Kept
    <3>2. \A i \in Listing(p.start) : source[i].at \in Nat /\ Key(i) = source[i].at
      BY <3>1, <2>5, <1>5 DEF Sourced, Key
    <3>3. \A i \in Listing(p.start) : source[i].stamp < p.high => source[i].at <= Token(p)
      <4>1. SUFFICES ASSUME NEW i \in Listing(p.start), source[i].stamp < p.high
                     PROVE  source[i].at <= Token(p)
        OBVIOUS
      <4>2. source[i].at <= p.token
        BY <2>1, <3>1, <4>1, Zenon DEF Draining, Kept
      <4> QED BY <1>1, <1>6, <2>4, <3>2, <4>2, SMTT(30)
    <3>4. ASSUME NEW i \in Given(m) \cap Wanted
          PROVE  \/ manifest[i] = source[i].version
                 \/ \E e \in Entries(p) : e.item = i /\ e.key = source[i].at
      <4>1. i \in Listing(p.start) /\ Key(i) <= Token(p)
        BY <1>4 DEF Given
      <4>2. CASE i \in Given(p)
        BY <1>1, <2>1, <3>1, <4>2 DEF Draining, Kept
      <4>3. CASE i \in Page(p)
        BY <2>6, <3>2, <4>1, <4>3
      <4> QED BY <2>4, <4>1, <4>2, <4>3
    <3> QED BY <3>3, <3>4
  <2>10. Fresh(m)
    BY <1>4, <2>6 DEF Fresh
  <2>11. Paged(m, m.more, m.page)
    <3>1. SUFFICES ASSUME kind = "issues", More(p)
                   PROVE  Cardinality(Given(m)) = p.page * PerPage
      BY <1>4 DEF Paged
    <3>2. Given(m) = {i \in Listing(p.start) : Key(i) <= Token(p)}
      BY <1>4 DEF Given
    <3> QED BY <1>1, <1>5, <2>3, <3>1, <3>2, PageCounts, Zenon
  <2>12. Owing(m, m.more, manifest)
    <3>1. SUFFICES ASSUME NEW i \in owed \cap Wanted
                   PROVE  \/ manifest[i] # 0
                          \/ \E e \in Entries(p) : e.item = i
                          \/ i \in Listing(p.start) \ Given(m) /\ More(p)
      BY <1>4 DEF Owing
    <3>2. CASE manifest[i] # 0
      BY <3>2
    <3>3. CASE i \in Listing(p.start) \ Given(p) /\ Key(i) <= Token(p)
      BY <3>3, <2>4, <2>6
    <3>4. CASE i \in Listing(p.start) \ Given(p) /\ ~(Key(i) <= Token(p))
      <4>1. Token(p) < Key(i)
        BY <3>4, <1>6, <2>5, SMTT(30)
      <4> QED BY <3>4, <4>1, <1>4, <2>4, Zenon DEF Given
    <3>5. manifest[i] # 0 \/ i \in Listing(p.start) \ Given(p)
      BY <1>1, <2>1 DEF Draining, Owing
    <3> QED BY <3>2, <3>3, <3>4, <3>5, SMTT(30)
  <2> QED BY <2>7, <2>8, <2>9, <2>10, <2>11, <2>12, SMTT(30) DEF Draining
<1> HIDE DEF p, m
<1>11. q \in AttemptSet /\ Follows(m, q)
  BY <1>7, NextFollows
<1> HIDE DEF q
<1>12. Placed(q) /\ Batched(q) /\ Reaches(q) /\ q.at # "commit" /\ Cursorless(q, cursor)
  BY <1>1, <1>4, <1>8, <1>9, <1>11, FollowKeeps, Zenon
<1>13. Undisturbed /\ q.at # "idle" => Drains(q, cursor, manifest)
  BY <1>1, <1>4, <1>10, <1>11, FollowDrains, Zenon
<1>14. /\ cursor \in Stamps /\ committed \in BOOLEAN /\ manifest \in [Items -> Versions]
       /\ objects \subseteq Items \X Versions /\ mishaps \in 0..MaxMishaps
       /\ Reached(cursor) /\ (kind = "board" => cursor = 0)
       /\ Undisturbed => CoveredTo(cursor, manifest) /\ (committed => Complete(manifest))
  BY Zenon DEF IInv, TypeOK, Drained
<1>15. NoDanglingRow'
  BY <1>3 DEF IInv, NoDanglingRow
<1>16. Reached(cursor')
  BY <1>3, <1>14
<1>17. attempt[a].at # "idle"
  BY <1>1 DEF p
<1> QED BY <1>2, <1>3, <1>11, <1>12, <1>13, <1>14, <1>15, <1>16, <1>17, AttemptStep, Zenon

(* The first entry of a batch.                                              *)
LEMMA FirstEntry ==
    ASSUME IInv, NEW a \in Attempts, attempt[a].at \in {"check", "put", "commit"}
    PROVE  /\ attempt[a] \in AttemptSet
           /\ attempt[a].start \in Nat /\ attempt[a].high \in Stamps /\ attempt[a].high \in Nat
           /\ attempt[a].page \in Nat /\ attempt[a].page >= 1 /\ attempt[a].token \in Nat
           /\ \A e \in attempt[a].batch : /\ e.item \in Items /\ e.key \in Nat /\ e.version \in Versions
                                          /\ e.stamp \in Stamps /\ e.stamp \in Nat
           /\ Entry(a) = First(attempt[a]) /\ Entry(a) \in attempt[a].batch
           /\ \A f \in attempt[a].batch : Entry(a).key <= f.key
           /\ Raw(Entry(a)) \in Versions \ {0}
<1> DEFINE p == attempt[a]
<1>1. p \in AttemptSet
  BY Zenon DEF IInv, TypeOK
<1>2. /\ p.start \in Nat /\ p.high \in Stamps /\ p.high \in Nat /\ p.page \in Nat /\ p.token \in Nat
      /\ p.batch \subseteq EntrySet
  BY <1>1 DEF AttemptSet, Stamps
<1>3. p.batch # {} /\ p.page >= 1
  BY DEF IInv, Placed
<1>4. \A e \in p.batch : /\ e.item \in Items /\ e.key \in Nat /\ e.version \in Versions
                         /\ e.stamp \in Stamps /\ e.stamp \in Nat
  BY <1>2 DEF EntrySet, Stamps
<1>5. Entry(a) = First(p)
  BY DEF Entry, First
<1>6. First(p) \in p.batch /\ \A f \in p.batch : First(p).key <= f.key
  BY <1>2, <1>3, FirstOfBatch
<1>7. Raw(Entry(a)) \in Versions \ {0}
  <2>1. Entry(a).version \in Versions /\ Entry(a).version >= 1 /\ Exists(Entry(a).item) /\ Entry(a).item \in Items
    BY <1>4, <1>5, <1>6 DEF IInv, Batched, Lined
  <2>2. source[Entry(a).item].version \in Versions /\ source[Entry(a).item].version >= 1
    BY <2>1, Zenon DEF IInv, TypeOK, Sourced
  <2> QED BY <2>1, <2>2, SMTT(30) DEF Raw
<1> QED BY <1>1, <1>2, <1>3, <1>4, <1>5, <1>6, <1>7, SMTT(30)

(* An entry whose content changed goes on to the object store.              *)
LEMMA EmitChangedKept == ASSUME IInv, NEW a \in Attempts, EmitChanged(a) PROVE IInv'
<1> DEFINE p == attempt[a]
           q == [p EXCEPT !.at = "put", !.version = Raw(Entry(a))]
<1>1. p.at = "check"
  BY DEF EmitChanged
<1>2. /\ p \in AttemptSet /\ Raw(Entry(a)) \in Versions \ {0} /\ Entry(a) = First(p) /\ Entry(a) \in p.batch
  BY <1>1, FirstEntry, Zenon
<1>3. attempt' = [attempt EXCEPT ![a] = q]
  <2>1. attempt \in [Attempts -> AttemptSet]
    BY Zenon DEF IInv, TypeOK
  <2> QED BY <2>1, Zenon DEF EmitChanged, AttemptSet
<1>4. /\ q.at = "put" /\ q.version = Raw(Entry(a)) /\ q.start = p.start /\ q.high = p.high /\ q.page = p.page
      /\ q.batch = p.batch /\ q.more = p.more /\ q.token = p.token
  BY <1>2 DEF AttemptSet
<1>5. q \in AttemptSet
  BY <1>2, Zenon DEF AttemptSet
<1>6. UNCHANGED <<kind, source, edits, history, cursor, committed, manifest, objects, mishaps>>
  BY DEF EmitChanged, unitRow
<1> HIDE DEF q
<1>7. Placed(q)
  BY <1>1, <1>2, <1>4 DEF IInv, Placed
<1>8. Batched(q)
  <2>1. Lined(q)
    BY <1>4, Zenon DEF IInv, Batched, Lined
  <2>2. q.version >= 1
    BY <1>2, <1>4, IngestBoundsAssumption DEF Versions
  <2> QED BY <2>1, <2>2 DEF Batched
<1>9. Reaches(q) /\ Cursorless(q, cursor) /\ q.at # "commit"
  BY <1>4, Zenon DEF IInv, Reaches, Cursorless
<1>10. ASSUME Undisturbed PROVE Drains(q, cursor, manifest)
  <2>1. Draining(p, Due(p), PagesGiven(p), cursor, manifest)
    BY <1>1, <1>10, Zenon DEF IInv, Drained, Drains
  <2>2. Due(q) = Due(p) /\ PagesGiven(q) = PagesGiven(p) /\ Given(q) = Given(p) /\ First(q) = First(p)
    BY <1>1, <1>4 DEF Due, PagesGiven, Given, First
  <2>3. cursor <= q.high /\ q.start <= cursor /\ CoveredTo(q.high, manifest) /\ Ahead(q) /\ Fresh(q)
    BY <1>4, <2>1, Zenon DEF Draining, Ahead, Fresh
  <2>4. Kept(q, manifest) /\ Paged(q, Due(q), PagesGiven(q)) /\ Owing(q, Due(q), manifest)
    BY <1>4, <2>1, <2>2, Zenon DEF Draining, Kept, Paged, Owing
  <2>5. Taken(q)
    BY <1>2, <1>4, <2>1, <2>2, Zenon DEF Draining, Fresh, Taken, Raw
  <2> QED BY <2>3, <2>4, <2>5 DEF Drains, Draining
<1>11. /\ cursor \in Stamps /\ committed \in BOOLEAN /\ manifest \in [Items -> Versions]
       /\ objects \subseteq Items \X Versions /\ mishaps \in 0..MaxMishaps
       /\ Reached(cursor) /\ (kind = "board" => cursor = 0)
       /\ Undisturbed => CoveredTo(cursor, manifest) /\ (committed => Complete(manifest))
  BY Zenon DEF IInv, TypeOK, Drained
<1>12. NoDanglingRow'
  BY <1>6 DEF IInv, NoDanglingRow
<1>13. Reached(cursor')
  BY <1>6, <1>11
<1> QED BY <1>1, <1>3, <1>5, <1>6, <1>7, <1>8, <1>9, <1>10, <1>11, <1>12, <1>13, AttemptStep, Zenon

(* The bytes of an entry are put.                                           *)
LEMMA PutKept == ASSUME IInv, NEW a \in Attempts, Put(a) PROVE IInv'
<1> DEFINE p == attempt[a]
           q == [p EXCEPT !.at = "commit"]
<1>1. p.at = "put"
  BY DEF Put
<1>2. p \in AttemptSet /\ Entry(a) = First(p) /\ Entry(a) \in p.batch /\ Entry(a).item \in Items
  BY <1>1, FirstEntry, Zenon
<1>3. attempt' = [attempt EXCEPT ![a] = q]
  <2>1. attempt \in [Attempts -> AttemptSet]
    BY Zenon DEF IInv, TypeOK
  <2> QED BY <2>1 DEF Put, AttemptSet
<1>4. /\ q.at = "commit" /\ q.version = p.version /\ q.start = p.start /\ q.high = p.high /\ q.page = p.page
      /\ q.batch = p.batch /\ q.more = p.more /\ q.token = p.token
  BY <1>2 DEF AttemptSet
<1>5. q \in AttemptSet /\ p.version \in Versions
  BY <1>2 DEF AttemptSet
<1>6. /\ UNCHANGED <<kind, source, edits, history, cursor, committed, manifest, mishaps>>
      /\ objects' = objects \cup {<<First(p).item, p.version>>}
  BY <1>2 DEF Put, unitRow
<1> HIDE DEF q
<1>7. Placed(q)
  BY <1>1, <1>2, <1>4, Zenon DEF IInv, Placed
<1>8. Batched(q)
  BY <1>1, <1>4, Zenon DEF IInv, Batched, Lined
<1>9. Reaches(q) /\ Cursorless(q, cursor) /\ First(q) = First(p)
  BY <1>4, Zenon DEF IInv, Reaches, Cursorless, First
<1>10. ASSUME Undisturbed PROVE Drains(q, cursor, manifest)
  <2>1. Draining(p, Due(p), PagesGiven(p), cursor, manifest) /\ Taken(p)
    BY <1>1, <1>10, Zenon DEF IInv, Drained, Drains
  <2>2. Due(q) = Due(p) /\ PagesGiven(q) = PagesGiven(p) /\ Given(q) = Given(p)
    BY <1>1, <1>4 DEF Due, PagesGiven, Given
  <2>3. cursor <= q.high /\ q.start <= cursor /\ CoveredTo(q.high, manifest) /\ Ahead(q) /\ Fresh(q)
    BY <1>4, <2>1, Zenon DEF Draining, Ahead, Fresh
  <2>4. Kept(q, manifest) /\ Paged(q, Due(q), PagesGiven(q)) /\ Owing(q, Due(q), manifest)
    BY <1>4, <2>1, <2>2, Zenon DEF Draining, Kept, Paged, Owing
  <2>5. Taken(q)
    BY <1>1, <1>4, <1>9, <2>1, Zenon DEF Taken
  <2> QED BY <2>3, <2>4, <2>5 DEF Drains, Draining
<1>11. /\ cursor \in Stamps /\ committed \in BOOLEAN /\ manifest \in [Items -> Versions]
       /\ objects' \subseteq Items \X Versions /\ mishaps \in 0..MaxMishaps
       /\ Reached(cursor) /\ (kind = "board" => cursor = 0)
       /\ Undisturbed => CoveredTo(cursor, manifest) /\ (committed => Complete(manifest))
  <2>1. /\ cursor \in Stamps /\ committed \in BOOLEAN /\ manifest \in [Items -> Versions]
        /\ objects \subseteq Items \X Versions /\ mishaps \in 0..MaxMishaps
    BY Typed, Zenon
  <2>2. objects' \subseteq Items \X Versions
    BY <1>2, <1>5, <1>6, <2>1
  <2>3. Reached(cursor) /\ (kind = "board" => cursor = 0)
    BY Zenon DEF IInv
  <2> QED BY <2>1, <2>2, <2>3, Calm, Zenon
<1>12. NoDanglingRow'
  BY <1>6, Zenon DEF IInv, NoDanglingRow
<1>13. Reached(cursor') /\ <<First(q).item, q.version>> \in objects' /\ objects \subseteq objects'
  BY <1>4, <1>6, <1>9, <1>11, Zenon
<1> QED BY <1>1, <1>3, <1>5, <1>6, <1>7, <1>8, <1>9, <1>10, <1>11, <1>12, <1>13, AttemptStep, ZenonT(60)

(* The drain goes on without a gap past an entry e that is stored: what was *)
(* changed before e came before it on the pages given so far.               *)
LEMMA EmissionDrains ==
    ASSUME IInv, NEW a \in Attempts, attempt[a].at \in {"check", "commit"}, Undisturbed,
           NEW m, m.start = attempt[a].start, m.high = Entry(a).stamp, m.page = attempt[a].page,
           m.token = attempt[a].token, m.more = attempt[a].more,
           m.batch = attempt[a].batch \ {Entry(a)},
           NEW c, c = cursor \/ c = Entry(a).stamp,
           NEW mf, mf[Entry(a).item] # 0, \A i \in Items : i # Entry(a).item => mf[i] = manifest[i],
           kind # "board" /\ Entry(a).key = source[Entry(a).item].at =>
              mf[Entry(a).item] = source[Entry(a).item].version
    PROVE  Draining(m, m.more, m.page, c, mf) /\ CoveredTo(c, mf)
<1> DEFINE p == attempt[a]
           e == Entry(a)
<1>1. /\ p.start \in Nat /\ p.high \in Nat /\ p.token \in Nat
      /\ \A f \in p.batch : f.item \in Items /\ f.key \in Nat /\ f.stamp \in Nat
      /\ e \in p.batch /\ \A f \in p.batch : e.key <= f.key
  BY FirstEntry, Zenon
<1>2. Draining(p, p.more, p.page, cursor, manifest)
  <2>1. Draining(p, Due(p), PagesGiven(p), cursor, manifest)
    BY Zenon DEF IInv, Drained, Drains
  <2>2. (Due(p) <=> p.more) /\ PagesGiven(p) = p.page
    BY SMTT(30) DEF Due, PagesGiven
  <2> QED BY <2>1, <2>2, Zenon DEF Draining, Paged, Owing
<1>3. Lined(p) /\ Sourced /\ cursor \in Nat /\ Wanted \subseteq Items
  BY SMTT(30) DEF IInv, Batched, TypeOK, Stamps, Wanted
<1>4. p.high <= e.stamp /\ cursor <= p.high /\ p.start <= cursor /\ CoveredTo(p.high, manifest)
  BY <1>1, <1>2, Zenon DEF Draining, Ahead
<1>5. \A i \in Items : source[i].stamp \in Nat /\ source[i].at \in Nat
  BY <1>3, Zenon DEF Sourced
<1> HIDE DEF p, e
<1>6. /\ m.start = p.start /\ m.high = e.stamp /\ m.page = p.page /\ m.token = p.token
      /\ m.more = p.more /\ m.batch = p.batch \ {e} /\ (c = cursor \/ c = e.stamp)
      /\ mf[e.item] # 0 /\ \A i \in Items : i # e.item => mf[i] = manifest[i]
      /\ kind # "board" /\ e.key = source[e.item].at => mf[e.item] = source[e.item].version
  BY Zenon DEF p, e
<1>7. Given(m) = Given(p) /\ Given(p) \subseteq Listing(p.start)
  BY <1>6, SMTT(30) DEF Given
<1>8. kind # "board" => \A i \in Items : Exists(i) /\ source[i].stamp < e.stamp =>
         i # e.item /\ source[i].at < e.key /\ source[i].at <= p.token
  BY <1>1, <1>3, <1>5, SMTT(30) DEF Lined
<1>9. CoveredTo(e.stamp, mf)
  <2>1. SUFFICES ASSUME NEW i \in Wanted, Exists(i), source[i].stamp < e.stamp
                 PROVE  mf[i] = source[i].version
    BY SMTT(30) DEF CoveredTo
  <2>2. kind # "board" /\ i \in Items
    BY <1>1, <1>3, <1>5, <2>1 DEF Lined
  <2>3. i # e.item /\ source[i].at < e.key /\ source[i].at <= p.token
    BY <1>8, <2>1, <2>2, Zenon
  <2>4. CASE source[i].stamp < p.start
    <3>1. source[i].stamp < p.high
      <4>1. source[i].stamp \in Nat
        BY <1>5, <2>2, SMTT(30)
      <4>2. p.start \in Nat /\ p.high \in Nat /\ cursor \in Nat
        BY <1>1, <1>3, SMTT(30)
      <4> QED BY <1>4, <2>4, <4>1, <4>2, SMTT(30)
    <3> QED BY <1>4, <1>6, <2>1, <2>2, <2>3, <3>1, SMTT(30) DEF CoveredTo
  <2>5. CASE source[i].stamp >= p.start
    <3>1. i \in Given(p) \cap Wanted
      BY <2>1, <2>2, <2>3, <2>5, Zenon DEF Given, Listing, Key
    <3>2. ~\E f \in p.batch : f.item = i /\ f.key = source[i].at
      BY <1>1, <1>5, <2>2, <2>3, SMTT(30)
    <3>3. manifest[i] = source[i].version
      BY <1>2, <2>2, <3>1, <3>2, ZenonT(60) DEF Draining, Kept
    <3> QED BY <1>6, <2>2, <2>3, <3>3, SMTT(30)
  <2> QED BY <1>1, <1>5, <2>2, <2>4, <2>5, SMTT(30)
<1>10. c <= m.high /\ m.start <= c /\ CoveredTo(m.high, mf)
  BY <1>1, <1>3, <1>4, <1>6, <1>9, SMTT(30)
<1>11. Ahead(m)
  BY <1>1, <1>3, <1>6, Zenon DEF Ahead, Lined
<1>12. Kept(m, mf)
  <2>1. SUFFICES ASSUME kind # "board"
                 PROVE  /\ \A i \in Listing(p.start) : source[i].stamp < e.stamp => source[i].at <= p.token
                        /\ \A i \in Given(p) \cap Wanted :
                              \/ mf[i] = source[i].version
                              \/ \E f \in p.batch \ {e} : f.item = i /\ f.key = source[i].at
    BY <1>6, <1>7, ZenonT(60) DEF Kept
  <2>2. \A i \in Listing(p.start) : source[i].stamp < e.stamp => source[i].at <= p.token
    BY <1>8, <2>1, Zenon DEF Listing
  <2>3. ASSUME NEW i \in Given(p) \cap Wanted
        PROVE  \/ mf[i] = source[i].version
               \/ \E f \in p.batch \ {e} : f.item = i /\ f.key = source[i].at
    <3>1. i \in Items /\ source[i].at <= p.token
      BY <1>3, <2>1, SMTT(30) DEF Given, Key
    <3>2. CASE i = e.item
      <4>1. e.key = source[e.item].at \/ p.token < source[e.item].at
        BY <1>1, <1>3, <2>1, SMTT(30) DEF Lined
      <4>2. e.key = source[e.item].at
        BY <1>1, <1>5, <3>1, <3>2, <4>1, SMTT(30)
      <4> QED BY <1>6, <2>1, <3>2, <4>2, SMTT(30)
    <3>3. CASE i # e.item
      <4>1. manifest[i] = source[i].version \/ \E f \in p.batch : f.item = i /\ f.key = source[i].at
        BY <1>2, <2>1, Zenon DEF Draining, Kept
      <4> QED BY <1>6, <3>1, <3>3, <4>1, Zenon
    <3> QED BY <3>2, <3>3
  <2> QED BY <2>2, <2>3, Zenon
<1>13. Fresh(m)
  BY <1>2, <1>6, Zenon DEF Draining, Fresh
<1>14. Paged(m, m.more, m.page)
  BY <1>2, <1>6, <1>7, Zenon DEF Draining, Paged
<1>15. Owing(m, m.more, mf)
  <2>1. SUFFICES ASSUME NEW i \in owed \cap Wanted
                 PROVE  \/ mf[i] # 0
                        \/ \E f \in p.batch \ {e} : f.item = i
                        \/ i \in Listing(p.start) \ Given(p) /\ p.more
    BY <1>6, <1>7 DEF Owing
  <2>2. \/ manifest[i] # 0
        \/ \E f \in p.batch : f.item = i
        \/ i \in Listing(p.start) \ Given(p) /\ p.more
    BY <1>2, Zenon DEF Draining, Owing
  <2> QED BY <1>3, <1>6, <2>2, Zenon
<1>16. CoveredTo(c, mf)
  <2>1. c <= e.stamp /\ c \in Nat /\ e.stamp \in Nat
    BY <1>1, <1>3, <1>4, <1>6
  <2> QED BY <1>3, <1>5, <1>9, <2>1, SMTT(30) DEF CoveredTo
<1> QED BY <1>10, <1>11, <1>12, <1>13, <1>14, <1>15, <1>16, Zenon DEF Draining

(* An entry whose bytes are stored is emitted: the manifest holds it, and   *)
(* the cursor may move to it.                                               *)
LEMMA EmissionKept ==
    ASSUME IInv, NEW a \in Attempts, attempt[a].at \in {"check", "commit"},
           attempt' = [attempt EXCEPT ![a] =
              Emitted(a, IF Entry(a).stamp > attempt[a].high THEN Entry(a).stamp ELSE attempt[a].high)],
           UNCHANGED <<kind, source, edits, history, committed, objects>>,
           mishaps' \in 0..MaxMishaps,
           \/ cursor' = cursor
           \/ cursor' = Entry(a).stamp /\ Entry(a).stamp > attempt[a].high,
           NEW v \in Versions \ {0}, <<Entry(a).item, v>> \in objects,
           manifest' = [manifest EXCEPT ![Entry(a).item] = v],
           Undisturbed /\ kind # "board" /\ Entry(a).key = source[Entry(a).item].at =>
              v = source[Entry(a).item].version
    PROVE  IInv'
<1> DEFINE p == attempt[a]
           e == Entry(a)
           h == IF e.stamp > p.high THEN e.stamp ELSE p.high
           m == [p EXCEPT !.batch = @ \ {e}, !.high = h, !.version = 0]
           q == NextEntry(m)
<1>1. /\ p \in AttemptSet /\ p.high \in Stamps /\ p.high \in Nat /\ p.page \in Nat /\ p.page >= 1
      /\ e \in p.batch /\ e.stamp \in Stamps /\ e.stamp \in Nat /\ e.item \in Items
      /\ p.start \in Nat /\ p.token \in Nat
  BY FirstEntry, Zenon
<1>2. attempt' = [attempt EXCEPT ![a] = q]
  BY DEF Emitted
<1>3. h \in Stamps /\ (h = e.stamp \/ h = p.high)
  BY <1>1, Zenon
<1> HIDE DEF h
<1>4. /\ m.start = p.start /\ m.high = h /\ m.page = p.page
      /\ m.batch = p.batch \ {e} /\ m.more = p.more /\ m.token = p.token
  BY <1>1 DEF AttemptSet
<1>5. m \in AttemptSet
  <2>1. 0 \in Versions /\ p.batch \ {e} \in SUBSET EntrySet
    BY <1>1, IngestBoundsAssumption DEF Versions, AttemptSet
  <2> HIDE DEF p, e
  <2> QED BY <1>1, <1>3, <2>1, Zenon DEF AttemptSet
<1>6. /\ Batched(p) /\ Reaches(p) /\ Cursorless(p, cursor) /\ Sourced /\ NoDanglingRow
      /\ Reached(cursor) /\ (kind = "board" => cursor = 0)
      /\ cursor \in Stamps /\ committed \in BOOLEAN /\ manifest \in [Items -> Versions]
      /\ objects \subseteq Items \X Versions
  BY Zenon DEF IInv, TypeOK
<1>7. Reached(e.stamp) /\ (kind = "board" => e.stamp = 0)
  BY <1>1, <1>6, Zenon DEF Batched, Lined, Reached
<1>8. Lined(m)
  BY <1>4, <1>6, SMTT(30) DEF Batched, Lined
<1>9. Reaches(m)
  BY <1>3, <1>4, <1>6, <1>7 DEF Reaches
<1>10. /\ cursor' \in Stamps /\ Reached(cursor') /\ (kind = "board" => cursor' = 0)
  BY <1>1, <1>6, <1>7, Zenon
<1>11. Cursorless(m, cursor')
  BY <1>3, <1>4, <1>6, <1>7, <1>10 DEF Cursorless
<1>12. /\ manifest' \in [Items -> Versions] /\ manifest'[e.item] = v
       /\ \A i \in Items : i # e.item => manifest'[i] = manifest[i]
  BY <1>1, <1>6, Zenon
<1>13. NoDanglingRow'
  BY <1>6, <1>12, Zenon DEF NoDanglingRow
<1>14. ASSUME Undisturbed
       PROVE  /\ Draining(m, m.more, m.page, cursor', manifest') /\ CoveredTo(cursor', manifest')
              /\ committed => Complete(manifest')
  <2>1. p.high <= e.stamp
    BY <1>1, <1>14, Zenon DEF IInv, Drained, Drains, Draining, Ahead
  <2>2. h = e.stamp
    BY <1>1, <2>1, SMTT(30) DEF h
  <2>3. v # 0 /\ (cursor' = cursor \/ cursor' = e.stamp)
    OBVIOUS
  <2>4. kind # "board" /\ e.key = source[e.item].at => manifest'[e.item] = source[e.item].version
    BY <1>12, <1>14, SMTT(30)
  <2>5. Complete(manifest) => Complete(manifest')
    BY <1>12, <2>3 DEF Complete, Wanted
  <2>6. committed => Complete(manifest)
    BY <1>14, Zenon DEF IInv, Drained
  <2>7. Draining(m, m.more, m.page, cursor', manifest') /\ CoveredTo(cursor', manifest')
    <3> HIDE DEF m
    <3>1. /\ m.start = attempt[a].start /\ m.high = Entry(a).stamp /\ m.page = attempt[a].page
          /\ m.token = attempt[a].token /\ m.more = attempt[a].more
          /\ m.batch = attempt[a].batch \ {Entry(a)}
      BY <1>4, <2>2, SMTT(30)
    <3>2. PICK mf : mf = manifest'
      OBVIOUS
    <3>3. PICK c : c = cursor'
      OBVIOUS
    <3>4. /\ mf[Entry(a).item] # 0 /\ \A i \in Items : i # Entry(a).item => mf[i] = manifest[i]
          /\ kind # "board" /\ Entry(a).key = source[Entry(a).item].at =>
                mf[Entry(a).item] = source[Entry(a).item].version
      BY <1>12, <2>3, <2>4, <3>2
    <3>5. c = cursor \/ c = Entry(a).stamp
      BY <2>3, <3>3, Zenon
    <3>6. Draining(m, m.more, m.page, c, mf) /\ CoveredTo(c, mf)
      BY <1>14, <3>1, <3>4, <3>5, EmissionDrains, Zenon
    <3> QED BY <3>2, <3>3, <3>6, Zenon
  <2> QED BY <2>5, <2>6, <2>7
<1> HIDE DEF m
<1>15. q \in AttemptSet /\ Follows(m, q)
  BY <1>5, NextFollows, Zenon
<1> HIDE DEF q
<1>16. Placed(q) /\ Batched(q) /\ Reaches(q) /\ q.at # "commit" /\ Cursorless(q, cursor')
  BY <1>1, <1>4, <1>8, <1>9, <1>11, <1>15, FollowKeeps, Zenon
<1>17. Undisturbed /\ q.at # "idle" => Drains(q, cursor', manifest')
  BY <1>1, <1>4, <1>14, <1>15, FollowDrains, Zenon
<1>18. Undisturbed => /\ CoveredTo(cursor', manifest')
                      /\ committed' => Complete(manifest')
                      /\ q.at # "idle" => Drains(q, cursor', manifest')
  BY <1>14, <1>17, Zenon
<1>19. committed' \in BOOLEAN /\ objects' \subseteq Items \X Versions /\ objects \subseteq objects'
  BY <1>6, Zenon
<1> QED BY <1>2, <1>10, <1>12, <1>13, <1>15, <1>16, <1>18, <1>19, AttemptStep, ZenonT(60)

(* An entry whose content is known.                                         *)
LEMMA EmitUnchangedKept == ASSUME IInv, NEW a \in Attempts, EmitUnchanged(a) PROVE IInv'
<1> DEFINE p == attempt[a]
           e == Entry(a)
<1>1. p.at = "check" /\ manifest[e.item] = Raw(e)
  BY Zenon DEF EmitUnchanged
<1>2. e = First(p) /\ e \in p.batch /\ e.item \in Items /\ Raw(e) \in Versions \ {0}
  BY <1>1, FirstEntry
<1>3. /\ attempt' = [attempt EXCEPT ![a] = Emitted(a, IF e.stamp > p.high THEN e.stamp ELSE p.high)]
      /\ \/ cursor' = cursor
         \/ cursor' = e.stamp /\ e.stamp > p.high
      /\ mishaps' = mishaps \/ (mishaps < MaxMishaps /\ mishaps' = mishaps + 1)
  BY Zenon DEF EmitUnchanged
<1>4. UNCHANGED <<kind, source, edits, history, committed, objects, manifest>>
  BY Zenon DEF EmitUnchanged
<1>5. mishaps' \in 0..MaxMishaps
  BY <1>3, Typed, IngestBoundsAssumption
<1>6. manifest \in [Items -> Versions] /\ <<e.item, Raw(e)>> \in objects
  BY <1>1, <1>2, Zenon DEF IInv, TypeOK, NoDanglingRow
<1>7. manifest' = [manifest EXCEPT ![e.item] = Raw(e)]
  BY <1>1, <1>2, <1>4, <1>6, Zenon
<1>8. Undisturbed /\ kind # "board" /\ e.key = source[e.item].at => Raw(e) = source[e.item].version
  <2>1. Undisturbed => Fresh(p)
    BY <1>1, Zenon DEF IInv, Drained, Drains, Draining
  <2> QED BY <1>2, <2>1 DEF Fresh, Raw
<1> QED BY <1>1, <1>2, <1>3, <1>4, <1>5, <1>6, <1>7, <1>8, EmissionKept, Zenon

(* The row of an entry is committed.                                        *)
LEMMA CommitKept == ASSUME IInv, NEW a \in Attempts, Commit(a) PROVE IInv'
<1> DEFINE p == attempt[a]
           e == Entry(a)
           v == p.version
<1>1. p.at = "commit" /\ manifest' = [manifest EXCEPT ![e.item] = v]
  BY DEF Commit
<1>2. e = First(p) /\ e \in p.batch /\ p \in AttemptSet
  BY <1>1, FirstEntry
<1>3. /\ attempt' = [attempt EXCEPT ![a] = Emitted(a, IF e.stamp > p.high THEN e.stamp ELSE p.high)]
      /\ \/ cursor' = cursor
         \/ cursor' = e.stamp /\ e.stamp > p.high
  BY DEF Commit
<1>4. UNCHANGED <<kind, source, edits, history, committed, objects, mishaps>>
  BY DEF Commit
<1>5. mishaps' \in 0..MaxMishaps
  BY <1>4, Zenon DEF IInv, TypeOK
<1>6. v \in Versions \ {0} /\ <<e.item, v>> \in objects
  <2>1. v \in Versions /\ v >= 1
    BY <1>1, <1>2, Zenon DEF AttemptSet, IInv, Batched
  <2> QED BY <1>1, <1>2, <2>1, IngestBoundsAssumption DEF IInv, Stored, Versions
<1>7. Undisturbed /\ kind # "board" /\ e.key = source[e.item].at => v = source[e.item].version
  <2>1. Undisturbed => Taken(p)
    BY <1>1, Zenon DEF IInv, Drained, Drains
  <2> QED BY <1>1, <1>2, <2>1 DEF Taken
<1> QED BY <1>1, <1>3, <1>4, <1>5, <1>6, <1>7, EmissionKept, Zenon

(* A change at the source comes after everything an attempt knows of.       *)
LEMMA EditKept == ASSUME IInv, NEW x \in Items, Edit(x) PROVE IInv'
<1>1. /\ UNCHANGED <<kind, cursor, committed, manifest, objects, attempt, mishaps, late, owed>>
      /\ edits' = edits + 1 /\ edits < MaxEdits
      /\ moved' = (moved \/ \E a \in Attempts : Listed(a, x))
  BY DEF Edit, unitRow
<1>2. TypeOK /\ Sourced /\ Keyed /\ edits \in Nat
  BY Typed, Zenon DEF IInv
<1>3. Sourced' /\ Keyed'
  BY <1>1, <1>2, SourceKept
<1>4. PICK n \in Nat, s \in 1..MaxStamp, v \in Nat :
              /\ source' = [source EXCEPT ![x] = Change(n, s, v)]
              /\ \A j \in Items : source[j].at < n /\ source[j].stamp <= s
              /\ v >= 1 /\ v >= source[x].version /\ v <= edits + 2
  BY <1>2, EditIsLatest, SMTT(30)
<1>5. /\ source'[x].at = n /\ source'[x].stamp = s /\ source'[x].version = v
      /\ \A j \in Items : j # x => source'[j] = source[j]
      /\ s \in Nat
  BY <1>2, <1>4, SMTT(30) DEF Change, TypeOK
<1>6. \A j \in Items : /\ source[j].at \in Nat /\ source[j].stamp \in Nat /\ source[j].version \in Nat
                       /\ source[j].at < n /\ source[j].stamp <= s
                       /\ source[j].at <= source'[j].at /\ source[j].stamp <= source'[j].stamp
  BY <1>2, <1>4, <1>5, SMTT(30) DEF Sourced
<1>7. TypeOK'
  <2>1. source' \in [Items -> [at : Nat, stamp : Stamps, version : Versions]]
    <3>1. source' \in [Items -> [at : Nat, stamp : Nat, version : Nat]]
      BY <1>3 DEF Sourced
    <3>2. \A j \in Items : source'[j].stamp <= MaxStamp /\ source'[j].version <= edits' + 1
      BY <1>3 DEF Sourced
    <3>3. edits' + 1 <= MaxEdits + 1 /\ edits' \in Nat /\ MaxEdits \in Nat /\ MaxStamp \in Nat
      BY <1>1, <1>2, IngestBoundsAssumption, SMTT(30)
    <3>4. \A j \in Items : source'[j].stamp \in Stamps /\ source'[j].version \in Versions
      <4>1. SUFFICES ASSUME NEW j \in Items
                     PROVE  source'[j].stamp \in Stamps /\ source'[j].version \in Versions
        OBVIOUS
      <4>2. source'[j].stamp \in Nat /\ source'[j].version \in Nat
        BY <3>1
      <4>3. source'[j].stamp <= MaxStamp
        BY <3>2
      <4>4. source'[j].version <= MaxEdits + 1
        <5>1. source'[j].version <= edits' + 1
          BY <3>2
        <5>2. \A w, u, z \in Nat : w <= u + 1 /\ u + 1 <= z + 1 => w <= z + 1
          OBVIOUS
        <5> QED BY <3>3, <4>2, <5>1, <5>2, Zenon
      <4> QED BY <3>3, <4>2, <4>3, <4>4, SMTT(30) DEF Stamps, Versions
    <3> QED BY <3>1, <3>4
  <2>2. moved' \in BOOLEAN
    BY <1>1, <1>2 DEF TypeOK
  <2>3. edits' \in 0..MaxEdits
    BY <1>1, <1>2, IngestBoundsAssumption, SMTT(30)
  <2> QED BY <1>1, <1>2, <2>1, <2>2, <2>3, SMTT(30) DEF TypeOK
<1>8. \A j \in Items : Exists(j) => Exists(j)'
  BY <1>6, SMTT(30) DEF Exists
<1>9. \A j \in Items : (Key(j) \in Nat /\ Key(j)' \in Nat /\ Key(j) <= Key(j)') /\ (j # x => Key(j)' = Key(j))
  BY <1>1, <1>3, <1>5, <1>6, ItemsAssumption, SMTT(30) DEF Key, Sourced
<1>10. (\A i \in owed : Exists(i))' /\ (kind = "board" => cursor = 0)'
  BY <1>1, <1>2, <1>8, Zenon DEF IInv, TypeOK
<1>11. ASSUME NEW h \in Nat, Reached(h) PROVE (\E i \in Items : h <= source'[i].stamp) \/ h = 0
  BY <1>3, <1>6, <1>11 DEF Reached, Sourced
<1>12. Reached(cursor)'
  <2>1. cursor \in Nat /\ Reached(cursor)
    BY Typed, Zenon DEF IInv
  <2>2. cursor = 0 \/ \E i \in Items : cursor <= source'[i].stamp
    BY <1>11, <2>1, Zenon
  <2> QED BY <1>1, <2>2, Zenon DEF Reached
<1>13. NoDanglingRow'
  BY <1>1 DEF IInv, NoDanglingRow
<1>14. ASSUME NEW a \in Attempts
       PROVE  /\ attempt[a].start \in Nat /\ attempt[a].high \in Nat /\ attempt[a].token \in Nat
              /\ attempt[a].page \in Nat
              /\ \A e \in attempt[a].batch : e.item \in Items /\ e.key \in Nat /\ e.stamp \in Nat
              /\ Placed(attempt[a]) /\ Batched(attempt[a]) /\ Reaches(attempt[a])
              /\ Stored(attempt[a]) /\ Cursorless(attempt[a], cursor)
  <2>1. attempt[a] \in AttemptSet
    BY <1>2 DEF TypeOK
  <2>2. /\ attempt[a].start \in Nat /\ attempt[a].high \in Nat /\ attempt[a].token \in Nat
        /\ attempt[a].page \in Nat
        /\ \A e \in attempt[a].batch : e.item \in Items /\ e.key \in Nat /\ e.stamp \in Nat
    BY <2>1 DEF AttemptSet, EntrySet, Stamps
  <2> QED BY <2>2, Zenon DEF IInv
<1>15. ASSUME NEW a \in Attempts
       PROVE  Placed(attempt[a])' /\ Stored(attempt[a])' /\ Cursorless(attempt[a], cursor)'
  <2>1. Placed(attempt[a])' /\ Cursorless(attempt[a], cursor)'
    BY <1>1, <1>14, ZenonT(60) DEF Placed, Cursorless
  <2>2. Stored(attempt[a])'
    BY <1>1, <1>14 DEF Stored, First
  <2> QED BY <2>1, <2>2
<1>16. ASSUME NEW a \in Attempts
       PROVE  /\ Reaches(attempt[a])'
              /\ attempt[a].high <= s /\ attempt[a].start <= s /\ cursor <= s
              /\ kind # "board" => attempt[a].token < n
  <2>1. /\ Reached(attempt[a].start) /\ Reached(attempt[a].high) /\ Reached(cursor) /\ cursor \in Nat
        /\ attempt[a].token = 0 \/ \E i \in Items : Exists(i) /\ attempt[a].token <= Key(i)
    <3>1. Reached(cursor) /\ cursor \in Nat
      BY Typed, Zenon DEF IInv
    <3> QED BY <1>14, <3>1, Zenon DEF Reaches
  <2>2. attempt[a].high <= s /\ attempt[a].start <= s /\ cursor <= s
    <3>1. ASSUME NEW h \in Nat, Reached(h) PROVE h <= s
      BY <1>5, <1>6, <3>1, SMTT(30) DEF Reached
    <3> QED BY <1>14, <2>1, <3>1, Zenon
  <2>3. kind # "board" => attempt[a].token < n
    <3>1. 0 < n
      BY <1>4, <1>6
    <3> QED BY <1>6, <1>14, <2>1, <3>1, SMTT(30) DEF Key
  <2>4. Reached(attempt[a].start)' /\ Reached(attempt[a].high)'
    BY <1>1, <1>11, <1>14, <2>1, ZenonT(60) DEF Reached
  <2>5. attempt[a].token = 0 \/ \E i \in Items : Exists(i)' /\ attempt[a].token <= Key(i)'
    <3>1. SUFFICES ASSUME NEW i \in Items, Exists(i), attempt[a].token <= Key(i)
                   PROVE  Exists(i)' /\ attempt[a].token <= Key(i)'
      BY <2>1, Zenon
    <3>2. Key(i) \in Nat /\ Key(i)' \in Nat /\ Key(i) <= Key(i)' /\ attempt[a].token \in Nat
      BY <1>9, <1>14
    <3> QED BY <1>8, <3>1, <3>2
  <2> QED BY <1>1, <2>2, <2>3, <2>4, <2>5, Zenon DEF Reaches
<1>17. ASSUME NEW a \in Attempts PROVE Batched(attempt[a])'
  <2> DEFINE p == attempt[a]
  <2>1. \A e \in p.batch : /\ e.version >= 1 /\ Exists(e.item)' /\ e.key <= p.token
                           /\ kind = "board" => e.stamp = 0
                           /\ kind # "board" => e.stamp <= source'[e.item].stamp
                           /\ kind # "board" => \/ e.key = source'[e.item].at
                                                \/ p.token < source'[e.item].at
    <3>1. SUFFICES ASSUME NEW e \in p.batch
                   PROVE  /\ e.version >= 1 /\ Exists(e.item)' /\ e.key <= p.token
                          /\ kind = "board" => e.stamp = 0
                          /\ kind # "board" => e.stamp <= source'[e.item].stamp
                          /\ kind # "board" => \/ e.key = source'[e.item].at
                                               \/ p.token < source'[e.item].at
      OBVIOUS
    <3>2. /\ e.item \in Items /\ e.stamp \in Nat /\ e.version >= 1 /\ Exists(e.item) /\ e.key <= p.token
          /\ kind = "board" => e.stamp = 0
          /\ kind # "board" => e.stamp <= source[e.item].stamp
          /\ kind # "board" => \/ e.key = source[e.item].at
                               \/ p.token < source[e.item].at
      BY <1>14, Zenon DEF Batched, Lined
    <3>3. kind # "board" => e.stamp <= source'[e.item].stamp
      BY <1>3, <1>6, <3>2 DEF Sourced
    <3>4. kind # "board" => \/ e.key = source'[e.item].at
                            \/ p.token < source'[e.item].at
      BY <1>5, <1>16, <3>2, Zenon
    <3> QED BY <1>8, <3>2, <3>3, <3>4, Zenon
  <2>2. \A e, f \in p.batch : e.key <= f.key => e.stamp <= f.stamp
    BY <1>14, Zenon DEF Batched, Lined
  <2>3. kind # "board" => \A e \in p.batch, i \in Items :
           Exists(i)' /\ source'[i].stamp < e.stamp => source'[i].at < e.key
    <3>1. SUFFICES ASSUME kind # "board", NEW e \in p.batch, NEW i \in Items,
                          Exists(i)', source'[i].stamp < e.stamp
                   PROVE  source'[i].at < e.key
      OBVIOUS
    <3>2. e.item \in Items /\ e.stamp \in Nat /\ e.stamp <= source[e.item].stamp
      BY <1>14, <3>1, Zenon DEF Batched, Lined
    <3>3. i # x
      BY <1>5, <1>6, <3>1, <3>2, SMTT(30)
    <3>4. source'[i] = source[i] /\ Exists(i)
      BY <1>5, <3>1, <3>3, SMTT(30) DEF Exists
    <3> QED BY <1>14, <3>1, <3>4, Zenon DEF Batched, Lined
  <2>4. p.at \in {"put", "commit"} => p.version >= 1
    BY <1>14 DEF Batched
  <2> QED BY <1>1, <2>1, <2>2, <2>3, <2>4, Zenon DEF Batched, Lined
<1>18. ASSUME Undisturbed, ~moved'
       PROVE  /\ CoveredTo(cursor, manifest)'
              /\ \A a \in Attempts : attempt[a].at # "idle" => Drains(attempt[a], cursor, manifest)'
  <2>1. /\ CoveredTo(cursor, manifest) /\ Wanted' = Wanted /\ Wanted \subseteq Items
        /\ cursor \in Nat /\ Reached(cursor)
    <3>1. Wanted' = Wanted
      BY <1>1 DEF Wanted
    <3>2. Reached(cursor)
      BY Zenon DEF IInv
    <3> QED BY <1>18, <3>1, <3>2, Typed, Calm, Zenon
  <2>2. ASSUME NEW h \in Nat, h <= s, CoveredTo(h, manifest)
        PROVE  \A i \in Wanted : Exists(i)' /\ source'[i].stamp < h => manifest[i] = source'[i].version
    <3>1. SUFFICES ASSUME NEW i \in Wanted, Exists(i)', source'[i].stamp < h
                   PROVE  manifest[i] = source'[i].version
      OBVIOUS
    <3>2. i # x /\ i \in Items
      BY <1>5, <2>1, <2>2, <3>1, SMTT(30)
    <3>3. source'[i] = source[i] /\ Exists(i)
      BY <1>5, <3>1, <3>2, SMTT(30) DEF Exists
    <3> QED BY <2>2, <3>1, <3>3, Zenon DEF CoveredTo
  <2>3. cursor <= s
    BY <1>4, <1>5, <1>6, <2>1 DEF Reached
  <2>4. CoveredTo(cursor, manifest)'
    <3>1. \A i \in Wanted : Exists(i)' /\ source'[i].stamp < cursor => manifest[i] = source'[i].version
      BY <2>1, <2>2, <2>3, SMTT(30)
    <3> QED BY <1>1, <2>1, <3>1, Zenon DEF CoveredTo
  <2>5. ASSUME NEW a \in Attempts, attempt[a].at # "idle"
        PROVE  Drains(attempt[a], cursor, manifest)'
    <3> DEFINE p == attempt[a]
               L == Listing(p.start)
               L1 == {i \in Items : Exists(i)' /\ (kind = "board" \/ source'[i].stamp >= p.start)}
               G1 == {i \in L1 : Key(i)' <= p.token}
    <3>1. Drains(p, cursor, manifest)
      BY <1>18, <2>5, Zenon DEF IInv, Drained
    <3>2. /\ p.start \in Nat /\ p.high \in Nat /\ p.token \in Nat
          /\ \A e \in p.batch : e.item \in Items /\ e.key \in Nat /\ e.stamp \in Nat /\ e.key <= p.token
          /\ p.high <= s /\ p.start <= s /\ (kind # "board" => p.token < n)
      BY <1>14, <1>16, Zenon DEF Batched, Lined
    <3>3. Listing(attempt[a].start)' = L1 /\ Given(attempt[a])' = G1
      BY <1>1, Zenon DEF Listing, Given
    <3>4. \A i \in Items : i # x => (i \in L1 <=> i \in L) /\ (i \in G1 <=> i \in Given(p))
      BY <1>5, <1>9, ZenonT(60) DEF Listing, Given, Exists
    <3>5. kind # "board" => x \in L1 /\ x \notin G1
      <4>1. Exists(x)'
        BY <1>4, <1>5, <1>6, SMTT(30) DEF Exists
      <4>2. kind # "board" => Key(x)' = n
        BY <1>1, <1>5 DEF Key
      <4> QED BY <1>5, <3>2, <4>1, <4>2, SMTT(30)
    <3>6. L1 \subseteq Items /\ L \subseteq Items /\ G1 \subseteq L1 /\ Given(p) \subseteq L
      BY Zenon DEF Listing, Given
    <3>7. (cursor <= attempt[a].high /\ attempt[a].start <= cursor)' /\ Ahead(attempt[a])'
      BY <1>1, <3>1, Zenon DEF Drains, Draining, Ahead
    <3>8. CoveredTo(attempt[a].high, manifest)'
      <4>1. \A i \in Wanted : Exists(i)' /\ source'[i].stamp < p.high => manifest[i] = source'[i].version
        BY <2>2, <3>1, <3>2, Zenon DEF Drains, Draining
      <4> QED BY <1>1, <2>1, <4>1, Zenon DEF CoveredTo
    <3> HIDE DEF L1, G1, L
    <3>9. Kept(attempt[a], manifest)'
      <4>1. ASSUME kind # "board"
            PROVE  /\ \A i \in L1 : source'[i].stamp < p.high => source'[i].at <= p.token
                   /\ \A i \in G1 \cap Wanted :
                         \/ manifest[i] = source'[i].version
                         \/ \E e \in p.batch : e.item = i /\ e.key = source'[i].at
        <5>1. /\ \A i \in L : source[i].stamp < p.high => source[i].at <= p.token
              /\ \A i \in Given(p) \cap Wanted :
                    \/ manifest[i] = source[i].version
                    \/ \E e \in p.batch : e.item = i /\ e.key = source[i].at
          BY <3>1, <4>1, ZenonT(60) DEF Drains, Draining, Kept, L
        <5>2. ~(source'[x].stamp < p.high)
          BY <1>5, <3>2, SMTT(30)
        <5> QED BY <1>5, <3>4, <3>5, <3>6, <4>1, <5>1, <5>2, SMTT(30)
      <4> QED BY <1>1, <2>1, <3>3, <4>1, ZenonT(60) DEF Kept
    <3>10. kind # "board" => \A e \in p.batch : e.key = source'[e.item].at => source'[e.item] = source[e.item]
      BY <1>5, <3>2
    <3>11. Fresh(attempt[a])'
      BY <1>1, <3>1, <3>10, Zenon DEF Drains, Draining, Fresh
    <3>12. Taken(attempt[a])'
      <4>1. p.at \in {"put", "commit"} => First(p) \in p.batch
        BY FirstEntry, SMTT(30)
      <4> QED BY <1>1, <3>1, <3>10, <4>1, ZenonT(60) DEF Drains, Taken, First
    <3>13. Due(attempt[a])' = Due(p) /\ PagesGiven(attempt[a])' = PagesGiven(p)
      BY <1>1 DEF Due, PagesGiven
    <3>14. Paged(attempt[a], Due(attempt[a]), PagesGiven(attempt[a]))'
      <4>1. ASSUME kind = "issues", Due(p) PROVE G1 = Given(p)
        <5>1. Cardinality(Given(p)) = PagesGiven(p) * PerPage
          BY <3>1, <4>1, Zenon DEF Drains, Draining, Paged
        <5>2. \A i \in L : Exists(i) /\ Key(i) \in Nat
          BY <1>9, <3>6, ZenonT(60) DEF L, Listing
        <5>3. \A i \in Given(p), j \in L : Key(j) < Key(i) => j \in Given(p)
          BY <3>2, <3>6, <5>2, SMTT(30) DEF L, Given
        <5>4. Given(p) = Window(PagesGiven(p) * PerPage, L)
          BY <1>2, <3>6, <5>1, <5>2, <5>3, WindowOfFirst, SMTT(30)
        <5>5. PagesGiven(p) = Fetched(a)
          BY DEF PagesGiven, Fetched
        <5>6. ~Listed(a, x)
          BY <1>1, <1>18, Zenon
        <5>7. x \notin Given(p)
          BY <2>5, <4>1, <5>4, <5>5, <5>6, SMTT(30) DEF Window, Listed, L
        <5> QED BY <3>4, <3>5, <3>6, <4>1, <5>7, SMTT(30)
      <4> QED BY <1>1, <3>1, <3>3, <3>13, <4>1, Zenon DEF Drains, Draining, Paged
    <3>15. Owing(attempt[a], Due(attempt[a]), manifest)'
      <4>1. ASSUME NEW i \in owed \cap Wanted, i \in L \ Given(p) PROVE i \in L1 \ G1
        <5>1. CASE i # x
          BY <3>4, <3>6, <4>1, <5>1, SMTT(30)
        <5>2. CASE i = x /\ kind # "board"
          BY <3>5, <5>2, SMTT(30)
        <5>3. CASE i = x /\ kind = "board"
          <6>1. i \in Items /\ Exists(i) /\ ~(Key(i) <= p.token)
            BY <3>6, <4>1, SMTT(30) DEF L, Listing, Given
          <6>2. Key(i)' = Key(i)
            BY <1>1, <5>3 DEF Key
          <6> QED BY <1>8, <5>3, <6>1, <6>2, SMTT(30) DEF L1, G1
        <5> QED BY <5>1, <5>2, <5>3, SMTT(30)
      <4>2. \A i \in owed \cap Wanted :
               \/ manifest[i] # 0
               \/ \E e \in p.batch : e.item = i
               \/ i \in L \ Given(p) /\ Due(p)
        BY <3>1, Zenon DEF Drains, Draining, Owing, L
      <4>3. \A i \in owed \cap Wanted :
               \/ manifest[i] # 0
               \/ \E e \in p.batch : e.item = i
               \/ i \in L1 \ G1 /\ Due(p)
        BY <4>1, <4>2
      <4> QED BY <1>1, <2>1, <3>3, <3>13, <4>3, Zenon DEF Owing
    <3> QED BY <3>7, <3>8, <3>9, <3>11, <3>12, <3>14, <3>15, ZenonT(60) DEF Drains, Draining
  <2> QED BY <2>4, <2>5
<1>19. Drained'
  <2>1. SUFFICES ASSUME Undisturbed'
                 PROVE  /\ CoveredTo(cursor, manifest)'
                        /\ committed' => Complete(manifest)'
                        /\ \A a \in Attempts : attempt'[a].at # "idle" =>
                              a = Current' /\ Drains(attempt[a], cursor, manifest)'
    BY Zenon DEF Drained
  <2>2. Undisturbed /\ ~moved'
    BY <1>1, <2>1, Zenon DEF Undisturbed
  <2>3. committed => Complete(manifest)
    BY <2>2, Zenon DEF IInv, Drained
  <2>4. committed' => Complete(manifest)'
    BY <1>1, <2>3 DEF Complete, Wanted
  <2>5. Current' = Current
    BY <1>1, SMTT(30) DEF Current
  <2>6. \A a \in Attempts : attempt[a].at # "idle" => a = Current
    BY <2>2 DEF IInv, Drained
  <2> QED BY <1>1, <1>18, <2>2, <2>4, <2>5, <2>6, Zenon
<1> QED BY <1>3, <1>7, <1>10, <1>12, <1>13, <1>15, <1>16, <1>17, <1>19, SMTT(30) DEF IInv

-----------------------------------------------------------------------------
(* The theorems.                                                            *)

(* The invariant holds at the start.                                        *)
LEMMA InitHolds == Init => IInv
<1> SUFFICES ASSUME Init PROVE IInv
  OBVIOUS
<1>1. PICK existing \in SUBSET Items, time \in [Items -> 1..MaxStamp] :
          /\ \A i, j \in existing : i <= j => time[i] <= time[j]
          /\ source = [i \in Items |->
                IF i \in existing THEN [at |-> i, stamp |-> time[i], version |-> 1]
                ELSE [at |-> 0, stamp |-> 0, version |-> 0]]
  BY Zenon DEF Init
<1>2. /\ kind \in Kinds /\ edits = 0 /\ cursor = 0 /\ committed = FALSE
      /\ manifest = [i \in Items |-> 0] /\ objects = {}
      /\ attempt = [a \in Attempts |-> NoAttempt]
      /\ mishaps = 0 /\ late = {} /\ moved = FALSE
      /\ owed = {i \in Items : Exists(i)}
  BY DEF Init
<1>3. \A i \in Items :
         /\ i \in existing => source[i].at = i /\ source[i].stamp = time[i] /\ source[i].version = 1
         /\ i \notin existing => source[i].at = 0 /\ source[i].stamp = 0 /\ source[i].version = 0
         /\ i \in Nat /\ i # 0 /\ time[i] \in 1..MaxStamp
  BY <1>1, ItemsAssumption
<1>4. MaxStamp \in Nat /\ MaxEdits \in Nat /\ MaxMishaps \in Nat /\ 0 \in Versions /\ 1 \in Versions /\ 0 \in Stamps
  BY IngestBoundsAssumption DEF Versions, Stamps
<1>5. \A i \in Items : (Exists(i) <=> i \in existing) /\ source[i].stamp \in Stamps /\ source[i].stamp \in Nat
  BY <1>3, <1>4 DEF Exists, Stamps
<1>6. source \in [Items -> [at : Nat, stamp : Stamps, version : Versions]]
  <2>1. \A i \in Items : source[i] \in [at : Nat, stamp : Stamps, version : Versions]
    <3>1. SUFFICES ASSUME NEW i \in Items PROVE source[i] \in [at : Nat, stamp : Stamps, version : Versions]
      OBVIOUS
    <3>2. CASE i \in existing
      <4>1. source[i] = [at |-> i, stamp |-> time[i], version |-> 1] /\ time[i] \in Stamps /\ i \in Nat
        BY <1>1, <1>3, <1>4, <3>2, SMTT(30) DEF Stamps
      <4> QED BY <1>4, <4>1, SMTT(30)
    <3>3. CASE i \notin existing
      <4>1. source[i] = [at |-> 0, stamp |-> 0, version |-> 0]
        BY <1>1, <3>3, SMTT(30)
      <4> QED BY <1>4, <4>1, SMTT(30)
    <3> QED BY <3>2, <3>3
  <2>2. source = [i \in Items |-> source[i]]
    BY <1>1
  <2> QED BY <2>1, <2>2
<1>7. \A a \in Attempts : attempt[a] = NoAttempt
  BY <1>2, SMTT(30)
<1>8. TypeOK
  <2>1. attempt \in [Attempts -> AttemptSet]
    BY <1>2, NoAttemptFields
  <2>2. \A a \in Attempts : attempt[a].at \in {"check", "put", "commit"} => attempt[a].batch # {}
    BY <1>7, NoAttemptFields
  <2>3. manifest \in [Items -> Versions] /\ owed \subseteq Items
    BY <1>2, <1>4
  <2>4. edits \in 0..MaxEdits /\ mishaps \in 0..MaxMishaps /\ cursor \in Stamps
    BY <1>2, <1>4
  <2>5. objects \subseteq Items \X Versions /\ late \subseteq Attempts
    BY <1>2
  <2>6. committed \in BOOLEAN /\ moved \in BOOLEAN /\ kind \in Kinds
    BY <1>2, Zenon
  <2> QED BY <1>6, <2>1, <2>2, <2>3, <2>4, <2>5, <2>6, SMTT(30) DEF TypeOK
<1>9. Sourced
  <2>1. source \in [Items -> [at : Nat, stamp : Nat, version : Nat]]
    <3>1. Stamps \subseteq Nat /\ Versions \subseteq Nat
      BY <1>4 DEF Stamps, Versions
    <3> QED BY <1>6, <3>1, Zenon
  <2>2. ASSUME NEW i \in Items, NEW j \in Items, Exists(i), Exists(j)
        PROVE  /\ source[i].at = source[j].at => i = j
               /\ source[i].stamp < source[j].stamp => source[i].at < source[j].at
    <3>1. i \in existing /\ j \in existing /\ source[i].at = i /\ source[j].at = j /\ i \in Nat /\ j \in Nat
      BY <1>3, <1>5, <2>2, SMTT(30)
    <3>2. source[i].stamp = time[i] /\ source[j].stamp = time[j] /\ time[i] \in Nat /\ time[j] \in Nat
      BY <1>3, <1>4, <3>1, SMTT(30)
    <3>3. j <= i => time[j] <= time[i]
      BY <1>1, <3>1, SMTT(30)
    <3> QED BY <3>1, <3>2, <3>3, SMTT(30)
  <2>3. \A i \in Items : /\ Exists(i) => source[i].version >= 1
                         /\ ~Exists(i) => source[i].stamp = 0
                         /\ source[i].stamp <= MaxStamp /\ source[i].version <= edits + 1
    BY <1>2, <1>3, <1>4, <1>5, SMTT(30)
  <2>4. \A i, j \in Items : Exists(i) /\ Exists(j) =>
           /\ source[i].at = source[j].at => i = j
           /\ source[i].stamp < source[j].stamp => source[i].at < source[j].at
    BY <2>2, SMTT(30)
  <2> QED BY <2>1, <2>3, <2>4 DEF Sourced
<1>10. Keyed
  BY <1>3, <1>5 DEF Keyed, Key
<1>11. \A a \in Attempts :
          /\ Placed(attempt[a]) /\ Batched(attempt[a]) /\ Reaches(attempt[a])
          /\ Stored(attempt[a]) /\ Cursorless(attempt[a], cursor)
  BY <1>2, <1>7, NoAttemptFields, Zenon DEF Placed, Batched, Lined, Reaches, Reached, Stored, Cursorless
<1>12. Reached(cursor) /\ \A i \in owed : Exists(i)
  BY <1>2 DEF Reached
<1>13. NoDanglingRow
  BY <1>2 DEF NoDanglingRow
<1>14. Drained
  <2>1. CoveredTo(cursor, manifest)
    <3>1. \A i \in Wanted : source[i].stamp \in Nat
      BY <1>5 DEF Wanted
    <3> QED BY <1>2, <3>1, SMTT(30) DEF CoveredTo
  <2> QED BY <1>2, <1>7, <2>1, NoAttemptFields, Zenon DEF Drained
<1> QED BY <1>2, <1>8, <1>9, <1>10, <1>11, <1>12, <1>13, <1>14, SMTT(30) DEF IInv

(* And when nothing moves.                                                  *)
LEMMA StutterKept == ASSUME IInv, UNCHANGED vars PROVE IInv'
<1>1. UNCHANGED <<kind, source, edits, cursor, committed, manifest, objects, attempt, mishaps, late, moved, owed>>
  BY DEF vars, history
<1>2. TypeOK' /\ NoDanglingRow'
  BY <1>1, ZenonT(60) DEF IInv, TypeOK, NoDanglingRow
<1>3. Sourced' /\ Keyed' /\ (kind = "board" => cursor = 0)' /\ Reached(cursor)' /\ (\A i \in owed : Exists(i))'
  BY <1>1 DEF IInv, Sourced, Keyed, Reached, Exists, Key
<1>4. \A b \in Attempts :
         /\ Placed(attempt[b])' /\ Batched(attempt[b])' /\ Reaches(attempt[b])'
         /\ Stored(attempt[b])' /\ Cursorless(attempt[b], cursor)'
  BY <1>1, AttemptsStand
<1>6. Drained'
  <2>1. Undisturbed' = Undisturbed /\ Current' = Current /\ Wanted' = Wanted
    BY <1>1, SMTT(30) DEF Undisturbed, Current, Wanted
  <2>2. CoveredTo(cursor, manifest)' = CoveredTo(cursor, manifest) /\ Complete(manifest)' = Complete(manifest)
    BY <1>1, <2>1 DEF CoveredTo, Complete, Exists
  <2>3. ASSUME NEW b \in Attempts, Drains(attempt[b], cursor, manifest)
        PROVE  Drains(attempt[b], cursor, manifest)'
    <3> DEFINE p == attempt[b]
    <3>1. Listing(p.start)' = Listing(p.start) /\ Due(p)' = Due(p) /\ PagesGiven(p)' = PagesGiven(p)
      BY <1>1, SMTT(30) DEF Listing, Exists, Due, PagesGiven
    <3>2. Given(p)' = Given(p)
      BY <1>1, <3>1, SMTT(30) DEF Given, Key
    <3>3. CoveredTo(p.high, manifest)'
      BY <1>1, <2>1, <2>3 DEF Drains, Draining, CoveredTo, Exists
    <3>4. Ahead(p)' /\ Fresh(p)'
      BY <1>1, <2>3, Zenon DEF Drains, Draining, Ahead, Fresh
    <3>5. Kept(p, manifest)'
      BY <1>1, <2>1, <2>3, <3>1, <3>2, ZenonT(60) DEF Drains, Draining, Kept
    <3>6. Paged(p, Due(p), PagesGiven(p))'
      BY <1>1, <2>3, <3>1, <3>2, Zenon DEF Drains, Draining, Paged
    <3>7. Owing(p, Due(p), manifest)'
      BY <1>1, <2>1, <2>3, <3>1, <3>2, ZenonT(60) DEF Drains, Draining, Owing
    <3>8. Taken(p)'
      <4>1. First(p)' = First(p)
        BY <1>1, SMTT(30) DEF First
      <4> QED BY <1>1, <2>3, <4>1 DEF Drains, Taken
    <3>9. (cursor <= p.high /\ p.start <= cursor)'
      BY <1>1, <2>3 DEF Drains, Draining
    <3> QED BY <3>3, <3>4, <3>5, <3>6, <3>7, <3>8, <3>9, ZenonT(60) DEF Drains, Draining
  <2> QED BY <1>1, <2>1, <2>2, <2>3, Zenon DEF IInv, Drained
<1> QED BY <1>2, <1>3, <1>4, <1>6, Zenon DEF IInv

(* Every step keeps it.                                                     *)
LEMMA NextKept == IInv /\ [Next]_vars => IInv'
<1> SUFFICES ASSUME IInv, [Next]_vars PROVE IInv'
  OBVIOUS
<1>1. CASE \E i \in Items : Edit(i)
  BY <1>1, EditKept
<1>2. ASSUME NEW a \in Attempts, Step(a) PROVE IInv'
  BY <1>2, BeginKept, FetchPageKept, EmitUnchangedKept, EmitChangedKept, PutKept, CommitKept, CommitUnitKept, SMTT(30)
     DEF Step
<1>3. ASSUME NEW a \in Attempts, CutShort(a) PROVE IInv'
  BY <1>3, CutShortKept
<1>4. ASSUME NEW a \in Attempts, MissHeartbeat(a) PROVE IInv'
  BY <1>4, MissHeartbeatKept
<1>5. CASE UNCHANGED vars
  BY <1>5, StutterKept
<1> QED BY <1>1, <1>2, <1>3, <1>4, <1>5, SMTT(30) DEF Next

(* The inductive invariant.                                                 *)
LEMMA Inductive == Spec => []IInv
<1> QED BY InitHolds, NextKept, PTL DEF Spec

(* Every variable keeps its type.                                           *)
THEOREM TypeCorrect == Spec => []TypeOK
<1>1. IInv => TypeOK
  BY DEF IInv
<1> QED BY <1>1, Inductive, PTL

(* A manifest row always points at bytes the store holds: emit writes the   *)
(* bytes before the row (activity.go:472-475), for any number of attempts   *)
(* that overlap and whatever is cut short.                                  *)
THEOREM RowsHaveBytes == Spec => []NoDanglingRow
<1>1. IInv => NoDanglingRow
  BY SMTT(30) DEF IInv
<1> QED BY <1>1, Inductive, PTL

(* The cursor is a true high-water mark (github.go:391-394), for any page   *)
(* size, page budget and history of the source, unless an attempt outlives  *)
(* its heartbeat or a listed issue changes while later pages are due.       *)
THEOREM CursorLeavesNoGap == Spec => []GaplessUnlessMoved
<1>1. IInv => GaplessUnlessMoved
  BY SMTT(30) DEF IInv, Drained, Undisturbed, CoveredTo, GaplessUnlessMoved, Gapless
<1> QED BY <1>1, Inductive, PTL

(* committed_at is set only after a full pass (ListArtifacts, "so partial   *)
(* data never surfaces", artifact.sql:14), under the same conditions.       *)
THEOREM VisibleOnlyWhenComplete == Spec => []VisibleWhenComplete
<1>1. IInv => VisibleWhenComplete
  BY DEF IInv, Drained, Undisturbed, Complete, VisibleWhenComplete
<1> QED BY <1>1, Inductive, PTL
=============================================================================
