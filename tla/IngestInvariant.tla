-------------------------- MODULE IngestInvariant --------------------------
(* The inductive invariant of SyncUnit, and what the proof that it holds    *)
(* rests on: the order of the listing and of its pages, what one attempt's  *)
(* step leaves of the others, and the beginning and the end of an attempt.  *)
EXTENDS Ingest, FiniteSetTheorems, TLAPS

-----------------------------------------------------------------------------
(* The source: items changed later come later, and an edit is the latest.   *)
Sourced ==
    /\ source \in [Items -> [at : Nat, stamp : Nat, version : Nat]]
    /\ \A i, j \in Items : Exists(i) /\ Exists(j) =>
          /\ source[i].at = source[j].at => i = j
          /\ source[i].stamp < source[j].stamp => source[i].at < source[j].at
    /\ \A i \in Items : /\ Exists(i) => source[i].version >= 1
                        /\ ~Exists(i) => source[i].stamp = 0
                        /\ source[i].stamp <= MaxStamp /\ source[i].version <= edits + 1

(* The order of the items in a listing.                                     *)
Keyed == \A i, j \in Items : Exists(i) /\ Exists(j) =>
             Key(i) \in Nat \ {0} /\ (Key(i) = Key(j) => i = j)

(* The shape of an attempt's progress through its pages.                    *)
Placed(p) ==
    /\ p.at \in {"idle", "page", "finish"} => p.batch = {}
    /\ p.at \in {"check", "put", "commit"} => p.batch # {}
    /\ p.at = "finish" => ~p.more
    /\ p.at # "idle" => p.page >= 1

(* The entries of a page are of items that exist, listed up to the token,   *)
(* which an item changed since is past; later entries are of later changes. *)
Lined(p) ==
    /\ \A e \in p.batch : /\ e.version >= 1 /\ Exists(e.item) /\ e.key <= p.token
                          /\ kind = "board" => e.stamp = 0
                          /\ kind # "board" => e.stamp <= source[e.item].stamp
                          /\ kind # "board" => \/ e.key = source[e.item].at
                                               \/ p.token < source[e.item].at
    /\ \A e, f \in p.batch : e.key <= f.key => e.stamp <= f.stamp
    /\ kind # "board" => \A e \in p.batch, i \in Items :
          Exists(i) /\ source[i].stamp < e.stamp => source[i].at < e.key
Batched(p) == Lined(p) /\ (p.at \in {"put", "commit"} => p.version >= 1)

(* Nothing an attempt knows is later than the source.                       *)
Reached(h) == h = 0 \/ \E i \in Items : h <= source[i].stamp
Reaches(p) ==
    /\ Reached(p.start) /\ Reached(p.high)
    /\ p.token = 0 \/ \E i \in Items : Exists(i) /\ p.token <= Key(i)

First(p) == CHOOSE e \in p.batch : \A f \in p.batch : e.key <= f.key

(* The bytes of an entry to be committed are in the store.                  *)
Stored(p) == p.at = "commit" => <<First(p).item, p.version>> \in objects

(* What the pages given so far held.                                        *)
Given(p) == {i \in Listing(p.start) : Key(i) <= p.token}

(* Pages are still due, and how many were given.                            *)
Due(p) == p.at = "page" \/ p.more
PagesGiven(p) == IF p.at = "page" THEN p.page - 1 ELSE p.page

(* Everything changed before h is in the manifest mf as it is.              *)
CoveredTo(h, mf) ==
    \A i \in Wanted : Exists(i) /\ source[i].stamp < h => mf[i] = source[i].version

(* The entries left are of changes no earlier than the high-water mark.     *)
Ahead(p) == \A e \in p.batch : p.high <= e.stamp

(* What the pages given so far held is in the manifest or in the batch.     *)
Kept(p, mf) ==
    kind # "board" =>
        /\ \A i \in Listing(p.start) : source[i].stamp < p.high => source[i].at <= p.token
        /\ \A i \in Given(p) \cap Wanted :
              \/ mf[i] = source[i].version
              \/ \E e \in p.batch : e.item = i /\ e.key = source[i].at

(* An entry of an item that did not change since is of its version.         *)
Fresh(p) ==
    kind # "board" =>
        \A e \in p.batch : e.key = source[e.item].at => e.version = source[e.item].version
Taken(p) ==
    kind # "board" /\ p.at \in {"put", "commit"} /\ First(p).key = source[First(p).item].at =>
        p.version = source[First(p).item].version

(* The pages of issues given so far were full.                              *)
Paged(p, due, n) == kind = "issues" /\ due => Cardinality(Given(p)) = n * PerPage

(* What the source had at the start is kept, or in the batch, or to come.   *)
Owing(p, due, mf) ==
    \A i \in owed \cap Wanted :
        \/ mf[i] # 0
        \/ \E e \in p.batch : e.item = i
        \/ i \in Listing(p.start) \ Given(p) /\ due

(* Draining without a gap.                                                  *)
Draining(p, due, n, c, mf) ==
    /\ c <= p.high /\ p.start <= c
    /\ CoveredTo(p.high, mf)
    /\ Ahead(p) /\ Kept(p, mf) /\ Fresh(p)
    /\ Paged(p, due, n) /\ Owing(p, due, mf)

Drains(p, c, mf) == Draining(p, Due(p), PagesGiven(p), c, mf) /\ Taken(p)

Undisturbed == late = {} /\ ~moved

Complete(mf) == \A i \in owed \cap Wanted : mf[i] # 0

Drained ==
    Undisturbed =>
        /\ CoveredTo(cursor, manifest)
        /\ committed => Complete(manifest)
        /\ \A a \in Attempts :
              attempt[a].at # "idle" => a = Current /\ Drains(attempt[a], cursor, manifest)

(* A board has no cursor.                                                   *)
Cursorless(p, c) == kind = "board" => c = 0 /\ p.start = 0 /\ p.high = 0

IInv ==
    /\ TypeOK
    /\ Sourced
    /\ Keyed
    /\ kind = "board" => cursor = 0
    /\ Reached(cursor)
    /\ \A i \in owed : Exists(i)
    /\ \A a \in Attempts :
          /\ Placed(attempt[a]) /\ Batched(attempt[a]) /\ Reaches(attempt[a])
          /\ Stored(attempt[a]) /\ Cursorless(attempt[a], cursor)
    /\ NoDanglingRow
    /\ Drained

-----------------------------------------------------------------------------
(* Greatest and least elements.                                             *)

(* A finite set has an element of greatest rank.                            *)
LEMMA Greatest ==
    ASSUME NEW S, IsFiniteSet(S), S # {}, NEW k \in [S -> Nat]
    PROVE  \E m \in S : \A n \in S : k[n] <= k[m]
<1> DEFINE Topped(T) == \E m \in T : \A n \in T : k[n] <= k[m]
           Bad == {T \in SUBSET S : T # {} /\ ~Topped(T)}
<1>1. SUFFICES ASSUME Bad # {} PROVE FALSE
  <2>1. S \notin Bad
    BY <1>1
  <2> QED BY <2>1
<1>2. FiniteSubsetsOf(S) = SUBSET S
  BY FS_FiniteSubsetsOfFinite
<1>3. IsWellFoundedOn(StrictSubsetOrdering(S), FiniteSubsetsOf(S))
  BY FS_StrictSubsetOrderingWellFounded
<1>4. Bad \subseteq FiniteSubsetsOf(S)
  BY <1>2
<1>5. PICK X \in Bad : \A Y \in Bad : ~(<<Y, X>> \in StrictSubsetOrdering(S))
  <2> HIDE DEF Bad
  <2> QED BY <1>1, <1>3, <1>4, WFMin
<1>6. PICK x \in X : TRUE
  BY <1>5
<1> DEFINE Y == X \ {x}
<1>7. Y \in SUBSET S /\ X \in SUBSET S /\ Y \subseteq X /\ Y # X
  BY <1>5, <1>6
<1>8. <<Y, X>> \in StrictSubsetOrdering(S)
  BY <1>7 DEF StrictSubsetOrdering
<1>9. Y \notin Bad
  BY <1>5, <1>8
<1>10. CASE Y = {}
  <2>1. X = {x} /\ k[x] \in Nat
    BY <1>6, <1>7, <1>10
  <2> QED BY <2>1, <1>5
<1>11. CASE Topped(Y)
  <2>1. PICK m \in Y : \A n \in Y : k[n] <= k[m]
    BY <1>11
  <2>2. \A n \in X : k[n] \in Nat /\ (n \in Y \/ n = x)
    BY <1>7
  <2>3. k[m] \in Nat /\ k[x] \in Nat /\ m \in X
    BY <1>6, <2>1, <2>2
  <2>4. Topped(X)
    <3>1. CASE k[m] <= k[x]
      <4>1. \A n \in X : k[n] <= k[x]
        BY <3>1, <2>1, <2>2, <2>3
      <4> QED BY <4>1, <1>6
    <3>2. CASE k[x] <= k[m]
      <4>1. \A n \in X : k[n] <= k[m]
        BY <3>2, <2>1, <2>2, <2>3
      <4> QED BY <4>1, <2>3
    <3> QED BY <3>1, <3>2, <2>3
  <2> QED BY <2>4, <1>5
<1> QED BY <1>9, <1>10, <1>11, <1>7

(* A set of numbers has a least one.                                        *)
LEMMA Least ==
    ASSUME NEW T, T \subseteq Nat, T # {}
    PROVE  \E m \in T : \A n \in T : m <= n
<1>1. IsWellFoundedOn(OpToRel(<, Nat), Nat)
  BY NatLessThanWellFounded, Zenon
<1>2. PICK m \in T : \A n \in T : ~(<<n, m>> \in OpToRel(<, Nat))
  BY <1>1, WFMin, Zenon
<1>3. \A n \in T : ~(n < m)
  BY <1>2, Zenon DEF OpToRel
<1> QED BY <1>3

(* The entry emitted next is one of the batch.                              *)
LEMMA FirstOfBatch ==
    ASSUME NEW p, p.batch \subseteq EntrySet, p.batch # {}
    PROVE  First(p) \in p.batch /\ \A f \in p.batch : First(p).key <= f.key
<1> DEFINE T == {e.key : e \in p.batch}
<1>1. T \subseteq Nat /\ T # {}
  BY DEF EntrySet
<1>2. PICK m \in T : \A n \in T : m <= n
  <2> HIDE DEF T
  <2> QED BY <1>1, Least, Zenon
<1>3. PICK e \in p.batch : e.key = m
  OBVIOUS
<1>4. \A f \in p.batch : e.key <= f.key
  BY <1>2, <1>3
<1> QED BY <1>3, <1>4 DEF First

-----------------------------------------------------------------------------
(* The source.                                                              *)

Change(a, s, v) == [at |-> a, stamp |-> s, version |-> v]

(* An edit comes after every change before it.                              *)
LEMMA EditIsLatest ==
    ASSUME Sourced, edits \in Nat, NEW i \in Items, Edit(i)
    PROVE  \E a \in Nat, s \in 1..MaxStamp, v \in Nat :
              /\ source' = [source EXCEPT ![i] = Change(a, s, v)]
              /\ \A j \in Items : source[j].at < a /\ source[j].stamp <= s
              /\ v >= 1 /\ v >= source[i].version /\ v <= edits + 2
<1> DEFINE ats == {source[j].at : j \in Items}
           stamps == {source[j].stamp : j \in Items}
<1>0. IsFiniteSet(Items) /\ \A j \in Items : source[j].at \in Nat /\ source[j].stamp \in Nat /\ source[j].version \in Nat
  BY ItemsAssumption DEF Sourced
<1>1. Latest(ats) \in ats /\ \A n \in ats : n <= Latest(ats)
  <2> DEFINE k == [j \in Items |-> source[j].at]
  <2>1. PICK m \in Items : \A n \in Items : k[n] <= k[m]
    <3>1. k \in [Items -> Nat]
      BY <1>0
    <3> HIDE DEF k
    <3> QED BY <1>0, <3>1, Greatest
  <2>2. source[m].at \in ats /\ \A n \in ats : n <= source[m].at
    BY <2>1
  <2> HIDE DEF ats
  <2> QED BY <2>2 DEF Latest
<1>2. Latest(stamps) \in stamps /\ \A n \in stamps : n <= Latest(stamps)
  <2> DEFINE k == [j \in Items |-> source[j].stamp]
  <2>1. PICK m \in Items : \A n \in Items : k[n] <= k[m]
    <3>1. k \in [Items -> Nat]
      BY <1>0
    <3> HIDE DEF k
    <3> QED BY <1>0, <3>1, Greatest
  <2>2. source[m].stamp \in stamps /\ \A n \in stamps : n <= source[m].stamp
    BY <2>1
  <2> HIDE DEF stamps
  <2> QED BY <2>2 DEF Latest
<1>3. PICK s \in {Latest(stamps), Latest(stamps) + 1} \cap 1..MaxStamp,
           v \in {source[i].version, source[i].version + 1} \ {0} :
           source' = [source EXCEPT ![i] = Change(Latest(ats) + 1, s, v)]
  BY Zenon DEF Edit, Change
<1>4. Latest(ats) \in Nat /\ Latest(stamps) \in Nat
  BY <1>0, <1>1, <1>2
<1>5. \A j \in Items : source[j].at <= Latest(ats) /\ source[j].stamp <= Latest(stamps)
  BY <1>1, <1>2
<1> HIDE DEF ats, stamps
<1>6. Latest(ats) + 1 \in Nat /\ s \in 1..MaxStamp /\ v \in Nat
  BY <1>0, <1>3, <1>4
<1>7. \A j \in Items : source[j].at < Latest(ats) + 1 /\ source[j].stamp <= s
  BY <1>0, <1>3, <1>4, <1>5
<1>8. v >= 1 /\ v >= source[i].version /\ v <= edits + 2
  BY <1>0, <1>3 DEF Sourced
<1> QED BY <1>3, <1>6, <1>7, <1>8, Zenon

(* The order of changes is kept by an edit.                                 *)
LEMMA SourceKept ==
    ASSUME Sourced, Keyed, edits \in Nat, kind' = kind, NEW i \in Items, Edit(i)
    PROVE  Sourced' /\ Keyed'
<1>1. PICK a \in Nat, s \in 1..MaxStamp, v \in Nat :
              /\ source' = [source EXCEPT ![i] = Change(a, s, v)]
              /\ \A j \in Items : source[j].at < a /\ source[j].stamp <= s
              /\ v >= 1 /\ v >= source[i].version /\ v <= edits + 2
  BY EditIsLatest
<1>2. source \in [Items -> [at : Nat, stamp : Nat, version : Nat]]
  BY DEF Sourced
<1>3. source'[i] = Change(a, s, v) /\ \A j \in Items : j # i => source'[j] = source[j]
  BY <1>1, <1>2
<1>4. Change(a, s, v).at = a /\ Change(a, s, v).stamp = s /\ Change(a, s, v).version = v
      /\ Change(a, s, v) \in [at : Nat, stamp : Nat, version : Nat] /\ s \in Nat /\ s <= MaxStamp
  BY <1>1, IngestBoundsAssumption DEF Change
<1>5. source' \in [Items -> [at : Nat, stamp : Nat, version : Nat]]
  BY <1>1, <1>2, <1>4
<1>6. edits' = edits + 1
  BY DEF Edit
<1>7. \A j \in Items : source[j].at \in Nat /\ source[j].stamp \in Nat /\ source[j].version \in Nat
  BY <1>2
<1>8. ASSUME NEW j \in Items, NEW l \in Items, source'[j].at # 0, source'[l].at # 0
      PROVE  /\ source'[j].at = source'[l].at => j = l
             /\ source'[j].stamp < source'[l].stamp => source'[j].at < source'[l].at
  <2>1. CASE j = i
    BY <2>1, <1>8, <1>1, <1>3, <1>4, <1>7
  <2>2. CASE j # i /\ l = i
    BY <2>2, <1>8, <1>1, <1>3, <1>4, <1>7, SMTT(30)
  <2>3. CASE j # i /\ l # i
    BY <2>3, <1>8, <1>3 DEF Sourced, Exists
  <2> QED BY <2>1, <2>2, <2>3
<1>9. ASSUME NEW j \in Items
      PROVE  /\ source'[j].at # 0 => source'[j].version >= 1
             /\ source'[j].at = 0 => source'[j].stamp = 0
             /\ source'[j].stamp <= MaxStamp /\ source'[j].version <= edits' + 1
  <2>1. CASE j = i
    BY <2>1, <1>1, <1>3, <1>4, <1>6, <1>7
  <2>2. CASE j # i
    BY <2>2, <1>3, <1>6, <1>7 DEF Sourced, Exists
  <2> QED BY <2>1, <2>2
<1>10. Sourced'
  BY <1>5, <1>8, <1>9 DEF Sourced, Exists
<1>11. Keyed'
  <2> SUFFICES ASSUME NEW j \in Items, NEW l \in Items, source'[j].at # 0, source'[l].at # 0
               PROVE  Key(j)' \in Nat \ {0} /\ (Key(j)' = Key(l)' => j = l)
    BY DEF Keyed, Exists
  <2>1. CASE kind = "board"
    BY <2>1, ItemsAssumption DEF Key
  <2>2. CASE kind # "board"
    BY <2>2, <1>8, <1>5 DEF Key
  <2> QED BY <2>1, <2>2
<1> QED BY <1>10, <1>11

-----------------------------------------------------------------------------
(* Ranks and pages.                                                         *)

Below(i, S) == {j \in S : Key(j) < Key(i)}

Window(n, S) == {i \in S : Rank(i, S) < n}

(* A set of items that exist is finite and ordered by distinct keys.        *)
LEMMA Ordered ==
    ASSUME Keyed, NEW S, S \subseteq Items, \A i \in S : Exists(i)
    PROVE  /\ IsFiniteSet(S)
           /\ \A i, j \in S : Key(i) \in Nat /\ (Key(i) = Key(j) => i = j)
           /\ \A i \in S : Rank(i, S) \in Nat /\ Rank(i, S) = Cardinality(Below(i, S)) /\ IsFiniteSet(Below(i, S))
<1>1. IsFiniteSet(S)
  BY ItemsAssumption, FS_Subset, Zenon
<1>2. \A i, j \in S : Key(i) \in Nat /\ (Key(i) = Key(j) => i = j)
  BY DEF Keyed
<1>3. \A i \in S : Rank(i, S) = Cardinality(Below(i, S)) /\ Below(i, S) \in SUBSET S
  BY DEF Rank, Below
<1>4. \A i \in S : IsFiniteSet(Below(i, S)) /\ Cardinality(Below(i, S)) \in Nat
  BY <1>1, <1>3, FS_Subset, FS_CardinalityType
<1> QED BY <1>1, <1>2, <1>3, <1>4

(* Ranks follow keys.                                                       *)
LEMMA RankFollows ==
    ASSUME Keyed, NEW S, S \subseteq Items, \A i \in S : Exists(i), NEW i \in S, NEW j \in S
    PROVE  /\ Key(i) <= Key(j) => Rank(i, S) <= Rank(j, S)
           /\ Key(i) < Key(j) => Rank(i, S) + 1 <= Rank(j, S)
<1>0. /\ IsFiniteSet(S) /\ Key(i) \in Nat /\ Key(j) \in Nat /\ \A l \in S : Key(l) \in Nat
      /\ Rank(i, S) \in Nat /\ Rank(i, S) = Cardinality(Below(i, S)) /\ IsFiniteSet(Below(i, S))
      /\ Rank(j, S) \in Nat /\ Rank(j, S) = Cardinality(Below(j, S)) /\ IsFiniteSet(Below(j, S))
  BY Ordered
<1>1. ASSUME Key(i) <= Key(j) PROVE Rank(i, S) <= Rank(j, S)
  <2>1. Below(i, S) \in SUBSET Below(j, S)
    BY <1>0, <1>1 DEF Below
  <2> QED BY <2>1, <1>0, FS_Subset
<1>2. ASSUME Key(i) < Key(j) PROVE Rank(i, S) + 1 <= Rank(j, S)
  <2>1. Below(i, S) \cup {i} \in SUBSET Below(j, S) /\ i \notin Below(i, S)
    BY <1>0, <1>2 DEF Below
  <2>2. Cardinality(Below(i, S) \cup {i}) = Cardinality(Below(i, S)) + 1
    BY <2>1, <1>0, FS_AddElement, Zenon
  <2>3. Cardinality(Below(i, S) \cup {i}) <= Cardinality(Below(j, S))
    BY <2>1, <1>0, FS_Subset
  <2> QED BY <2>2, <2>3, <1>0
<1> QED BY <1>1, <1>2

(* The items of rank less than n are n, unless there are fewer in all.      *)
LEMMA WindowSize ==
    ASSUME Keyed, NEW S, S \subseteq Items, \A i \in S : Exists(i), NEW n \in Nat, NEW i \in S, i \notin Window(n, S)
    PROVE  Cardinality(Window(n, S)) = n
<1> DEFINE W == Window(n, S)
<1>0. /\ IsFiniteSet(S) /\ \A l, m \in S : Key(l) \in Nat /\ (Key(l) = Key(m) => l = m)
      /\ \A l \in S : Rank(l, S) \in Nat /\ Rank(l, S) = Cardinality(Below(l, S)) /\ IsFiniteSet(Below(l, S))
  BY Ordered
<1>w. W \in SUBSET S /\ IsFiniteSet(W) /\ Cardinality(W) \in Nat
  <2>1. W \in SUBSET S
    BY DEF Window
  <2> QED BY <2>1, <1>0, FS_Subset, FS_CardinalityType
<1>1. PICK f \in S \ W : \A l \in S \ W : Key(f) <= Key(l)
  <2> DEFINE T == {Key(l) : l \in S \ W}
  <2>1. T \subseteq Nat /\ T # {}
    BY <1>0
  <2>2. PICK m \in T : \A l \in T : m <= l
    <3> HIDE DEF T
    <3> QED BY <2>1, Least, Zenon
  <2> QED BY <2>2
<1>2. Below(f, S) = W
  <2>1. ASSUME NEW j \in S, Key(j) < Key(f) PROVE j \in W
    BY <2>1, <1>0, <1>1
  <2>2. ASSUME NEW j \in W PROVE Key(j) < Key(f)
    <3>1. j \in S /\ Rank(j, S) < n /\ ~(Rank(f, S) < n)
      BY <1>1 DEF Window
    <3>2. ~(Key(f) <= Key(j))
      BY <3>1, <1>0, <1>1, RankFollows
    <3> QED BY <3>1, <3>2, <1>0, <1>1
  <2> QED BY <2>1, <2>2, <1>w DEF Below
<1>3. Cardinality(W) >= n
  <2>1. Rank(f, S) = Cardinality(W) /\ ~(Rank(f, S) < n)
    BY <1>0, <1>1, <1>2 DEF Window
  <2> QED BY <2>1, <1>w
<1>4. Cardinality(W) <= n
  <2>1. CASE W = {}
    BY <2>1, FS_EmptySet
  <2>2. CASE W # {}
    <3> DEFINE k == [l \in W |-> Key(l)]
    <3>1. k \in [W -> Nat]
      BY <1>0, <1>w
    <3>2. PICK m \in W : \A l \in W : k[l] <= k[m]
      <4> HIDE DEF k, W
      <4> QED BY <3>1, <2>2, <1>w, Greatest
    <3>3. m \in S /\ Rank(m, S) < n /\ \A l \in W : Key(l) <= Key(m)
      BY <3>2 DEF Window
    <3>4. W \in SUBSET (Below(m, S) \cup {m}) /\ m \notin Below(m, S)
      BY <3>3, <1>0, <1>w DEF Below
    <3>5. /\ IsFiniteSet(Below(m, S) \cup {m})
          /\ Cardinality(Below(m, S) \cup {m}) = Rank(m, S) + 1
      BY <3>3, <3>4, <1>0, FS_AddElement, Zenon
    <3>6. Cardinality(W) <= Rank(m, S) + 1
      <4> HIDE DEF W
      <4> QED BY <3>4, <3>5, FS_Subset
    <3> QED BY <3>3, <3>6, <1>0, <1>w
  <2> QED BY <2>1, <2>2
<1> QED BY <1>3, <1>4, <1>w

(* n items before which nothing is left out are the ones of rank less than n.*)
LEMMA WindowOfFirst ==
    ASSUME Keyed, NEW S, S \subseteq Items, \A i \in S : Exists(i), NEW D, D \subseteq S,
           \A i \in D, j \in S : Key(j) < Key(i) => j \in D
    PROVE  D = Window(Cardinality(D), S)
<1>0. /\ IsFiniteSet(S) /\ \A l, m \in S : Key(l) \in Nat /\ (Key(l) = Key(m) => l = m)
      /\ \A l \in S : Rank(l, S) \in Nat /\ Rank(l, S) = Cardinality(Below(l, S)) /\ IsFiniteSet(Below(l, S))
  BY Ordered
<1>1. IsFiniteSet(D) /\ Cardinality(D) \in Nat
  BY <1>0, FS_Subset, FS_CardinalityType
<1>2. ASSUME NEW i \in D PROVE Rank(i, S) < Cardinality(D)
  <2>1. Below(i, S) \in SUBSET (D \ {i}) /\ i \in S
    BY <1>0 DEF Below
  <2>2. IsFiniteSet(D \ {i}) /\ Cardinality(D \ {i}) = Cardinality(D) - 1
    BY <1>1, FS_RemoveElement
  <2>3. Cardinality(Below(i, S)) <= Cardinality(D) - 1
    BY <2>1, <2>2, FS_Subset
  <2> QED BY <2>1, <2>3, <1>0, <1>1
<1>3. ASSUME NEW i \in S, i \notin D PROVE ~(Rank(i, S) < Cardinality(D))
  <2>1. D \in SUBSET Below(i, S)
    <3> SUFFICES ASSUME NEW j \in D PROVE Key(j) < Key(i)
      BY DEF Below
    <3>1. ~(Key(i) < Key(j)) /\ Key(i) # Key(j)
      BY <1>0, <1>3
    <3> QED BY <3>1, <1>0
  <2>2. Cardinality(D) <= Cardinality(Below(i, S))
    BY <2>1, <1>0, FS_Subset
  <2> QED BY <2>2, <1>0, <1>1
<1> QED BY <1>2, <1>3 DEF Window

(* A page is of items that exist and were listed; its token is the key of   *)
(* its last item.                                                           *)
LEMMA PageOfListing ==
    ASSUME Keyed, NEW p
    PROVE  /\ Page(p) \subseteq Listing(p.start) /\ Listing(p.start) \subseteq Items
           /\ \A i \in Listing(p.start) : Exists(i)
           /\ Page(p) = {} => Token(p) = p.token
           /\ Page(p) # {} => \E m \in Page(p) : Token(p) = Key(m) /\ \A i \in Page(p) : Key(i) <= Key(m)
<1>1. Page(p) \subseteq Listing(p.start)
  BY DEF Page, Rest
<1>2. Listing(p.start) \subseteq Items /\ \A i \in Listing(p.start) : Exists(i)
  BY DEF Listing
<1>3. Page(p) = {} => Token(p) = p.token
  BY DEF Token
<1>4. ASSUME Page(p) # {}
      PROVE  \E m \in Page(p) : Token(p) = Key(m) /\ \A i \in Page(p) : Key(i) <= Key(m)
  <2> DEFINE k == [i \in Page(p) |-> Key(i)]
             last == CHOOSE i \in Page(p) : \A j \in Page(p) : Key(j) <= Key(i)
  <2>1. IsFiniteSet(Page(p)) /\ \A i \in Page(p) : Key(i) \in Nat
    BY <1>1, <1>2, Ordered
  <2>2. k \in [Page(p) -> Nat]
    BY <2>1
  <2>3. PICK m \in Page(p) : \A i \in Page(p) : k[i] <= k[m]
    <3> HIDE DEF k
    <3> QED BY <2>1, <2>2, <1>4, Greatest
  <2>4. \A i \in Page(p) : Key(i) <= Key(m)
    BY <2>3
  <2>5. last \in Page(p) /\ \A i \in Page(p) : Key(i) <= Key(last)
    BY <2>4
  <2>6. Token(p) = Key(last)
    BY <1>4 DEF Token
  <2> QED BY <2>5, <2>6, Zenon
<1> QED BY <1>1, <1>2, <1>3, <1>4

Counted(p) == kind = "issues" => p.page \in Nat \ {0} /\ Cardinality(Given(p)) = (p.page - 1) * PerPage

(* Sets with nothing in common add up.                                      *)
LEMMA Apart ==
    ASSUME NEW S, NEW T, IsFiniteSet(S), IsFiniteSet(T), S \cap T = {}
    PROVE  Cardinality(S \cup T) = Cardinality(S) + Cardinality(T)
<1>1. Cardinality(S \cap T) = 0
  BY FS_EmptySet
<1>2. Cardinality(S \cup T) = Cardinality(S) + Cardinality(T) - Cardinality(S \cap T)
  BY FS_Union
<1>3. Cardinality(S) \in Nat /\ Cardinality(T) \in Nat
  BY FS_CardinalityType
<1> QED BY <1>1, <1>2, <1>3

(* The pages given so far are the first of the listing.                     *)
LEMMA GivenIsFirst ==
    ASSUME Keyed, NEW p, p.token \in Nat, Counted(p), kind = "issues"
    PROVE  /\ Given(p) = Window((p.page - 1) * PerPage, Listing(p.start))
           /\ Given(p) \cup Page(p) = Window(p.page * PerPage, Listing(p.start))
           /\ Given(p) \cap Page(p) = {}
           /\ IsFiniteSet(Given(p)) /\ IsFiniteSet(Page(p))
           /\ (p.page - 1) * PerPage \in Nat /\ p.page * PerPage = (p.page - 1) * PerPage + PerPage
<1> DEFINE L == Listing(p.start)
           n == (p.page - 1) * PerPage
<1>0. L \subseteq Items /\ Page(p) \subseteq L /\ \A i \in L : Exists(i)
  BY PageOfListing
<1>1. /\ IsFiniteSet(L) /\ \A i \in L : Key(i) \in Nat /\ Rank(i, L) \in Nat
  BY <1>0, Ordered
<1>2. n \in Nat /\ p.page * PerPage = n + PerPage /\ PerPage \in Nat
  BY PagesAssumption DEF Counted
<1>3. Given(p) \subseteq L /\ \A i \in Given(p), j \in L : Key(j) < Key(i) => j \in Given(p)
  BY <1>1 DEF Given
<1>4. Given(p) = Window(n, L)
  BY <1>0, <1>3, WindowOfFirst DEF Counted
<1>5. Page(p) = {i \in L : Rank(i, L) \in n .. (p.page * PerPage) - 1}
  BY DEF Page
<1> HIDE DEF n
<1>6. Given(p) \cup Page(p) = Window(p.page * PerPage, L) /\ Given(p) \cap Page(p) = {}
  BY <1>1, <1>2, <1>4, <1>5 DEF Window
<1>7. IsFiniteSet(Given(p)) /\ IsFiniteSet(Page(p))
  BY <1>0, <1>1, <1>3, FS_Subset
<1> QED BY <1>2, <1>4, <1>6, <1>7 DEF n

(* A page goes on where the pages before it ended, leaves nothing out, and  *)
(* is not the last one while something is left.                             *)
LEMMA PageIsNext ==
    ASSUME Keyed, NEW p, p.token \in Nat, Counted(p)
    PROVE  /\ Token(p) \in Nat /\ p.token <= Token(p)
           /\ \A i \in Page(p) : p.token < Key(i) /\ Key(i) <= Token(p)
           /\ \A i \in Listing(p.start) : Key(i) <= Token(p) => i \in Given(p) \/ i \in Page(p)
           /\ \A i \in Listing(p.start) : Token(p) < Key(i) => More(p)
<1> DEFINE L == Listing(p.start)
<1>0. /\ L \subseteq Items /\ Page(p) \subseteq L /\ \A i \in L : Exists(i)
      /\ Page(p) = {} => Token(p) = p.token
      /\ Page(p) # {} => \E m \in Page(p) : Token(p) = Key(m) /\ \A i \in Page(p) : Key(i) <= Key(m)
  BY PageOfListing
<1>1. IsFiniteSet(L) /\ \A i \in L : Key(i) \in Nat /\ Rank(i, L) \in Nat
  BY <1>0, Ordered, Zenon
<1>2. \A i \in Page(p) : p.token < Key(i)
  <2>1. CASE kind = "issues"
    <3>1. Given(p) \cap Page(p) = {}
      BY <2>1, GivenIsFirst
    <3>2. \A i \in Page(p) : i \in L /\ i \notin Given(p)
      BY <3>1, <1>0
    <3>3. \A i \in Page(p) : Key(i) \in Nat /\ ~(Key(i) <= p.token)
      BY <3>2, <1>1 DEF Given
    <3> QED BY <3>3
  <2>2. CASE kind # "issues"
    BY <2>2 DEF Page, Rest
  <2> QED BY <2>1, <2>2
<1>3. Token(p) \in Nat /\ p.token <= Token(p) /\ \A i \in Page(p) : Key(i) <= Token(p)
  BY <1>0, <1>1, <1>2
<1>4. ASSUME NEW i \in L, Key(i) <= Token(p) PROVE i \in Given(p) \/ i \in Page(p)
  <2>1. CASE Key(i) <= p.token
    BY <2>1 DEF Given
  <2>2. CASE p.token < Key(i)
    <3>1. PICK m \in Page(p) : Key(i) <= Key(m)
      BY <2>2, <1>0, <1>1, <1>4, SMTT(30)
    <3>2. CASE kind = "issues"
      <4>1. m \in L /\ Rank(m, L) < p.page * PerPage
        BY <3>1, <3>2, <1>0, GivenIsFirst DEF Window
      <4>2. Rank(i, L) <= Rank(m, L)
        BY <3>1, <4>1, <1>0, RankFollows
      <4>3. p.page * PerPage \in Nat
        BY <3>2, PagesAssumption DEF Counted
      <4>4. i \in Window(p.page * PerPage, L)
        BY <4>1, <4>2, <4>3, <1>1 DEF Window
      <4> QED BY <4>4, <3>2, GivenIsFirst, SMTT(30)
    <3>3. CASE kind # "issues"
      <4> DEFINE R == Rest(p)
      <4>1. R \subseteq Items /\ (\A j \in R : Exists(j)) /\ i \in R
        BY <2>2, <1>0 DEF Rest
      <4>2. m \in R /\ Rank(m, R) < PerPage /\ Page(p) = {j \in R : Rank(j, R) < PerPage}
        BY <3>1, <3>3, SMTT(30) DEF Page
      <4>3. Rank(i, R) <= Rank(m, R) /\ Rank(i, R) \in Nat /\ Rank(m, R) \in Nat
        BY <3>1, <4>1, <4>2, RankFollows, Ordered
      <4> QED BY <4>1, <4>2, <4>3, PagesAssumption
    <3> QED BY <3>2, <3>3
  <2> QED BY <2>1, <2>2, <1>1
<1>5. ASSUME NEW i \in L, Token(p) < Key(i) PROVE More(p)
  <2>0. i \notin Given(p) /\ i \notin Page(p)
    BY <1>1, <1>3, <1>5 DEF Given
  <2>1. CASE kind = "issues"
    <3>1. i \notin Window(p.page * PerPage, L) /\ p.page * PerPage \in Nat /\ PerPage \in Nat
      BY <2>0, <2>1, GivenIsFirst, PagesAssumption DEF Counted
    <3>2. Cardinality(Given(p) \cup Page(p)) = p.page * PerPage
      BY <3>1, <2>1, <1>0, GivenIsFirst, WindowSize, Zenon
    <3>3. Cardinality(Given(p) \cup Page(p)) = Cardinality(Given(p)) + Cardinality(Page(p))
      BY <2>1, GivenIsFirst, Apart
    <3>4. Cardinality(Page(p)) \in Nat
      BY <2>1, GivenIsFirst, FS_CardinalityType
    <3>5. Cardinality(Page(p)) = PerPage
      BY <2>1, <3>1, <3>2, <3>3, <3>4, GivenIsFirst DEF Counted
    <3> QED BY <2>1, <3>5 DEF More
  <2>2. CASE kind # "issues"
    <3>1. i \in Rest(p)
      BY <1>1, <1>3, <1>5 DEF Rest
    <3> QED BY <2>0, <2>2, <3>1 DEF More
  <2> QED BY <2>1, <2>2
<1> QED BY <1>2, <1>3, <1>4, <1>5

(* A full page of issues makes one page more.                               *)
LEMMA PageCounts ==
    ASSUME Keyed, NEW p, p.token \in Nat, Counted(p), kind = "issues", More(p)
    PROVE  Cardinality({i \in Listing(p.start) : Key(i) <= Token(p)}) = p.page * PerPage
<1> DEFINE G == {i \in Listing(p.start) : Key(i) <= Token(p)}
<1>1. Page(p) \subseteq Listing(p.start) /\ \A i \in Listing(p.start) : Key(i) \in Nat
  BY PageOfListing, Ordered
<1>2. G = Given(p) \cup Page(p)
  BY <1>1, PageIsNext DEF Given
<1>3. Cardinality(Given(p) \cup Page(p)) = Cardinality(Given(p)) + Cardinality(Page(p))
  BY GivenIsFirst, Apart
<1>4. Cardinality(Page(p)) = PerPage
  BY DEF More
<1> QED BY <1>2, <1>3, <1>4, GivenIsFirst, Zenon DEF Counted

-----------------------------------------------------------------------------
(* The steps of an attempt.                                                 *)

(* q is what NextEntry makes of m: the end of the call, or m at its next    *)
(* entry, its commit or its next page.                                      *)
Follows(m, q) ==
    \/ q = NoAttempt
    \/ /\ q.start = m.start /\ q.high = m.high /\ q.token = m.token
       /\ q.more = m.more /\ q.batch = m.batch /\ q.version = m.version
       /\ \/ q.at = "check" /\ m.batch # {} /\ q.page = m.page
          \/ q.at = "finish" /\ m.batch = {} /\ ~m.more /\ q.page = m.page
          \/ q.at = "page" /\ m.batch = {} /\ m.more /\ q.page = m.page + 1

(* The fields of an attempt that is not running.                            *)
LEMMA NoAttemptFields ==
    /\ NoAttempt \in AttemptSet
    /\ NoAttempt.at = "idle" /\ NoAttempt.start = 0 /\ NoAttempt.high = 0
    /\ NoAttempt.token = 0 /\ NoAttempt.batch = {}
BY IngestBoundsAssumption DEF NoAttempt, AttemptSet, Stamps, Versions

(* Where an attempt goes after an entry.                                    *)
LEMMA NextFollows ==
    ASSUME NEW m \in AttemptSet
    PROVE  NextEntry(m) \in AttemptSet /\ Follows(m, NextEntry(m))
<1>1. /\ [m EXCEPT !.at = "check"] \in AttemptSet
      /\ [m EXCEPT !.at = "finish"] \in AttemptSet
  BY DEF AttemptSet
<1>6. [m EXCEPT !.at = "page", !.page = m.page + 1] \in AttemptSet
  <2>1. m.page + 1 \in Nat
    BY DEF AttemptSet
  <2> QED BY <2>1, Zenon DEF AttemptSet
<1>2. CASE m.batch # {}
  <2>1. NextEntry(m) = [m EXCEPT !.at = "check"]
    BY <1>2 DEF NextEntry
  <2> QED BY <1>1, <1>2, <2>1 DEF Follows, AttemptSet
<1>3. CASE m.batch = {} /\ ~m.more
  <2>1. NextEntry(m) = [m EXCEPT !.at = "finish"]
    BY <1>3 DEF NextEntry, AfterPage
  <2> QED BY <1>1, <1>3, <2>1 DEF Follows, AttemptSet
<1>4. CASE m.batch = {} /\ m.more /\ BudgetSpent(m)
  <2>1. NextEntry(m) = NoAttempt
    BY <1>4 DEF NextEntry, AfterPage
  <2> QED BY <2>1, NoAttemptFields DEF Follows
<1>5. CASE m.batch = {} /\ m.more /\ ~BudgetSpent(m)
  <2>1. NextEntry(m) = [m EXCEPT !.at = "page", !.page = m.page + 1]
    BY <1>5 DEF NextEntry, AfterPage
  <2> QED BY <1>6, <1>5, <2>1, Zenon DEF Follows, AttemptSet
<1> QED BY <1>2, <1>3, <1>4, <1>5

(* What holds of the attempt with a page read or an entry emitted holds of  *)
(* it wherever the loop goes next.                                          *)
LEMMA FollowKeeps ==
    ASSUME NEW m, NEW q, Follows(m, q), m.page \in Nat, m.page >= 1, Lined(m), Reaches(m),
           NEW c, Cursorless(m, c)
    PROVE  Placed(q) /\ Batched(q) /\ Reaches(q) /\ q.at # "commit" /\ Cursorless(q, c)
<1>1. CASE q = NoAttempt
  <2>1. q.at = "idle" /\ q.start = 0 /\ q.high = 0 /\ q.token = 0 /\ q.batch = {}
    BY <1>1, NoAttemptFields
  <2> QED BY <2>1 DEF Placed, Batched, Lined, Reaches, Reached, Cursorless
<1>2. CASE q # NoAttempt
  <2>1. /\ q.start = m.start /\ q.high = m.high /\ q.token = m.token /\ q.batch = m.batch
        /\ q.more = m.more /\ q.at \in {"check", "finish", "page"}
    BY <1>2 DEF Follows
  <2>2. Placed(q)
    BY <1>2, SMTT(30) DEF Follows, Placed
  <2>3. Batched(q)
    BY <2>1, SMTT(30) DEF Batched, Lined
  <2>4. Reaches(q) /\ Cursorless(q, c)
    BY <2>1 DEF Reaches, Cursorless
  <2> QED BY <2>1, <2>2, <2>3, <2>4
<1> QED BY <1>1, <1>2, SMTT(30)

(* It drains its page as it did.                                            *)
LEMMA FollowDrains ==
    ASSUME NEW m, NEW q, NEW c, NEW mf, Follows(m, q), m.page \in Nat, q.at # "idle",
           Draining(m, m.more, m.page, c, mf)
    PROVE  Drains(q, c, mf)
<1>1. /\ q.start = m.start /\ q.high = m.high /\ q.token = m.token /\ q.batch = m.batch
      /\ q.more = m.more /\ q.at \in {"check", "finish", "page"}
      /\ q.at = "page" => q.more /\ q.page = m.page + 1
      /\ q.at # "page" => q.page = m.page
  BY NoAttemptFields DEF Follows
<1>2. Due(q) <=> m.more
  BY <1>1 DEF Due
<1>3. PagesGiven(q) = m.page
  BY <1>1 DEF PagesGiven
<1>4. Given(q) = Given(m)
  BY <1>1, SMTT(30) DEF Given
<1>5. c <= q.high /\ q.start <= c /\ CoveredTo(q.high, mf) /\ Ahead(q) /\ Fresh(q)
  BY <1>1, SMTT(30) DEF Draining, Ahead, Fresh
<1>6. Kept(q, mf)
  BY <1>1, <1>4 DEF Draining, Kept
<1>7. Paged(q, Due(q), PagesGiven(q))
  BY <1>2, <1>3, <1>4, SMTT(30) DEF Draining, Paged
<1>8. Owing(q, Due(q), mf)
  BY <1>1, <1>2, <1>4, SMTT(30) DEF Draining, Owing
<1>9. Taken(q)
  BY <1>1 DEF Taken
<1> QED BY <1>5, <1>6, <1>7, <1>8, <1>9, SMTT(30) DEF Drains, Draining

(* The types, one by one.                                                   *)
LEMMA Typed ==
    ASSUME IInv
    PROVE  /\ edits \in 0..MaxEdits /\ edits \in Nat /\ cursor \in Stamps /\ cursor \in Nat
           /\ committed \in BOOLEAN /\ manifest \in [Items -> Versions]
           /\ objects \subseteq Items \X Versions /\ attempt \in [Attempts -> AttemptSet]
           /\ mishaps \in 0..MaxMishaps /\ Wanted \subseteq Items /\ owed \subseteq Items
<1>1. TypeOK
  BY Zenon DEF IInv
<1>2. /\ edits \in 0..MaxEdits /\ cursor \in Stamps
      /\ committed \in BOOLEAN /\ manifest \in [Items -> Versions]
      /\ objects \subseteq Items \X Versions /\ attempt \in [Attempts -> AttemptSet]
      /\ mishaps \in 0..MaxMishaps /\ owed \subseteq Items
  BY <1>1, Zenon DEF TypeOK
<1>3. edits \in Nat /\ cursor \in Nat
  BY <1>2, IngestBoundsAssumption DEF Stamps
<1>4. Wanted \subseteq Items
  BY DEF Wanted
<1> QED BY <1>2, <1>3, <1>4, Zenon

(* What holds while nothing is disturbed.                                   *)
LEMMA Calm ==
    ASSUME IInv, Undisturbed
    PROVE  /\ CoveredTo(cursor, manifest) /\ (committed => Complete(manifest))
           /\ \A a \in Attempts :
                 attempt[a].at # "idle" => a = Current /\ Drains(attempt[a], cursor, manifest)
BY Zenon DEF IInv, Drained

(* Nothing that is known of the attempts changes while they stand.          *)
LEMMA AttemptsStand ==
    ASSUME IInv, UNCHANGED <<kind, source, cursor, objects, attempt>>
    PROVE  \A a \in Attempts :
              /\ Placed(attempt[a])' /\ Batched(attempt[a])' /\ Reaches(attempt[a])'
              /\ Stored(attempt[a])' /\ Cursorless(attempt[a], cursor)'
<1> SUFFICES ASSUME NEW a \in Attempts
             PROVE  /\ Placed(attempt[a])' /\ Batched(attempt[a])' /\ Reaches(attempt[a])'
                    /\ Stored(attempt[a])' /\ Cursorless(attempt[a], cursor)'
  OBVIOUS
<1>1. /\ Placed(attempt[a]) /\ Batched(attempt[a]) /\ Reaches(attempt[a])
      /\ Stored(attempt[a]) /\ Cursorless(attempt[a], cursor)
  BY Zenon DEF IInv
<1>2. Placed(attempt[a])' /\ Cursorless(attempt[a], cursor)'
  BY <1>1 DEF Placed, Cursorless
<1>3. Batched(attempt[a])'
  BY <1>1, Zenon DEF Batched, Lined, Exists
<1>4. Reaches(attempt[a])'
  BY <1>1, Zenon DEF Reaches, Reached, Exists, Key
<1>5. First(attempt[a])' = First(attempt[a])
  BY DEF First
<1>6. Stored(attempt[a])'
  BY <1>1, <1>5, SMTT(30) DEF Stored
<1> QED BY <1>2, <1>3, <1>4, <1>6

(* One attempt moves and the source stays: what is to be shown.             *)
LEMMA AttemptStep ==
    ASSUME IInv, NEW a \in Attempts, NEW q \in AttemptSet,
           attempt' = [attempt EXCEPT ![a] = q], a = Current \/ attempt[a].at # "idle",
           UNCHANGED <<kind, source, edits, history>>,
           cursor' \in Stamps, committed' \in BOOLEAN, manifest' \in [Items -> Versions],
           objects' \subseteq Items \X Versions, objects \subseteq objects',
           mishaps' \in 0..MaxMishaps,
           Placed(q), Batched(q), Reaches(q), Cursorless(q, cursor'), Reached(cursor'),
           kind = "board" => cursor' = 0,
           q.at = "commit" => <<First(q).item, q.version>> \in objects',
           NoDanglingRow',
           Undisturbed => /\ CoveredTo(cursor', manifest')
                          /\ committed' => Complete(manifest')
                          /\ q.at # "idle" => Drains(q, cursor', manifest')
    PROVE  IInv'
<1>1. /\ attempt \in [Attempts -> AttemptSet]
      /\ attempt' \in [Attempts -> AttemptSet] /\ attempt'[a] = q
      /\ \A b \in Attempts : b # a => attempt'[b] = attempt[b]
  BY SMTT(30) DEF IInv, TypeOK
<1>2. \A b \in Attempts :
         /\ Placed(attempt'[b]) /\ Batched(attempt'[b]) /\ Reaches(attempt'[b])
         /\ Cursorless(attempt'[b], cursor')
         /\ attempt'[b].at = "commit" => <<First(attempt'[b]).item, attempt'[b].version>> \in objects'
  BY <1>1 DEF IInv, Stored, Cursorless
<1>3. \A b \in Attempts : Placed(attempt[b])'
  BY <1>2, Zenon DEF Placed
<1>4. \A b \in Attempts : Batched(attempt[b])' /\ Reaches(attempt[b])' /\ Cursorless(attempt[b], cursor)'
  BY <1>2, ZenonT(60) DEF Batched, Lined, Reaches, Reached, Cursorless, Exists, Key
<1>5. \A b \in Attempts : Stored(attempt[b])'
  BY <1>2, Zenon DEF Stored, First
<1>6. TypeOK'
  <2>1. \A b \in Attempts : attempt'[b].at \in {"check", "put", "commit"} => attempt'[b].batch # {}
    BY <1>2, Zenon DEF Placed
  <2> QED BY <1>1, <2>1, Zenon DEF IInv, TypeOK, history
<1>7. Sourced' /\ Keyed' /\ (kind = "board" => cursor = 0)' /\ Reached(cursor)' /\ (\A i \in owed : Exists(i))'
  BY Zenon DEF IInv, Sourced, Keyed, Reached, Exists, Key, history
<1>8. Drained'
  <2>1. SUFFICES ASSUME Undisturbed
                 PROVE  /\ CoveredTo(cursor, manifest)'
                        /\ committed' => Complete(manifest)'
                        /\ \A b \in Attempts : attempt'[b].at # "idle" =>
                              b = Current' /\ Drains(attempt[b], cursor, manifest)'
    BY DEF Drained, Undisturbed, history
  <2>2. Current' = Current
    BY SMTT(30) DEF Current, history
  <2>3. CoveredTo(cursor, manifest)' /\ (committed' => Complete(manifest)')
    BY <2>1 DEF CoveredTo, Complete, Exists, Wanted, history
  <2>4. ASSUME NEW b \in Attempts, attempt'[b].at # "idle"
        PROVE  b = Current /\ Drains(attempt'[b], cursor', manifest')
    <3>1. a = Current
      BY <2>1, SMTT(30) DEF IInv, Drained
    <3>2. b = a
      BY <1>1, <2>1, <2>4, <3>1, SMTT(30) DEF IInv, Drained
    <3> QED BY <1>1, <2>1, <2>4, <3>1, <3>2, SMTT(30)
  <2>5. ASSUME NEW b \in Attempts, Drains(attempt'[b], cursor', manifest')
        PROVE  Drains(attempt[b], cursor, manifest)'
    <3> DEFINE r == attempt'[b]
    <3>1. /\ Given(attempt[b])' = Given(r) /\ Listing(attempt[b].start)' = Listing(r.start)
          /\ Wanted' = Wanted /\ Due(attempt[b])' = Due(r) /\ PagesGiven(attempt[b])' = PagesGiven(r)
      BY Zenon DEF Given, Listing, Exists, Key, Wanted, Due, PagesGiven
    <3>2. CoveredTo(attempt[b].high, manifest)' /\ Ahead(attempt[b])' /\ Fresh(attempt[b])'
      BY <2>5, <3>1, Zenon DEF Drains, Draining, CoveredTo, Ahead, Fresh, Exists
    <3>3. Kept(attempt[b], manifest)'
      <4>1. kind' = kind /\ source' = source /\ Kept(r, manifest')
        BY <2>5, ZenonT(60) DEF Drains, Draining
      <4>2. CASE kind = "board"
        BY <4>1, <4>2, ZenonT(60) DEF Kept
      <4>3. CASE kind # "board"
        <5>1. \A i \in Listing(r.start) : source[i].stamp < r.high => source[i].at <= r.token
          BY <4>1, <4>3, Zenon DEF Kept
        <5>2. \A i \in Given(r) \cap Wanted :
                 manifest'[i] = source[i].version \/ \E e \in r.batch : e.item = i /\ e.key = source[i].at
          BY <4>1, <4>3, Zenon DEF Kept
        <5>3. ASSUME NEW i \in Listing(attempt[b].start)', source'[i].stamp < r.high
              PROVE  source'[i].at <= r.token
          <6>1. i \in Listing(r.start) /\ source[i].stamp < r.high
            BY <3>1, <4>1, <5>3, Zenon
          <6> QED BY <4>1, <5>1, <6>1, Zenon
        <5>4. ASSUME NEW i \in Given(attempt[b])' \cap Wanted'
              PROVE  manifest'[i] = source'[i].version \/ \E e \in r.batch : e.item = i /\ e.key = source'[i].at
          <6>1. i \in Given(r) \cap Wanted
            BY <3>1, <5>4, Zenon
          <6>2. manifest'[i] = source[i].version \/ \E e \in r.batch : e.item = i /\ e.key = source[i].at
            BY <5>2, <6>1, Zenon
          <6>3. source'[i].version = source[i].version /\ source'[i].at = source[i].at
            BY <4>1, Zenon
          <6>4. CASE manifest'[i] = source[i].version
            BY <6>3, <6>4, Zenon
          <6>5. CASE \E e \in r.batch : e.item = i /\ e.key = source[i].at
            <7>1. PICK e \in r.batch : e.item = i /\ e.key = source[i].at
              BY <6>5, Zenon
            <7>2. e.item = i /\ e.key = source'[i].at
              BY <6>3, <7>1, Zenon
            <7> QED BY <7>1, <7>2, Zenon
          <6> QED BY <6>2, <6>4, <6>5, Zenon
        <5> QED BY <5>3, <5>4, Zenon DEF Kept
      <4> QED BY <4>2, <4>3
    <3>4. Paged(attempt[b], Due(attempt[b]), PagesGiven(attempt[b]))'
      BY <2>5, <3>1 DEF Drains, Draining, Paged
    <3>5. Owing(attempt[b], Due(attempt[b]), manifest)'
      BY <2>5, <3>1, Zenon DEF Drains, Draining, Owing, history
    <3>6. Taken(attempt[b])'
      BY <2>5, <3>1, Zenon DEF Drains, Taken, First
    <3>7. (cursor <= attempt[b].high /\ attempt[b].start <= cursor)'
      BY <2>5 DEF Drains, Draining
    <3> QED BY <3>2, <3>3, <3>4, <3>5, <3>6, <3>7, SMTT(30) DEF Drains, Draining
  <2> QED BY <2>2, <2>3, <2>4, <2>5, SMTT(30)
<1> QED BY <1>3, <1>4, <1>5, <1>6, <1>7, <1>8, SMTT(30) DEF IInv

(* An attempt begins.                                                       *)
LEMMA BeginKept == ASSUME IInv, NEW a \in Attempts, Begin(a) PROVE IInv'
<1> DEFINE q == [NoAttempt EXCEPT !.at = "page", !.start = cursor, !.high = cursor, !.page = 1]
<1>1. /\ q.at = "page" /\ q.start = cursor /\ q.high = cursor /\ q.page = 1
      /\ q.token = 0 /\ q.more = FALSE /\ q.batch = {}
  BY DEF NoAttempt
<1>2. q \in AttemptSet
  <2>1. cursor \in Stamps /\ 0 \in Stamps /\ 0 \in Versions
    BY IngestBoundsAssumption DEF Stamps, Versions, IInv, TypeOK
  <2>2. \A m \in AttemptSet :
           [m EXCEPT !.at = "page", !.start = cursor, !.high = cursor, !.page = 1] \in AttemptSet
    BY <2>1, Zenon DEF AttemptSet
  <2> QED BY <2>2, NoAttemptFields, Zenon
<1>3. attempt' = [attempt EXCEPT ![a] = q] /\ a = Current
  BY SMTT(30) DEF Begin
<1> HIDE DEF q
<1>4. Placed(q) /\ Batched(q) /\ Reaches(q) /\ Cursorless(q, cursor) /\ q.at # "commit"
  BY <1>1 DEF Placed, Batched, Lined, Reaches, Cursorless, IInv
<1>5. ASSUME Undisturbed PROVE Drains(q, cursor, manifest)
  <2>1. cursor \in Nat /\ CoveredTo(cursor, manifest)
    BY <1>5, SMTT(30) DEF IInv, TypeOK, Stamps, Drained
  <2>2. Given(q) = {} /\ Due(q) /\ PagesGiven(q) = 0
    BY <1>1 DEF Given, Due, PagesGiven, IInv, Keyed, Listing
  <2>3. CoveredTo(q.high, manifest) /\ cursor <= q.high /\ q.start <= cursor
    BY <1>1, <2>1, SMTT(30)
  <2>4. Ahead(q) /\ Fresh(q) /\ Taken(q)
    BY <1>1, SMTT(30) DEF Ahead, Fresh, Taken
  <2>5. Kept(q, manifest)
    <3>1. \A i \in Items : source[i].stamp \in Nat
      BY DEF IInv, Sourced
    <3>2. kind # "board" => \A i \in Listing(q.start) : i \in Items /\ source[i].stamp >= cursor
      BY <1>1 DEF Listing
    <3> QED BY <1>1, <2>1, <2>2, <3>1, <3>2, SMTT(30) DEF Kept
  <2>6. Paged(q, Due(q), PagesGiven(q))
    <3>1. 0 * PerPage = 0
      BY PagesAssumption, SMTT(30)
    <3> QED BY <2>2, <3>1, FS_EmptySet DEF Paged
  <2>7. Owing(q, Due(q), manifest)
    <3>1. SUFFICES ASSUME NEW i \in owed \cap Wanted
                   PROVE  manifest[i] # 0 \/ (i \in Listing(q.start) \ Given(q) /\ Due(q))
      BY SMTT(30) DEF Owing
    <3>2. /\ i \in Items /\ Exists(i) /\ source[i].stamp \in Nat
          /\ source[i].version \in Nat /\ source[i].version >= 1
      BY SMTT(30) DEF IInv, TypeOK, Sourced
    <3>3. CASE kind = "board" \/ source[i].stamp >= cursor
      BY <3>2, <3>3, <2>2, <1>1, SMTT(30) DEF Listing
    <3>4. CASE source[i].stamp < cursor
      <4>1. manifest[i] = source[i].version
        BY <3>2, <3>4, <2>1 DEF CoveredTo
      <4> QED BY <3>2, <4>1, SMTT(30)
    <3> QED BY <3>2, <3>3, <3>4, <2>1, SMTT(30)
  <2> QED BY <2>3, <2>4, <2>5, <2>6, <2>7, SMTT(30) DEF Drains, Draining
<1>6. /\ UNCHANGED <<kind, source, edits, history, cursor, committed, manifest, objects, mishaps>>
  BY DEF Begin, unitRow
<1>7. /\ cursor \in Stamps /\ committed \in BOOLEAN /\ manifest \in [Items -> Versions]
      /\ objects \subseteq Items \X Versions /\ mishaps \in 0..MaxMishaps
      /\ Reached(cursor) /\ (kind = "board" => cursor = 0)
      /\ Undisturbed => CoveredTo(cursor, manifest) /\ (committed => Complete(manifest))
  BY Zenon DEF IInv, TypeOK, Drained
<1>8. NoDanglingRow'
  BY <1>6 DEF IInv, NoDanglingRow
<1> QED
  <2>1. Reached(cursor')
    BY <1>6, <1>7
  <2> HIDE DEF NoDanglingRow
  <2> QED BY <1>2, <1>3, <1>4, <1>5, <1>6, <1>7, <1>8, <2>1, AttemptStep, Zenon

(* An attempt that ends.                                                    *)
LEMMA EndKept ==
    ASSUME IInv, NEW a \in Attempts, attempt[a].at # "idle",
           attempt' = [attempt EXCEPT ![a] = NoAttempt],
           UNCHANGED <<kind, source, edits, history, cursor, manifest, objects>>,
           committed' \in BOOLEAN, mishaps' \in 0..MaxMishaps,
           Undisturbed /\ committed' => Complete(manifest)
    PROVE  IInv'
<1> DEFINE q == NoAttempt
<1>1. /\ q \in AttemptSet
      /\ q.at = "idle" /\ q.start = 0 /\ q.high = 0 /\ q.token = 0 /\ q.batch = {}
  BY NoAttemptFields, SMTT(30)
<1> HIDE DEF q
<1>2. Placed(q) /\ Batched(q) /\ Reaches(q) /\ q.at # "commit"
  BY <1>1 DEF Placed, Batched, Lined, Reaches, Reached
<1>3. /\ cursor \in Stamps /\ manifest \in [Items -> Versions] /\ objects \subseteq Items \X Versions
      /\ Reached(cursor) /\ (kind = "board" => cursor = 0)
      /\ Undisturbed => CoveredTo(cursor, manifest)
  BY Zenon DEF IInv, TypeOK, Drained
<1>4. Cursorless(q, cursor)
  BY <1>1, <1>3 DEF Cursorless
<1>5. NoDanglingRow'
  BY Zenon DEF IInv, NoDanglingRow
<1>6. attempt' = [attempt EXCEPT ![a] = q]
  BY DEF q
<1>7. Reached(cursor') /\ CoveredTo(cursor', manifest') = CoveredTo(cursor, manifest)
  BY <1>3
<1> QED BY <1>1, <1>2, <1>3, <1>4, <1>5, <1>6, <1>7, AttemptStep, ZenonT(60)

(* The unit is committed at the end of a full pass.                         *)
LEMMA CommitUnitKept == ASSUME IInv, NEW a \in Attempts, CommitUnit(a) PROVE IInv'
<1> DEFINE p == attempt[a]
<1>1. p.at = "finish" /\ attempt' = [attempt EXCEPT ![a] = NoAttempt] /\ committed' = TRUE
  BY DEF CommitUnit
<1>2. UNCHANGED <<kind, source, edits, history, cursor, manifest, objects, mishaps>>
  BY SMTT(30) DEF CommitUnit
<1>3. mishaps' \in 0..MaxMishaps
  BY <1>2, SMTT(30) DEF IInv, TypeOK
<1>4. p.batch = {} /\ ~p.more
  BY <1>1, SMTT(30) DEF IInv, Placed
<1>5. Undisturbed => Owing(p, Due(p), manifest)
  BY <1>1 DEF IInv, Drained, Drains, Draining
<1>6. ~Due(p)
  BY <1>1, <1>4, SMTT(30) DEF Due
<1> HIDE DEF p
<1>7. Undisturbed => Complete(manifest)
  BY <1>4, <1>5, <1>6 DEF Owing, Complete
<1> QED BY <1>1, <1>2, <1>3, <1>7, EndKept, Zenon DEF p

(* An attempt is cut short.                                                 *)
LEMMA CutShortKept == ASSUME IInv, NEW a \in Attempts, CutShort(a) PROVE IInv'
<1>1. attempt[a].at # "idle" /\ attempt' = [attempt EXCEPT ![a] = NoAttempt]
  BY DEF CutShort
<1>2. UNCHANGED <<kind, source, edits, history, cursor, manifest, objects, committed>>
  BY SMTT(30) DEF CutShort, unitRow
<1>3. committed' \in BOOLEAN /\ mishaps' \in 0..MaxMishaps
  BY <1>2, IngestBoundsAssumption, SMTT(30) DEF CutShort, IInv, TypeOK
<1>4. Undisturbed /\ committed' => Complete(manifest)
  BY <1>2 DEF IInv, Drained
<1> QED BY <1>1, <1>2, <1>3, <1>4, EndKept, Zenon

(* An attempt is given up while it still runs.                              *)
LEMMA MissHeartbeatKept == ASSUME IInv, NEW a \in Attempts, MissHeartbeat(a) PROVE IInv'
<1>1. UNCHANGED <<kind, source, edits, cursor, committed, manifest, objects, attempt, moved, owed>>
  BY DEF MissHeartbeat, unitRow
<1>2. late' = late \cup {a} /\ mishaps' = mishaps + 1 /\ mishaps < MaxMishaps
  BY SMTT(30) DEF MissHeartbeat
<1>3. TypeOK'
  BY <1>1, <1>2, IngestBoundsAssumption, SMTT(30) DEF IInv, TypeOK
<1>4. Sourced' /\ Keyed' /\ (kind = "board" => cursor = 0)' /\ Reached(cursor)' /\ (\A i \in owed : Exists(i))'
  BY <1>1, SMTT(30) DEF IInv, Sourced, Keyed, Reached, Exists, Key
<1>5. \A b \in Attempts :
         /\ Placed(attempt[b])' /\ Batched(attempt[b])' /\ Reaches(attempt[b])'
         /\ Stored(attempt[b])' /\ Cursorless(attempt[b], cursor)'
  BY <1>1, AttemptsStand, SMTT(30)
<1>7. NoDanglingRow'
  BY <1>1 DEF IInv, NoDanglingRow
<1>8. Drained'
  BY <1>2, Zenon DEF Drained, Undisturbed
<1> QED BY <1>3, <1>4, <1>5, <1>7, <1>8, ZenonT(60) DEF IInv
=============================================================================
