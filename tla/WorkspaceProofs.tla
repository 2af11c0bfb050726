--------------------------- MODULE WorkspaceProofs ---------------------------
(* What the pages of the signed-in application say is so, for any sources,  *)
(* files, page sizes and numbers of visits, calls, failures and events:     *)
(* lemmas about the breadcrumb and about how ages, intervals and totals are *)
(* put into words, and the pages on top of the inductive invariant.         *)
EXTENDS WorkspaceInvariant, FiniteSetTheorems

-----------------------------------------------------------------------------
(* The trail.                                                               *)

Home == Crumb("home", <<"home">>)

LEMMA Joined ==
    ASSUME NEW a, NEW b, NEW c, NEW d
    PROVE  /\ <<a>> \o <<>> = <<a>> /\ <<a>> \o <<b>> = <<a, b>>
           /\ <<a, b>> \o <<c>> = <<a, b, c>>
           /\ <<a, b>> \o <<c, d>> = <<a, b, c, d>>
<1>0. <<a>> \o <<>> = <<a>>
  OBVIOUS
<1>1. <<a>> \o <<b>> = <<a, b>>
  <2> DEFINE s == <<a>> \o <<b>>
  <2>1. s \in Seq({a, b}) /\ Len(s) = 2 /\ s[1] = a /\ s[2] = b
    OBVIOUS
  <2> HIDE DEF s
  <2>2. s = <<a, b>>
    BY <2>1
  <2> QED BY <2>2 DEF s
<1>2. <<a, b>> \o <<c>> = <<a, b, c>>
  <2> DEFINE s == <<a, b>> \o <<c>>
  <2>1. s \in Seq({a, b, c}) /\ Len(s) = 3 /\ s[1] = a /\ s[2] = b /\ s[3] = c
    OBVIOUS
  <2> HIDE DEF s
  <2>2. s = <<a, b, c>>
    BY <2>1
  <2> QED BY <2>2 DEF s
<1>3. <<a, b>> \o <<c, d>> = <<a, b, c, d>>
  <2> DEFINE s == <<a, b>> \o <<c, d>>
  <2>1. s \in Seq({a, b, c, d}) /\ Len(s) = 4 /\ s[1] = a /\ s[2] = b /\ s[3] = c /\ s[4] = d
    OBVIOUS
  <2> HIDE DEF s
  <2>2. s = <<a, b, c, d>>
    BY <2>1
  <2> QED BY <2>2 DEF s
<1> QED BY <1>0, <1>1, <1>2, <1>3, SMTT(30)

(* The labels of a trail.                                                   *)
Labels(t) == [i \in DOMAIN t |-> t[i].label]

(* The trail u is t up to its crumb i.                                      *)
UpTo(u, t, i) ==
    /\ DOMAIN u = 1..i
    /\ \A j \in 1..i : u[j].label = t[j].label

(* Following the crumb i shows the trail up to it.                          *)
Leads(t, i) == t[i].href # NoHref /\ UpTo(buildCrumbs(t[i].href), t, i)

LEMMA LabelsUpTo ==
    ASSUME NEW S, NEW t \in Seq(S), NEW i \in 1..(Len(t) - 1), NEW u, UpTo(u, t, i)
    PROVE  Labels(u) = SubSeq(Labels(t), 1, i)
<1> DEFINE L == {x.label : x \in S}
           s == SubSeq(Labels(t), 1, i)
<1>1. Labels(t) \in Seq(L) /\ Len(Labels(t)) = Len(t) /\ \A j \in 1..i : Labels(t)[j] = t[j].label
  BY DEF Labels
<1>2. s = [j \in 1..i |-> Labels(t)[j]]
  BY <1>1
<1>3. Labels(u) = [j \in 1..i |-> t[j].label]
  BY DEF Labels, UpTo
<1> QED BY <1>1, <1>2, <1>3, SMTT(30)

(* The trails there are.                                                    *)
LEMMA Trails ==
    /\ \A p \in {"home", "consent"} : buildCrumbs(<<p>>) = <<Home>>
    /\ \A key \in NAV \cup EXTRA : buildCrumbs(<<key>>) = <<Home, Crumb(key, NoHref)>>
    /\ buildCrumbs(<<"sources", "new">>) =
          <<Home, Crumb("sources", <<"sources">>), Crumb("new", NoHref)>>
    /\ buildCrumbs(<<"sources", "new", "github_pat">>) =
          <<Home, Crumb("sources", <<"sources">>), Crumb("new", <<"sources", "new">>), Detail(NoHref)>>
    /\ \A id \in Conns : buildCrumbs(<<"sources", id>>) =
          <<Home, Crumb("sources", <<"sources">>), Detail(NoHref)>>
    /\ \A id \in Conns : buildCrumbs(<<"sources", id, "manage">>) =
          <<Home, Crumb("sources", <<"sources">>), Detail(<<"sources", id>>), Crumb("manage", NoHref)>>
    /\ \A id : buildCrumbs(<<"files", id>>) =
          <<Home, Crumb("files", <<"files">>), Detail(NoHref)>>
<1> DEFINE sources == Crumb("sources", <<"sources">>)
<1>1. \A p \in {"home", "consent"} : buildCrumbs(<<p>>) = <<Home>>
  BY DEF buildCrumbs, NAV, EXTRA, Home
<1>2. ASSUME NEW key \in NAV \cup EXTRA PROVE buildCrumbs(<<key>>) = <<Home, Crumb(key, NoHref)>>
  BY DEF buildCrumbs, Home
<1>3. buildCrumbs(<<"sources", "new">>) = <<Home, sources, Crumb("new", NoHref)>>
  <2>1. buildCrumbs(<<"sources", "new">>) = <<Home, sources>> \o (<<Crumb("new", NoHref)>> \o <<>>)
    BY DEF buildCrumbs, Home, NAV
  <2> QED BY <2>1, Joined, SMTT(30)
<1>4. buildCrumbs(<<"sources", "new", "github_pat">>) =
          <<Home, sources, Crumb("new", <<"sources", "new">>), Detail(NoHref)>>
  <2>1. buildCrumbs(<<"sources", "new", "github_pat">>) =
          <<Home, sources>> \o (<<Crumb("new", <<"sources", "new">>)>> \o <<Detail(NoHref)>>)
    BY DEF buildCrumbs, Home, NAV
  <2> QED BY <2>1, Joined, SMTT(30)
<1>5. ASSUME NEW id \in Conns
      PROVE  buildCrumbs(<<"sources", id>>) = <<Home, sources, Detail(NoHref)>>
  <2>1. buildCrumbs(<<"sources", id>>) = <<Home, sources>> \o <<Detail(NoHref)>>
    BY ShellAssumption DEF buildCrumbs, Home, NAV, Conns
  <2> QED BY <2>1, Joined, SMTT(30)
<1>6. ASSUME NEW id \in Conns
      PROVE  buildCrumbs(<<"sources", id, "manage">>) =
               <<Home, sources, Detail(<<"sources", id>>), Crumb("manage", NoHref)>>
  <2>1. buildCrumbs(<<"sources", id, "manage">>) =
          <<Home, sources>> \o <<Detail(<<"sources", id>>), Crumb("manage", NoHref)>>
    BY ShellAssumption DEF buildCrumbs, Home, NAV, Conns, SourceCrumb
  <2> QED BY <2>1, Joined, SMTT(30)
<1>7. ASSUME NEW id
      PROVE  buildCrumbs(<<"files", id>>) = <<Home, Crumb("files", <<"files">>), Detail(NoHref)>>
  <2>1. buildCrumbs(<<"files", id>>) = <<Home, Crumb("files", <<"files">>)>> \o <<Detail(NoHref)>>
    BY DEF buildCrumbs, Home, NAV
  <2> QED BY <2>1, Joined, SMTT(30)
<1> QED BY <1>1, <1>2, <1>3, <1>4, <1>5, <1>6, <1>7, SMTT(30)

LEMMA CrumbsLead ==
    /\ \A t : t[1] = Home => Leads(t, 1)
    /\ \A t : \A key \in NAV : t[1] = Home /\ t[2] = Crumb(key, <<key>>) => Leads(t, 2)
    /\ \A t : /\ t[1] = Home /\ t[2] = Crumb("sources", <<"sources">>)
              /\ \/ t[3] = Crumb("new", <<"sources", "new">>)
                 \/ \E id \in Conns : t[3] = Detail(<<"sources", id>>)
              => Leads(t, 3)
<1>1. ASSUME NEW t, t[1] = Home
      PROVE  Leads(t, 1)
  <2>1. t[1].href = <<"home">> /\ t[1].href # NoHref
    BY <1>1 DEF Home, Crumb, NoHref
  <2>2. buildCrumbs(t[1].href) = <<Home>>
    BY <2>1, Trails, ZenonT(60)
  <2> QED BY <1>1, <2>1, <2>2, SMTT(30) DEF Leads, UpTo
<1>2. ASSUME NEW t, NEW key \in NAV, t[1] = Home, t[2] = Crumb(key, <<key>>)
      PROVE  Leads(t, 2)
  <2>1. t[2].href = <<key>> /\ t[2].href # NoHref /\ t[2].label = Crumb(key, NoHref).label
    BY <1>2 DEF Crumb, NoHref
  <2>2. buildCrumbs(t[2].href) = <<Home, Crumb(key, NoHref)>>
    BY <2>1, Trails, ZenonT(60)
  <2> QED BY <1>2, <2>1, <2>2, SMTT(30) DEF Leads, UpTo
<1>3. ASSUME NEW t, t[1] = Home, t[2] = Crumb("sources", <<"sources">>),
             \/ t[3] = Crumb("new", <<"sources", "new">>)
             \/ \E id \in Conns : t[3] = Detail(<<"sources", id>>)
      PROVE  Leads(t, 3)
  <2>1. PICK c : /\ t[3].href # NoHref /\ t[3].label = c.label
                 /\ buildCrumbs(t[3].href) = <<Home, Crumb("sources", <<"sources">>), c>>
    <3>1. CASE t[3] = Crumb("new", <<"sources", "new">>)
      <4>1. /\ t[3].href = <<"sources", "new">> /\ t[3].href # NoHref
            /\ t[3].label = Crumb("new", NoHref).label
        BY <3>1 DEF Crumb, NoHref
      <4> QED BY <4>1, Trails, ZenonT(60)
    <3>2. CASE \E id \in Conns : t[3] = Detail(<<"sources", id>>)
      <4>1. PICK id \in Conns : t[3] = Detail(<<"sources", id>>)
        BY <3>2
      <4>2. /\ t[3].href = <<"sources", id>> /\ t[3].href # NoHref
            /\ t[3].label = Detail(NoHref).label
        BY <4>1, SMTT(30) DEF Detail, NoHref
      <4> QED BY <4>2, Trails, Zenon
    <3> QED BY <1>3, <3>1, <3>2, SMTT(30)
  <2> DEFINE u == buildCrumbs(t[3].href)
  <2>2. DOMAIN u = 1..3 /\ u[1] = Home /\ u[2] = Crumb("sources", <<"sources">>) /\ u[3] = c
    BY <2>1, SMTT(30)
  <2> HIDE DEF u
  <2>3. UpTo(u, t, 3)
    BY <1>3, <2>1, <2>2, SMTT(30) DEF UpTo
  <2> QED BY <2>1, <2>3, SMTT(30) DEF Leads, u
<1> QED BY <1>1, <1>2, <1>3, SMTT(30)

(* Every crumb but the last leads to the trail up to it.                    *)
Nests(t) == (\E S : t \in Seq(S)) /\ \A i \in 1..(Len(t) - 1) : Leads(t, i)

LEMMA PlacesNest ==
    ASSUME NEW r \in Places
    PROVE  Nests(buildCrumbs(Path(r)))
<1> DEFINE t == buildCrumbs(Path(r))
<1>1. r.at \in Signed \cup {"consent"} /\ (r.at \in {"detail", "manage"} => r.id \in Conns)
  BY PlaceFacts
<1>2. CASE r.at \in {"home", "consent"}
  <2>1. t = <<Home>>
    BY <1>2, Trails, SMTT(30) DEF Path
  <2>2. t \in Seq({Home}) /\ Len(t) = 1
    BY <2>1
  <2> QED BY <2>2, SMTT(30) DEF Nests
<1>3. CASE r.at \in {"list", "account", "files", "audit", "members", "settings"}
  <2>1. PICK key \in NAV \cup EXTRA : Path(r) = <<key>>
    BY <1>3, SMTT(30) DEF Path, NAV, EXTRA
  <2>2. t = <<Home, Crumb(key, NoHref)>>
    BY <2>1, Trails, SMTT(30)
  <2>3. t \in Seq({Home, Crumb(key, NoHref)}) /\ Len(t) = 2 /\ t[1] = Home
    BY <2>2, SMTT(30)
  <2> QED BY <2>3, CrumbsLead, SMTT(30) DEF Nests
<1>4. CASE r.at \in {"detail", "file", "new"}
  <2>1. PICK key \in NAV : \E c : t = <<Home, Crumb(key, <<key>>), c>>
    <3>1. CASE r.at = "detail"
      BY <1>1, <3>1, Trails, SMTT(30) DEF Path, NAV
    <3>2. CASE r.at = "file"
      BY <1>1, <3>2, Trails, SMTT(30) DEF Path, NAV
    <3>3. CASE r.at = "new"
      BY <1>1, <3>3, Trails, SMTT(30) DEF Path, NAV
    <3> QED BY <1>4, <3>1, <3>2, <3>3, ZenonT(60)
  <2>2. PICK c : t = <<Home, Crumb(key, <<key>>), c>>
    BY <2>1
  <2>3. /\ t \in Seq({Home, Crumb(key, <<key>>), c}) /\ Len(t) = 3
        /\ t[1] = Home /\ t[2] = Crumb(key, <<key>>)
    BY <2>2
  <2>4. Leads(t, 1) /\ Leads(t, 2)
    BY <2>3, CrumbsLead, ZenonT(60)
  <2> HIDE DEF t
  <2>5. Nests(t)
    BY <2>3, <2>4, SMTT(30) DEF Nests
  <2> QED BY <2>5 DEF t
<1>5. CASE r.at \in {"connect", "manage"}
  <2> DEFINE s == Crumb("sources", <<"sources">>)
             At3(c) == \/ c = Crumb("new", <<"sources", "new">>)
                       \/ \E id \in Conns : c = Detail(<<"sources", id>>)
  <2>1. PICK c, d : t = <<Home, s, c, d>> /\ At3(c)
    <3>1. CASE r.at = "connect"
      BY <3>1, Trails, SMTT(30) DEF Path
    <3>2. CASE r.at = "manage"
      BY <1>1, <3>2, Trails, ZenonT(60) DEF Path
    <3> QED BY <1>5, <3>1, <3>2, SMTT(30)
  <2>2. /\ t \in Seq({Home, s, c, d}) /\ Len(t) = 4
        /\ t[1] = Home /\ t[2] = s /\ t[3] = c
    BY <2>1, SMTT(30)
  <2>3. Leads(t, 1)
    BY <2>2, CrumbsLead, SMTT(30)
  <2>4. Leads(t, 2)
    BY <2>2, CrumbsLead, SMTT(30) DEF NAV
  <2>5. Leads(t, 3)
    BY <2>1, <2>2, CrumbsLead, SMTT(30)
  <2> HIDE DEF t
  <2>6. Nests(t)
    BY <2>2, <2>3, <2>4, <2>5, SMTT(30) DEF Nests
  <2> QED BY <2>6, SMTT(30) DEF t
<1> QED BY <1>1, <1>2, <1>3, <1>4, <1>5, SMTT(30) DEF Signed

LEMMA TrailHolds == ASSUME route \in Places PROVE TrailNests
<1> DEFINE t == buildCrumbs(Path(route))
<1>1. PICK S : t \in Seq(S) /\ \A i \in 1..(Len(t) - 1) : Leads(t, i)
  BY PlacesNest, SMTT(30) DEF Nests
<1>2. ASSUME NEW i \in 1..(Len(t) - 1)
      PROVE  /\ t[i].href # NoHref
             /\ Labels(buildCrumbs(t[i].href)) = SubSeq(Labels(t), 1, i)
  <2>1. t[i].href # NoHref /\ UpTo(buildCrumbs(t[i].href), t, i)
    BY <1>1 DEF Leads
  <2> QED BY <1>1, <2>1, LabelsUpTo, SMTT(30)
<1> QED BY <1>2, Zenon DEF TrailNests, Labels

-----------------------------------------------------------------------------
(* How values are put into words.                                           *)

LEMMA TotalOfOne ==
    ASSUME NEW p, NEW f, NEW v \in Nat, v = IF p.selected THEN p[f] ELSE 0
    PROVE  Total(<<p>>, f) = v
<1> DEFINE s == <<p>>
           Sums(g) == g = [i \in 0..Len(s) |->
                             IF i = 0 THEN 0
                             ELSE (IF s[i].selected THEN s[i][f] ELSE 0) + g[i - 1]]
           Plus == CHOOSE g : Sums(g)
           sums == [i \in 0..1 |-> IF i = 0 THEN 0 ELSE v]
<1>1. Len(s) = 1 /\ s[1] = p
  OBVIOUS
<1>2. Sums(sums)
  BY <1>1, SMTT(30)
<1>3. Sums(Plus)
  BY <1>2
<1>4. Total(s, f) = Plus[Len(s)]
  BY DEF Total
<1> HIDE DEF Plus
<1>5. Plus[1] = v
  BY <1>1, <1>3, SMTT(30)
<1> QED BY <1>1, <1>4, <1>5, SMTT(30)

LEMMA TotalOfTwo ==
    ASSUME NEW p, NEW q, NEW f, NEW u \in Nat, u = (IF p.selected THEN p[f] ELSE 0),
           NEW v \in Nat, v = (IF q.selected THEN q[f] ELSE 0)
    PROVE  Total(<<p, q>>, f) = u + v
<1> DEFINE s == <<p, q>>
           Sums(g) == g = [i \in 0..Len(s) |->
                             IF i = 0 THEN 0
                             ELSE (IF s[i].selected THEN s[i][f] ELSE 0) + g[i - 1]]
           Plus == CHOOSE g : Sums(g)
           sums == [i \in 0..2 |-> IF i = 0 THEN 0 ELSE IF i = 1 THEN u ELSE v + u]
<1>1. Len(s) = 2 /\ s[1] = p /\ s[2] = q
  OBVIOUS
<1>2. Sums(sums)
  BY <1>1, SMTT(30)
<1>3. Sums(Plus)
  BY <1>2
<1>4. Total(s, f) = Plus[Len(s)]
  BY SMTT(30) DEF Total
<1> HIDE DEF Plus
<1>5. Plus[0] = 0 /\ Plus[1] = u + Plus[0] /\ Plus[2] = v + Plus[1]
  BY <1>1, <1>3, SMTT(30)
<1> QED BY <1>1, <1>4, <1>5, SMTT(30)

LEMMA TotalsHold == TotalsAreOfTheList
<1> SUFFICES ASSUME NEW p \in ProjectRows, NEW q \in ProjectRows, ~q.selected
             PROVE  /\ ItemsSynced(<<p, q>>) = ItemsSynced(<<p>>)
                    /\ p.selected => ItemsSynced(<<p, q>>) = progressLabel(p)
  BY ZenonT(60) DEF TotalsAreOfTheList
<1> DEFINE n(f) == IF p.selected THEN p[f] ELSE 0
<1>1. n("count") \in Nat /\ n("estimate") \in Nat
  BY DEF ProjectRows
<1>2. Total(<<p>>, "count") = n("count") /\ Total(<<p>>, "estimate") = n("estimate")
  BY <1>1, TotalOfOne, SMTT(30)
<1>3. Total(<<p, q>>, "count") = n("count") + 0 /\ Total(<<p, q>>, "estimate") = n("estimate") + 0
  BY <1>1, TotalOfTwo, SMTT(30)
<1>4. /\ ItemsSynced(<<p>>) = IF n("estimate") > 0 THEN <<n("count"), n("estimate")>> ELSE <<n("count")>>
      /\ ItemsSynced(<<p, q>>) = ItemsSynced(<<p>>)
  BY <1>1, <1>2, <1>3, SMTT(30) DEF ItemsSynced
<1>5. p.selected => n("estimate") = p.estimate /\ n("count") = p.count
  BY DEF ProjectRows
<1>6. p.count \in Nat
  BY SMTT(30) DEF ProjectRows
<1> QED BY <1>4, <1>5, <1>6, SMTT(30) DEF progressLabel

(* The page of a source (humanizeInterval, sources/[id]/page.tsx:334) and   *)
(* the editor of its schedule (decompose, sync-schedule.tsx:26) say the     *)
(* same of every interval the server stores, however long.                  *)
THEOREM SaidTheSame ==
    ASSUME NEW s \in Nat, s >= minSyncIntervalSeconds
    PROVE  humanizeInterval(s) = Phrase(decompose(s).value \div 2, decompose(s).unit)
<1> DEFINE even == {u \in UNITS : s % u = 0}
           Largest(u) == u \in even /\ \A v \in even : v <= u
           top == CHOOSE u \in even : \A v \in even : v <= u
<1>1. ASSUME NEW u, Largest(u)
      PROVE  top = u
  <2>1. \E x \in even : \A v \in even : v <= x
    BY <1>1, SMTT(30)
  <2>2. Largest(top)
    BY <2>1, SMTT(30)
  <2>3. even \subseteq Nat
    BY SMTT(30) DEF UNITS
  <2> HIDE DEF even, top
  <2> QED BY <1>1, <2>2, <2>3, SMTT(30)
<1>2. ASSUME NEW u, Largest(u)
      PROVE  decompose(s) = [value |-> 2 * (s \div u), unit |-> u]
  <2>1. even # {} /\ top = u
    BY <1>1, <1>2, SMTT(30)
  <2>2. decompose(s) = [value |-> 2 * (s \div top), unit |-> top]
    BY <2>1, SMTT(30) DEF decompose
  <2> QED BY <2>1, <2>2, ZenonT(60)
<1>3. CASE s % 86400 = 0
  <2>1. Largest(86400)
    BY <1>3, SMTT(30) DEF UNITS
  <2>2. decompose(s) = [value |-> 2 * (s \div 86400), unit |-> 86400]
    BY <1>2, <2>1, SMTT(30)
  <2> QED BY <1>3, <2>2, SMTT(30) DEF humanizeInterval, Phrase, DAY
<1>4. CASE s % 86400 # 0 /\ s % 3600 = 0
  <2>1. Largest(3600)
    BY <1>4, SMTT(30) DEF UNITS
  <2>2. decompose(s) = [value |-> 2 * (s \div 3600), unit |-> 3600]
    BY <1>2, <2>1, SMTT(30)
  <2> QED BY <1>4, <2>2, SMTT(30) DEF humanizeInterval, Phrase, DAY, HOUR
<1>5. CASE s % 86400 # 0 /\ s % 3600 # 0 /\ s % 60 = 0
  <2>1. Largest(60)
    BY <1>5, SMTT(30) DEF UNITS
  <2>2. decompose(s) = [value |-> 2 * (s \div 60), unit |-> 60]
    BY <1>2, <2>1, SMTT(30)
  <2>3. Round(s, 60) = s \div 60
    BY <1>5, SMTT(30) DEF Round
  <2> QED BY <1>5, <2>2, <2>3, SMTT(30) DEF humanizeInterval, Phrase, DAY, HOUR, MINUTE
<1>6. CASE s % 86400 # 0 /\ s % 3600 # 0 /\ s % 60 # 0
  <2>1. even = {}
    BY <1>6, SMTT(30) DEF UNITS
  <2>2. Round(s, 60) \in Nat /\ Round(s, 60) >= 1
    BY SMTT(30) DEF Round, minSyncIntervalSeconds
  <2>3. decompose(s) = [value |-> 2 * Round(s, 60), unit |-> 60]
    BY <2>1, <2>2, SMTT(30) DEF decompose, AtLeastOne
  <2>4. decompose(s).value \div 2 = Round(s, 60)
    BY <2>2, <2>3, SMTT(30)
  <2> QED BY <1>6, <2>3, <2>4, SMTT(30) DEF humanizeInterval, Phrase, DAY, HOUR, MINUTE
<1> QED BY <1>3, <1>4, <1>5, <1>6, SMTT(30)

LEMMA IntervalsHold == PagesSayTheSame
<1>1. \A s \in Intervals : s \in Nat /\ s >= minSyncIntervalSeconds
  BY SMTT(30) DEF Intervals, minSyncIntervalSeconds
<1> QED BY <1>1, SaidTheSame, SMTT(30) DEF PagesSayTheSame

(* The unit of an age in the audit log is the largest that fits.            *)
LEMMA UnitFits ==
    ASSUME NEW a \in Nat
    PROVE  timeAgo(a) = Phrase(RoundPast(a, timeAgo(a).unit), timeAgo(a).unit)
           /\ timeAgo(a).unit = IF a >= YEAR THEN YEAR ELSE IF a >= MONTH THEN MONTH
                                ELSE IF a >= WEEK THEN WEEK ELSE IF a >= DAY THEN DAY
                                ELSE IF a >= HOUR THEN HOUR ELSE IF a >= MINUTE THEN MINUTE ELSE 1
<1> DEFINE fits == {u \in {1, MINUTE, HOUR, DAY, WEEK, MONTH, YEAR} : a >= u \/ u = 1}
           unit == CHOOSE u \in fits : \A v \in fits : v <= u
           x == IF a >= YEAR THEN YEAR ELSE IF a >= MONTH THEN MONTH
                ELSE IF a >= WEEK THEN WEEK ELSE IF a >= DAY THEN DAY
                ELSE IF a >= HOUR THEN HOUR ELSE IF a >= MINUTE THEN MINUTE ELSE 1
<1>1. x \in fits /\ \A v \in fits : v <= x
  BY SMTT(30) DEF MINUTE, HOUR, DAY, WEEK, MONTH, YEAR
<1>2. fits \subseteq Nat
  BY SMTT(30) DEF MINUTE, HOUR, DAY, WEEK, MONTH, YEAR
<1>3. unit \in fits /\ \A v \in fits : v <= unit
  BY <1>1, Zenon
<1>4. timeAgo(a) = Phrase(RoundPast(a, unit), unit)
  BY SMTT(30) DEF timeAgo
<1> HIDE DEF fits, x, unit
<1>5. unit = x
  BY <1>1, <1>2, <1>3, SMTT(30)
<1>6. timeAgo(a).unit = x /\ timeAgo(a) = Phrase(RoundPast(a, x), x)
  BY <1>4, <1>5, SMTT(30) DEF Phrase
<1> QED BY <1>6, SMTT(30) DEF x

(* What the audit log says of an age, in seconds.                           *)
LEMMA SpanOfAgo ==
    ASSUME NEW a \in Nat
    PROVE  /\ a >= 31536000 => timeAgo(a).unit = 31536000
                 /\ Span(timeAgo(a)) = ((2 * a + 31535999) \div 63072000) * 31536000
           /\ a >= 2592000 /\ a < 31536000 => timeAgo(a).unit = 2592000
                 /\ Span(timeAgo(a)) = ((2 * a + 2591999) \div 5184000) * 2592000
           /\ a >= 604800 /\ a < 2592000 => timeAgo(a).unit = 604800
                 /\ Span(timeAgo(a)) = ((2 * a + 604799) \div 1209600) * 604800
           /\ a >= 86400 /\ a < 604800 => timeAgo(a).unit = 86400
                 /\ Span(timeAgo(a)) = ((2 * a + 86399) \div 172800) * 86400
           /\ a >= 3600 /\ a < 86400 => timeAgo(a).unit = 3600
                 /\ Span(timeAgo(a)) = ((2 * a + 3599) \div 7200) * 3600
           /\ a >= 60 /\ a < 3600 => timeAgo(a).unit = 60
                 /\ Span(timeAgo(a)) = ((2 * a + 59) \div 120) * 60
           /\ a < 60 => timeAgo(a).unit = 1 /\ Span(timeAgo(a)) = a
<1> DEFINE u == timeAgo(a).unit
<1>1. Span(timeAgo(a)) = RoundPast(a, u) * u
  BY UnitFits, SMTT(30) DEF Span, Phrase
<1>2. u = IF a >= 31536000 THEN 31536000 ELSE IF a >= 2592000 THEN 2592000
          ELSE IF a >= 604800 THEN 604800 ELSE IF a >= 86400 THEN 86400
          ELSE IF a >= 3600 THEN 3600 ELSE IF a >= 60 THEN 60 ELSE 1
  BY UnitFits, SMTT(30) DEF MINUTE, HOUR, DAY, WEEK, MONTH, YEAR
<1> HIDE DEF u
<1>3. a >= 31536000 => u = 31536000
      /\ Span(timeAgo(a)) = ((2 * a + 31535999) \div 63072000) * 31536000
  BY <1>1, <1>2, SMTT(30) DEF RoundPast
<1>4. a >= 2592000 /\ a < 31536000 => u = 2592000
      /\ Span(timeAgo(a)) = ((2 * a + 2591999) \div 5184000) * 2592000
  BY <1>1, <1>2, SMTT(30) DEF RoundPast
<1>5. a >= 604800 /\ a < 2592000 => u = 604800
      /\ Span(timeAgo(a)) = ((2 * a + 604799) \div 1209600) * 604800
  BY <1>1, <1>2, SMTT(30) DEF RoundPast
<1>6. a >= 86400 /\ a < 604800 => u = 86400
      /\ Span(timeAgo(a)) = ((2 * a + 86399) \div 172800) * 86400
  BY <1>1, <1>2, SMTT(30) DEF RoundPast
<1>7. a >= 3600 /\ a < 86400 => u = 3600
      /\ Span(timeAgo(a)) = ((2 * a + 3599) \div 7200) * 3600
  BY <1>1, <1>2, SMTT(30) DEF RoundPast
<1>8. a >= 60 /\ a < 3600 => u = 60
      /\ Span(timeAgo(a)) = ((2 * a + 59) \div 120) * 60
  BY <1>1, <1>2, SMTT(30) DEF RoundPast
<1>9. a < 60 => u = 1 /\ Span(timeAgo(a)) = a
  BY <1>1, <1>2, SMTT(30) DEF RoundPast
<1> QED BY <1>3, <1>4, <1>5, <1>6, <1>7, <1>8, <1>9, SMTT(30) DEF u

(* It crosses no boundary of a unit before the age does, and is off by no    *)
(* more than the unit.                                                      *)
LEMMA AgoBracketed ==
    ASSUME NEW a \in Nat
    PROVE  LET n == Span(timeAgo(a)) IN
           /\ n \in Nat /\ timeAgo(a).unit \in Nat
           /\ n - a <= timeAgo(a).unit /\ a - n <= timeAgo(a).unit
           /\ \A x \in {60, 3600, 86400, 604800, 2592000, 31536000} :
                 (a >= x => n >= x) /\ (a < x => n <= x)
<1>1. CASE a < 60
  BY <1>1, SpanOfAgo, SMTT(30)
<1>2. CASE a >= 60 /\ a < 3600
  BY <1>2, SpanOfAgo, SMTT(30)
<1>3. CASE a >= 3600 /\ a < 86400
  BY <1>3, SpanOfAgo, SMTT(30)
<1>4. CASE a >= 86400 /\ a < 604800
  BY <1>4, SpanOfAgo, SMTT(30)
<1>5. CASE a >= 604800 /\ a < 2592000
  BY <1>5, SpanOfAgo, SMTT(30)
<1>6. CASE a >= 2592000 /\ a < 31536000
  BY <1>6, SpanOfAgo, SMTT(30)
<1>7. CASE a >= 31536000
  BY <1>7, SpanOfAgo, SMTT(30)
<1> QED BY <1>1, <1>2, <1>3, <1>4, <1>5, <1>6, <1>7, SMTT(30)

LEMMA AgoGrows ==
    ASSUME NEW a \in Nat, NEW b \in Nat, a <= b
    PROVE  Span(timeAgo(a)) <= Span(timeAgo(b))
<1> DEFINE m == Span(timeAgo(a))
           n == Span(timeAgo(b))
<1>1. CASE a < 60
  <2>1. CASE b < 60
    BY <1>1, <2>1, SpanOfAgo, SMTT(30)
  <2>2. CASE b >= 60
    <3>1. m <= 60 /\ n >= 60
      BY <1>1, <2>2, AgoBracketed, SMTT(30)
    <3> QED BY <3>1, AgoBracketed, SMTT(30)
  <2> QED BY <2>1, <2>2, SMTT(30)
<1>2. CASE a >= 60 /\ a < 3600
  <2>1. CASE b < 3600
    BY <1>2, <2>1, SpanOfAgo, SMTT(30)
  <2>2. CASE b >= 3600
    <3>1. m <= 3600 /\ n >= 3600
      BY <1>2, <2>2, AgoBracketed, SMTT(30)
    <3> QED BY <3>1, AgoBracketed, SMTT(30)
  <2> QED BY <2>1, <2>2, SMTT(30)
<1>3. CASE a >= 3600 /\ a < 86400
  <2>1. CASE b < 86400
    BY <1>3, <2>1, SpanOfAgo, SMTT(30)
  <2>2. CASE b >= 86400
    <3>1. m <= 86400 /\ n >= 86400
      BY <1>3, <2>2, AgoBracketed, SMTT(30)
    <3> QED BY <3>1, AgoBracketed, SMTT(30)
  <2> QED BY <2>1, <2>2, SMTT(30)
<1>4. CASE a >= 86400 /\ a < 604800
  <2>1. CASE b < 604800
    BY <1>4, <2>1, SpanOfAgo, SMTT(30)
  <2>2. CASE b >= 604800
    <3>1. m <= 604800 /\ n >= 604800
      BY <1>4, <2>2, AgoBracketed, SMTT(30)
    <3> QED BY <3>1, AgoBracketed, SMTT(30)
  <2> QED BY <2>1, <2>2, SMTT(30)
<1>5. CASE a >= 604800 /\ a < 2592000
  <2>1. CASE b < 2592000
    BY <1>5, <2>1, SpanOfAgo, SMTT(30)
  <2>2. CASE b >= 2592000
    <3>1. m <= 2592000 /\ n >= 2592000
      BY <1>5, <2>2, AgoBracketed, SMTT(30)
    <3> QED BY <3>1, AgoBracketed, SMTT(30)
  <2> QED BY <2>1, <2>2, SMTT(30)
<1>6. CASE a >= 2592000 /\ a < 31536000
  <2>1. CASE b < 31536000
    BY <1>6, <2>1, SpanOfAgo, SMTT(30)
  <2>2. CASE b >= 31536000
    <3>1. m <= 31536000 /\ n >= 31536000
      BY <1>6, <2>2, AgoBracketed, SMTT(30)
    <3> QED BY <3>1, AgoBracketed, SMTT(30)
  <2> QED BY <2>1, <2>2, SMTT(30)
<1>7. CASE a >= 31536000
  BY <1>7, SpanOfAgo, SMTT(30)
<1> QED BY <1>1, <1>2, <1>3, <1>4, <1>5, <1>6, <1>7, SMTT(30)

(* The same for the other phrase, which rounds down.                        *)
LEMMA SpanOfRelative ==
    ASSUME NEW a \in Nat
    PROVE  LET n == Span(formatRelative(a)) IN
           /\ a < 45 => n = 0 /\ formatRelative(a).unit = 1
           /\ a >= 45 /\ a < 60 => n = 60 /\ formatRelative(a).unit = 60
           /\ a >= 60 /\ a < 3600 => n = (a \div 60) * 60 /\ formatRelative(a).unit = 60
           /\ a >= 3600 /\ a < 86400 => n = (a \div 3600) * 3600 /\ formatRelative(a).unit = 3600
           /\ a >= 86400 /\ a < 2592000 => n = (a \div 86400) * 86400 /\ formatRelative(a).unit = 86400
           /\ a >= 2592000 /\ a < 31536000 =>
                 n = (a \div 2592000) * 2592000 /\ formatRelative(a).unit = 2592000
           /\ a >= 31536000 => n = (a \div 31536000) * 31536000 /\ formatRelative(a).unit = 31536000
<1> DEFINE n == Span(formatRelative(a))
           u == formatRelative(a).unit
<1>1. /\ a < 45 => n = 0 /\ u = 1
      /\ a >= 45 /\ a < 60 => n = 60 /\ u = 60
  <2>1. CASE a < 45
    <3>1. formatRelative(a) = Phrase(0, 1)
      BY <2>1, SMTT(30) DEF formatRelative, Below45
    <3> QED BY <2>1, <3>1, SMTT(30) DEF Phrase, Span
  <2>2. CASE a >= 45 /\ a < 60
    <3>1. a \div 60 = 0
      BY <2>2, SMTT(30)
    <3>2. formatRelative(a) = Phrase(AtLeastOne(a \div 60), 60)
      BY <2>2, SMTT(30) DEF formatRelative, Below45, MINUTE, HOUR
    <3> QED BY <2>2, <3>1, <3>2, SMTT(30) DEF AtLeastOne, Phrase, Span
  <2> QED BY <2>1, <2>2, SMTT(30)
<1>2. a >= 60 /\ a < 3600 => n = (a \div 60) * 60 /\ u = 60
  BY SMTT(30) DEF formatRelative, Below45, Phrase, Span, AtLeastOne, MINUTE, HOUR
<1>3. a >= 3600 /\ a < 86400 => n = (a \div 3600) * 3600 /\ u = 3600
  BY SMTT(30) DEF formatRelative, Below45, Phrase, Span, AtLeastOne, HOUR, DAY
<1>4. a >= 86400 /\ a < 2592000 => n = (a \div 86400) * 86400 /\ u = 86400
  BY SMTT(30) DEF formatRelative, Below45, Phrase, Span, AtLeastOne, HOUR, DAY, MONTH
<1>5. a >= 2592000 /\ a < 31536000 => n = (a \div 2592000) * 2592000 /\ u = 2592000
  BY SMTT(30) DEF formatRelative, Below45, Phrase, Span, AtLeastOne, HOUR, DAY, MONTH, YEAR
<1>6. a >= 31536000 => n = (a \div 31536000) * 31536000 /\ u = 31536000
  BY SMTT(30) DEF formatRelative, Below45, Phrase, Span, AtLeastOne, HOUR, DAY, MONTH, YEAR
<1> QED BY <1>1, <1>2, <1>3, <1>4, <1>5, <1>6, SMTT(30)

LEMMA RelativeBracketed ==
    ASSUME NEW a \in Nat
    PROVE  LET n == Span(formatRelative(a)) IN
           /\ n \in Nat /\ n <= a + 15 /\ a - n < 45 + formatRelative(a).unit
           /\ \A x \in {60, 3600, 86400, 2592000, 31536000} :
                 (a >= x => n >= x) /\ (a < x => n <= x)
<1>1. CASE a < 60
  BY <1>1, SpanOfRelative, SMTT(30)
<1>2. CASE a >= 60 /\ a < 3600
  BY <1>2, SpanOfRelative, SMTT(30)
<1>3. CASE a >= 3600 /\ a < 86400
  BY <1>3, SpanOfRelative, SMTT(30)
<1>4. CASE a >= 86400 /\ a < 2592000
  BY <1>4, SpanOfRelative, SMTT(30)
<1>5. CASE a >= 2592000 /\ a < 31536000
  BY <1>5, SpanOfRelative, SMTT(30)
<1>6. CASE a >= 31536000
  BY <1>6, SpanOfRelative, SMTT(30)
<1> QED BY <1>1, <1>2, <1>3, <1>4, <1>5, <1>6, SMTT(30)

LEMMA RelativeGrows ==
    ASSUME NEW a \in Nat, NEW b \in Nat, a <= b
    PROVE  Span(formatRelative(a)) <= Span(formatRelative(b))
<1> DEFINE m == Span(formatRelative(a))
           n == Span(formatRelative(b))
<1>1. CASE a < 60
  <2>1. CASE b < 60
    BY <1>1, <2>1, SpanOfRelative, SMTT(30)
  <2>2. CASE b >= 60
    <3>1. m <= 60 /\ n >= 60
      BY <1>1, <2>2, RelativeBracketed, SMTT(30)
    <3> QED BY <3>1, RelativeBracketed, SMTT(30)
  <2> QED BY <2>1, <2>2, SMTT(30)
<1>2. CASE a >= 60 /\ a < 3600
  <2>1. CASE b < 3600
    BY <1>2, <2>1, SpanOfRelative, SMTT(30)
  <2>2. CASE b >= 3600
    <3>1. m <= 3600 /\ n >= 3600
      BY <1>2, <2>2, RelativeBracketed, SMTT(30)
    <3> QED BY <3>1, RelativeBracketed, SMTT(30)
  <2> QED BY <2>1, <2>2, SMTT(30)
<1>3. CASE a >= 3600 /\ a < 86400
  <2>1. CASE b < 86400
    BY <1>3, <2>1, SpanOfRelative, SMTT(30)
  <2>2. CASE b >= 86400
    <3>1. m <= 86400 /\ n >= 86400
      BY <1>3, <2>2, RelativeBracketed, SMTT(30)
    <3> QED BY <3>1, RelativeBracketed, SMTT(30)
  <2> QED BY <2>1, <2>2, SMTT(30)
<1>4. CASE a >= 86400 /\ a < 2592000
  <2>1. CASE b < 2592000
    BY <1>4, <2>1, SpanOfRelative, SMTT(30)
  <2>2. CASE b >= 2592000
    <3>1. m <= 2592000 /\ n >= 2592000
      BY <1>4, <2>2, RelativeBracketed, SMTT(30)
    <3> QED BY <3>1, RelativeBracketed, SMTT(30)
  <2> QED BY <2>1, <2>2, SMTT(30)
<1>5. CASE a >= 2592000 /\ a < 31536000
  <2>1. CASE b < 31536000
    BY <1>5, <2>1, SpanOfRelative, SMTT(30)
  <2>2. CASE b >= 31536000
    <3>1. m <= 31536000 /\ n >= 31536000
      BY <1>5, <2>2, RelativeBracketed, SMTT(30)
    <3> QED BY <3>1, RelativeBracketed, SMTT(30)
  <2> QED BY <2>1, <2>2, SMTT(30)
<1>6. CASE a >= 31536000
  BY <1>6, SpanOfRelative, SMTT(30)
<1> QED BY <1>1, <1>2, <1>3, <1>4, <1>5, <1>6, SMTT(30)

(* An older time never reads as a newer one, and none is off by more than   *)
(* the unit it is told in (formatRelative, relative-time.tsx:73, rounds     *)
(* down from 45 seconds on; timeAgo, audit/page.tsx:166, to the nearest),   *)
(* whatever the ages.                                                       *)
THEOREM AgesReadInOrder ==
    ASSUME NEW a \in Nat, NEW b \in Nat, a <= b
    PROVE  /\ Span(formatRelative(a)) <= Span(formatRelative(b))
           /\ Span(timeAgo(a)) <= Span(timeAgo(b))
           /\ Span(formatRelative(a)) <= a + 15
           /\ a - Span(formatRelative(a)) < 45 + formatRelative(a).unit
           /\ Span(timeAgo(a)) - a <= timeAgo(a).unit
           /\ a - Span(timeAgo(a)) <= timeAgo(a).unit
<1>1. Span(formatRelative(a)) <= Span(formatRelative(b))
  BY RelativeGrows, Zenon
<1>2. Span(timeAgo(a)) <= Span(timeAgo(b))
  BY AgoGrows, Zenon
<1>3. Span(formatRelative(a)) <= a + 15 /\ a - Span(formatRelative(a)) < 45 + formatRelative(a).unit
  BY RelativeBracketed, SMTT(30)
<1>4. Span(timeAgo(a)) - a <= timeAgo(a).unit /\ a - Span(timeAgo(a)) <= timeAgo(a).unit
  BY AgoBracketed, SMTT(30)
<1> QED BY <1>1, <1>2, <1>3, <1>4, Zenon

LEMMA AgesHold == OlderReadsOlder
<1>1. Ages \subseteq Nat
  BY SMTT(30) DEF Ages, Around, MINUTE, HOUR, DAY, WEEK, MONTH, YEAR
<1>2. ASSUME NEW a \in Ages, NEW b \in Ages, a <= b
      PROVE  /\ Span(formatRelative(a)) <= Span(formatRelative(b))
             /\ Span(timeAgo(a)) <= Span(timeAgo(b))
             /\ Span(formatRelative(a)) <= a + 15
             /\ a - Span(formatRelative(a)) < 45 + formatRelative(a).unit
             /\ Span(timeAgo(a)) - a \in -timeAgo(a).unit..timeAgo(a).unit
  <2>1. a \in Nat /\ b \in Nat
    BY <1>1, Zenon
  <2>2. /\ Span(formatRelative(a)) <= Span(formatRelative(b))
        /\ Span(timeAgo(a)) <= Span(timeAgo(b))
        /\ Span(formatRelative(a)) <= a + 15
        /\ a - Span(formatRelative(a)) < 45 + formatRelative(a).unit
        /\ Span(timeAgo(a)) - a <= timeAgo(a).unit /\ a - Span(timeAgo(a)) <= timeAgo(a).unit
    BY <1>2, <2>1, AgesReadInOrder, ZenonT(60)
  <2>3. Span(timeAgo(a)) \in Nat /\ timeAgo(a).unit \in Nat
    BY <2>1, AgoBracketed, SMTT(30)
  <2>4. Span(timeAgo(a)) - a \in -timeAgo(a).unit..timeAgo(a).unit
    BY <2>1, <2>2, <2>3, SMTT(30)
  <2> QED BY <2>2, <2>4, SMTT(30)
<1> QED BY <1>2, SMTT(30) DEF OlderReadsOlder

-----------------------------------------------------------------------------
(* The pages.                                                               *)

(* What is missing from the list of files is missing from its count.        *)
LEMMA FilesHold == NothingMissingSilently
<1> SUFFICES ASSUME Loaded(<<"files", route.id>>), ~SaysTruncated(route.id)
             PROVE  items(route.id) = Scope(route.id)
  BY SMTT(30) DEF NothingMissingSilently, shownFiles
<1>1. items(route.id) \subseteq Scope(route.id) /\ Scope(route.id) \subseteq Files
  BY DEF items, Newest, Scope
<1>2. IsFiniteSet(Scope(route.id))
  BY <1>1, ShellAssumption, FS_Subset, SMTT(30)
<1>3. /\ Cardinality(Scope(route.id)) \in Nat /\ Cardinality(items(route.id)) \in Nat
      /\ Cardinality(items(route.id)) <= Cardinality(Scope(route.id))
  BY <1>1, <1>2, FS_Subset, FS_CardinalityType, SMTT(30)
<1>4. Cardinality(Scope(route.id)) <= Cardinality(items(route.id))
  BY <1>3, SMTT(30) DEF SaysTruncated
<1> QED BY <1>1, <1>2, <1>3, <1>4, FS_Subset, SMTT(30)

(* A fetch that read the rows before a call of ours wrote them was started  *)
(* again when the call was answered.                                        *)
LEMMA WritesShow == IInv => OwnWritesShow
<1> SUFFICES ASSUME IInv, NEW k \in {<<"session">>, <<"flags">>},
                    Loaded(k), query[k].fetch = "no", ~query[k].stale,
                    ~\E c \in calls : c.op \in {"rename", "flag"} /\ c.at # "error"
             PROVE  query[k].data.val = Truth(k).val \/ query[k].data.theirs # ws.theirs
  BY DEF OwnWritesShow
<1>1. k \in Keys /\ Writes(k) \in {"rename", "flag"}
  BY SMTT(30) DEF Keys, Writes
<1>2. ~Unanswered(k, calls) /\ Sound(k, query[k], ws, calls)
  BY <1>1, SMTT(30) DEF Unanswered, IInv, CacheSound, Consistent
<1>3. Current(k, query[k].data, ws)
  BY <1>1, <1>2, SMTT(30) DEF Sound, Loaded, Nowhere
<1>4. Truth(k).val = Stands(k, ws)
  BY <1>1, TruthIsData, SMTT(30) DEF IInv
<1> QED BY <1>3, <1>4, SMTT(30) DEF Current

LEMMA OffsetIsNat == \A o \in Offsets : o \in Nat
  BY QueriesAssumption, SMTT(30) DEF Offsets

LEMMA SmallerIsSome ==
    \A t, o \in Nat : t > o => Smaller(PAGE, t - o) # 0
  BY QueriesAssumption, SMTT(30) DEF Smaller

LEMMA NoneLeft == \A t, o \in Nat : (o = 0 \/ o < t) /\ ~(t > o) => t = 0
  BY SMTT(30)

(* The page of the log on the screen was there when it was read.            *)
LEMMA EmptyIsEmpty == IInv => EmptyMeansEmpty
<1> SUFFICES ASSUME IInv, AuditPage = "No activity recorded yet.", ~query[auditKey].failed
             PROVE  total = 0
  BY Zenon DEF EmptyMeansEmpty
<1>1. Loaded(auditKey) /\ rows = 0
  BY Zenon DEF AuditPage, Pending, Loaded
<1>2. adm.offset \in Offsets
  BY Zenon DEF IInv, TypeOK
<1>3. adm.offset \in Nat
  BY <1>2, OffsetIsNat, Zenon
<1>4. auditKey \in Keys /\ auditKey[1] = "audit" /\ auditKey[2] = adm.offset
  BY <1>2, Zenon DEF auditKey, Keys
<1>5. Sound(auditKey, query[auditKey], ws, calls)
  BY <1>4, Zenon DEF IInv, CacheSound, Consistent
<1>6. /\ query[auditKey].data \in Results(auditKey)
      /\ adm.offset = 0 \/ adm.offset < query[auditKey].data.val
  BY <1>1, <1>4, <1>5, ZenonT(60) DEF Sound, Seen, Entries, Loaded
<1>7. total \in Nat /\ (adm.offset = 0 \/ adm.offset < total)
  BY <1>1, <1>4, <1>6, ZenonT(60) DEF total, Results
<1>8. ~(total > adm.offset)
  <2> SUFFICES ASSUME total > adm.offset PROVE FALSE
    BY Zenon
  <2>1. Smaller(PAGE, total - adm.offset) = 0
    BY <1>1, Zenon DEF rows
  <2> QED BY <1>3, <1>7, <2>1, SmallerIsSome, ZenonT(60)
<1> QED BY <1>3, <1>7, <1>8, NoneLeft, ZenonT(60)

-----------------------------------------------------------------------------
(* The list opens the new source once.                                      *)

(* Taking the frame down closes the gate.                                   *)
LEMMA TakenDown ==
    ASSUME NEW q, TakeDown(q), q[<<"session">>].data = NoData \/ q[<<"session">>].failed = TRUE
    PROVE  ~Reached'
<1>1. query'[<<"session">>] = q[<<"session">>]
  BY SessionKey, Zenon DEF TakeDown, Mounting
<1> QED BY <1>1, ZenonT(60) DEF Reached, Loaded

LEMMA Unloaded == ASSUME NEW to, Loads(to) PROVE ~Reached'
<1> DEFINE q == [k \in Keys |-> IF k = <<"session">> THEN Sent(Blank) ELSE Blank]
<1>1. TakeDown(q)
  BY Zenon DEF Loads
<1>2. q[<<"session">>].data = NoData
  BY SessionKey, Zenon DEF Sent, Blank
<1> HIDE DEF q
<1> QED BY <1>1, <1>2, TakenDown, ZenonT(60)

LEMMA Shut == ASSUME IInv, GateShuts PROVE ~Reached'
<1> DEFINE k == <<"session">>
<1>1. TakeDown(Failed(k)) /\ k \in Keys
  BY SessionKey, Zenon DEF GateShuts
<1>2. k \in DOMAIN query /\ query[k] \in Entries(k)
  BY <1>1, ZenonT(60) DEF IInv, CacheSound, Consistent, Sound
<1>3. "failed" \in DOMAIN query[k]
  BY <1>2, Zenon DEF Entries
<1>4. Failed(k)[k].failed = TRUE
  BY <1>2, <1>3, Zenon DEF Failed
<1> QED BY <1>1, <1>4, TakenDown, ZenonT(60)

LEMMA StaysLatched == ASSUME UNCHANGED src, nav' = nav \/ nav'.by # "open" PROVE Latched
  BY Zenon DEF Latched

LEMMA UserLatched == ASSUME IInv, User, Reached' PROVE Latched
<1>1. CASE (Follow(Links) \/ Chrome) /\ UNCHANGED src
  <2>1. nav' = nav \/ nav'.by # "open"
    <3>1. CASE Follow(Links) \/ go
      <4>1. PICK to : Push(to, "user")
        BY <3>1, Zenon DEF Follow, go
      <4> QED BY <4>1, Zenon DEF Push
    <3>2. CASE FocusSearch \/ TypeSearch \/ DismissSearch \/ ThemeHotkey \/ AppSpine
      BY <3>2, Zenon DEF FocusSearch, TypeSearch, DismissSearch, ThemeHotkey, AppSpine, Stay
    <3> QED BY <1>1, <3>1, <3>2, ZenonT(60) DEF Chrome
  <2> QED BY <1>1, <2>1, StaysLatched, ZenonT(60)
<1>2. CASE PressButton \/ authorize \/ \E b \in BOOLEAN : onConnect(b)
  <2>1. UNCHANGED <<src, nav>>
    BY <1>2, Zenon DEF PressButton, authorize, onConnect, Ask
  <2> QED BY <2>1, StaysLatched, Zenon
<1>3. CASE FillForm \/ Narrow
  <2>1. nav' = nav /\ src'.opened = src.opened
    BY <1>3, Zenon DEF FillForm, Narrow, shell, IInv, TypeOK
  <2> QED BY <2>1, Zenon DEF Latched
<1>4. CASE Clicks /\ UNCHANGED src
  <2>1. nav' = nav
    BY <1>4, Zenon DEF Clicks, EditName, CancelEdit, SetFlag, ChooseProject, SetName, onSave, Previous,
       NextPage, TurnTo, JsonNode, Local, Ask, shell
  <2> QED BY <1>4, <2>1, StaysLatched, ZenonT(60)
<1>5. CASE (TryAgain \/ WindowFocus) /\ UNCHANGED src
  <2>1. nav' = nav
    BY <1>5, Zenon DEF TryAgain, WindowFocus, shell
  <2> QED BY <1>5, <2>1, StaysLatched, ZenonT(60)
<1>6. CASE Refresh
  BY <1>6, Unloaded, Zenon DEF Refresh
<1> QED BY <1>1, <1>2, <1>3, <1>4, <1>5, <1>6, Zenon DEF User, SourceClicks

LEMMA OpensLatched ==
    ASSUME IInv, WorkspaceNext, Reached, Reached', Path(route') = Path(route)
    PROVE  Latched
<1>1. CASE RouterCommits
  <2>1. nav' = Idle /\ route' = nav.to
    BY <1>1, Zenon DEF RouterCommits, Commit
  <2>2. nav'.by # "open"
    BY <2>1, Zenon DEF Idle, Nowhere
  <2>3. UNCHANGED src
    BY <1>1, <2>1, Zenon DEF RouterCommits, Stays
  <2> QED BY <2>2, <2>3, StaysLatched, ZenonT(60)
<1>2. CASE GateOpens
  BY <1>2, Zenon DEF GateOpens
<1>3. CASE GateShuts
  BY <1>3, Shut, Zenon
<1>4. CASE Consent
  BY <1>4, Unloaded, ZenonT(60) DEF Consent
<1>5. CASE Publishes
  BY <1>5, StaysLatched, Zenon DEF Publishes, PublishLeaf
<1>6. CASE User
  BY <1>6, UserLatched, ZenonT(60)
<1>7. CASE Opens
  <2>1. ~src.opened /\ src' = [src EXCEPT !.opened = TRUE]
    BY <1>7, Zenon DEF Opens, autoOpened
  <2>2. src'.opened = TRUE
    BY <2>1, Zenon DEF IInv, TypeOK
  <2> QED BY <2>1, <2>2, Zenon DEF Latched
<1>8. CASE Elapses
  <2>1. nav' = nav /\ src'.opened = src.opened
    BY <1>8, Zenon DEF Elapses, GraceElapses, shell, IInv, TypeOK
  <2> QED BY <2>1, Zenon DEF Latched
<1>9. CASE Serves
  <2>1. UNCHANGED <<src, nav>>
    BY <1>9, Zenon DEF Serves, ServeSource, ServeAdmin, Wrote, Served
  <2> QED BY <2>1, StaysLatched, Zenon
<1>10. CASE Answering
  <2>1. PICK c \in calls : \/ AnswerSource(c) \/ AuthorizeFails(c)
                           \/ AnswerAdmin(c) /\ UNCHANGED src
                           \/ Authorized(c)
    BY <1>10, Zenon DEF Answering
  <2>2. CASE AnswerSource(c)
    <3>1. UNCHANGED src /\ (nav' = nav \/ Push(Loc("list", c.arg), "answer"))
      BY <2>2, ZenonT(60) DEF AnswerSource
    <3>2. nav' = nav \/ nav'.by # "open"
      BY <3>1, SMTT(30) DEF Push
    <3> QED BY <3>1, <3>2, StaysLatched, ZenonT(60)
  <2>3. CASE AuthorizeFails(c) \/ (AnswerAdmin(c) /\ UNCHANGED src)
    BY <2>3, StaysLatched, Zenon DEF AuthorizeFails, AnswerAdmin
  <2>4. CASE Authorized(c)
    <3>1. TakeDown([k \in Keys |-> Blank])
      BY <2>4, Zenon DEF Authorized
    <3>2. [k \in Keys |-> Blank][<<"session">>].data = NoData
      BY SessionKey, ZenonT(60) DEF Blank
    <3> QED BY <3>1, <3>2, TakenDown, ZenonT(60)
  <2> QED BY <2>1, <2>2, <2>3, <2>4, ZenonT(60)
<1>11. CASE Feeding \/ Fetching
  <2>1. UNCHANGED <<src, nav>>
    BY <1>11, Zenon DEF Feeding, Fetching, Fetches, Progress, Reads, Arrives, FetchFails, qvars, shell
  <2> QED BY <2>1, StaysLatched, Zenon
<1>12. CASE Others
  <2>1. UNCHANGED src /\ (nav' = nav \/ \E to : Push(to, "answer"))
    BY <1>12, ZenonT(60) DEF Others, Manages, Colleague, shell
  <2>2. nav' = nav \/ nav'.by # "open"
    BY <2>1, SMTT(30) DEF Push
  <2> QED BY <2>1, <2>2, StaysLatched, ZenonT(60)
<1> QED BY <1>1, <1>2, <1>3, <1>4, <1>5, <1>6, <1>7, <1>8, <1>9, <1>10, <1>11, <1>12, ZenonT(60)
     DEF WorkspaceNext

(* The list opens the source just connected once (sources/page.tsx:65): as  *)
(* long as its page stays up, whatever is pushed, answered, fetched again   *)
(* or clicked, the ref stays latched and nothing but latching it opens a    *)
(* source, so the link a user followed meanwhile is where they arrive.      *)
THEOREM OpensTheNewOnce == WorkspaceSpec => OpensOnce
<1>1. ASSUME IInv, [WorkspaceNext]_vars
      PROVE  [Reached /\ Reached' /\ Path(route') = Path(route) => Latched]_<<nav, src>>
  <2>1. CASE WorkspaceNext
    BY <1>1, <2>1, OpensLatched, ZenonT(60)
  <2>2. CASE UNCHANGED vars
    BY <2>2, Zenon DEF vars, qvars, shell
  <2> QED BY <1>1, <2>1, <2>2, ZenonT(60)
<1> QED BY <1>1, Invariance, PTL DEF WorkspaceSpec, OpensOnce

-----------------------------------------------------------------------------
(* What a page of the signed-in application says is so, for any sources,    *)
(* files, page size and bounds: after every click, answer, push, failure,   *)
(* reload and write of another member, the breadcrumb names the thing on    *)
(* the page and leads back the way it came, the settings show this user's   *)
(* own writes once they are answered (settings/page.tsx:72), the audit log  *)
(* is empty only when it is (audit/page.tsx), the files page leaves nothing *)
(* out silently (files/page.tsx:256), and ages, intervals and totals read   *)
(* the same everywhere.                                                     *)
THEOREM PagesAreTrue == WorkspaceSpec => []PagesTellTheTruth
<1>1. IInv => PagesTellTheTruth
  <2> SUFFICES ASSUME IInv PROVE PagesTellTheTruth
    OBVIOUS
  <2>1. LeafNamesPage /\ route \in Places
    BY Zenon DEF IInv, TypeOK
  <2> QED BY <2>1, TrailHolds, WritesShow, EmptyIsEmpty, FilesHold, AgesHold, IntervalsHold, TotalsHold, SMTT(30)
       DEF PagesTellTheTruth
<1> QED BY <1>1, Invariance, PTL
=============================================================================
