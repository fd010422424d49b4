------------------------- MODULE SiteDiscoveryProofs -------------------------
(***************************************************************************)
(* Proofs about SiteDiscovery, for any website, robots rules and limits,    *)
(* any answers of the network and a deadline at any time: types, the scope  *)
(* and the order of what is visited, what completed means, and that a merge *)
(* loses no visited page.                                                   *)
(***************************************************************************)
EXTENDS SiteDiscovery, FiniteSetTheorems, SequenceTheorems, TLAPS

Entry == [url: Urls, depth: Nat]
MapEntry == [map: Sitemaps \cup {Malformed}, depth: Nat]
Names == Urls \cup {Malformed}

-----------------------------------------------------------------------------
(* Sequences.                                                               *)

LEMMA CutType ==
    ASSUME NEW S, NEW s \in Seq(S), NEW n \in Nat
    PROVE  Cut(s, n) \in Seq(S)
<1> DEFINE k == IF Len(s) < n THEN Len(s) ELSE n
<1>1. k \in Nat /\ k <= Len(s)
  BY LenProperties
<1>2. \A i \in 1..k : s[i] \in S
  BY <1>1, ElementOfSeq
<1>3. SubSeq(s, 1, k) \in Seq(S)
  BY <1>1, <1>2, SubSeqProperties
<1> QED
  BY <1>3 DEF Cut

LEMMA TailSeq ==
    ASSUME NEW S, NEW s \in Seq(S), s # <<>>
    PROVE  /\ Head(s) \in S /\ Tail(s) \in Seq(S)
           /\ 1 \in DOMAIN s /\ Head(s) = s[1]
           /\ \A i \in DOMAIN Tail(s) : i + 1 \in DOMAIN s /\ Tail(s)[i] = s[i + 1]
           /\ \A i \in DOMAIN s : i = 1 \/ (i - 1 \in DOMAIN Tail(s) /\ s[i] = Tail(s)[i - 1])
BY HeadTailProperties, LenProperties, SMT

LEMMA AppendSeq ==
    ASSUME NEW S, NEW s \in Seq(S), NEW e \in S
    PROVE  /\ Append(s, e) \in Seq(S)
           /\ \A i \in DOMAIN s : i \in DOMAIN Append(s, e) /\ Append(s, e)[i] = s[i]
           /\ \E i \in DOMAIN Append(s, e) : Append(s, e)[i] = e
           /\ \A i \in DOMAIN Append(s, e) :
                 \/ i \in DOMAIN s /\ Append(s, e)[i] = s[i]
                 \/ Append(s, e)[i] = e /\ \A j \in DOMAIN s : j < i
BY AppendProperties, LenProperties, SMT

LEMMA ImageFinite ==
    ASSUME NEW S, NEW s \in Seq(S)
    PROVE  IsFiniteSet({s[i] : i \in DOMAIN s})
<1> DEFINE T == {s[i] : i \in DOMAIN s}
           f == [i \in DOMAIN s |-> s[i]]
<1>1. DOMAIN s = 1..Len(s) /\ Len(s) \in Nat
  BY LenProperties
<1>2. IsFiniteSet(DOMAIN s)
  BY <1>1, FS_Interval
<1>3. f \in Surjection(DOMAIN s, T)
  BY DEF Surjection
<1> QED
  BY <1>2, <1>3, FS_Surjection

-----------------------------------------------------------------------------
(* Types.                                                                   *)

LEMMA FreshType == \A u \in Urls, d \in Nat : Fresh(u, d) \in Page
BY DiscoveryAssumption DEF Fresh, Page, Exclusion, Exclusions, Relations

LEMMA PageField ==
    ASSUME NEW p \in Page
    PROVE  /\ p.depth \in Nat /\ p.canonical \in Urls \cup {"none"}
           /\ p.eligibility \in {"eligible", "excluded", "skipped"}
           /\ p.exclusion \in Exclusions /\ p.verified \in BOOLEAN
           /\ p.robots \in {"unknown", "allowed", "disallowed"}
           /\ \A d \in Nat : [p EXCEPT !.depth = d] \in Page
           /\ \A c \in Urls : [p EXCEPT !.canonical = c] \in Page
           /\ Vouched(p) \in Page
BY DEF Page, Vouched, Exclusions

LEMMA LinksType ==
    TypeOK => \A u \in Urls : /\ Links(u) \in Seq(Names)
                              /\ site.canonical[u] \in Names \cup {"none"}
<1> SUFFICES ASSUME TypeOK, NEW u \in Urls
             PROVE  Links(u) \in Seq(Names) /\ site.canonical[u] \in Names \cup {"none"}
  OBVIOUS
<1>1. site \in Website
  BY DiscoveryAssumption DEF TypeOK
<1>2. site.links[u] \in Seq(Names) /\ site.canonical[u] \in Names \cup {"none"}
  BY <1>1 DEF Website, Names
<1>3. MaxLinks \in Nat
  BY DiscoveryAssumption
<1> QED
  BY <1>2, <1>3, CutType DEF Links

LEMMA SiteType ==
    TypeOK => /\ Cut(site.rendered, MaxLinks) \in Seq(Names)
              /\ \A m \in Sitemaps : /\ Cut(site.pages[m], MaxUrls) \in Seq(Names)
                                     /\ Cut(site.nested[m], MaxUrls) \in Seq(Sitemaps \cup {Malformed})
<1> SUFFICES ASSUME TypeOK
             PROVE  /\ Cut(site.rendered, MaxLinks) \in Seq(Names)
                    /\ \A m \in Sitemaps :
                          /\ Cut(site.pages[m], MaxUrls) \in Seq(Names)
                          /\ Cut(site.nested[m], MaxUrls) \in Seq(Sitemaps \cup {Malformed})
  OBVIOUS
<1>1. site \in Website
  BY DiscoveryAssumption DEF TypeOK
<1>2. /\ site.rendered \in Seq(Names)
      /\ \A m \in Sitemaps : /\ site.pages[m] \in Seq(Names)
                             /\ site.nested[m] \in Seq(Sitemaps \cup {Malformed})
  BY <1>1 DEF Website, Names
<1>3. MaxLinks \in Nat /\ MaxUrls \in Nat
  BY DiscoveryAssumption
<1> QED
  BY <1>2, <1>3, CutType

\* What holds of the page of a URL that add was given, and of every other.
LEMMA AddPages ==
    ASSUME TypeOK, NEW u \in Names, NEW d \in Nat, Add(u, d)
    PROVE  /\ page' \in [Urls -> Page]
           /\ \A w \in candidates : /\ page'[w].eligibility = page[w].eligibility
                                    /\ page'[w].exclusion = page[w].exclusion
                                    /\ page'[w].robots = page[w].robots
                                    /\ page'[w].canonical = page[w].canonical
                                    /\ page'[w].verified = page[w].verified
           /\ \A w \in Urls \ candidates : page'[w] = page[w] \/ page'[w] = Fresh(w, d)
<1>0. page \in [Urls -> Page] /\ candidates \subseteq Urls
  BY DEF TypeOK
<1>1. CASE AddMalformed(u)
  BY <1>0, <1>1 DEF AddMalformed, table
<1>2. CASE AddKnown(u, d)
  <2>1. Min2(page[u].depth, d) \in Nat
    BY <1>0, <1>2, PageField DEF AddKnown, Min2
  <2>2. page' = [page EXCEPT ![u] = [page[u] EXCEPT !.depth = Min2(page[u].depth, d)]]
    BY <1>2 DEF AddKnown
  <2>3. page[u] \in Page /\ u \in candidates
    BY <1>0, <1>2 DEF AddKnown
  <2>4. page'[u] \in Page /\ page'[u] = [page[u] EXCEPT !.depth = Min2(page[u].depth, d)]
    BY <1>0, <2>1, <2>2, <2>3, PageField
  <2>5. \A w \in Urls : w # u => page'[w] = page[w]
    BY <1>0, <2>2
  <2>6. /\ page'[u].eligibility = page[u].eligibility
        /\ page'[u].exclusion = page[u].exclusion
        /\ page'[u].robots = page[u].robots
        /\ page'[u].canonical = page[u].canonical
        /\ page'[u].verified = page[u].verified
    BY <2>3, <2>4 DEF Page
  <2> QED
    BY <1>0, <2>2, <2>3, <2>4, <2>5, <2>6
<1>3. CASE RefuseVariant(u)
  BY <1>0, <1>3 DEF RefuseVariant
<1>4. CASE RefuseAtCap(u)
  BY <1>0, <1>4 DEF RefuseAtCap
<1>5. CASE AddNew(u, d)
  <2>1. u \in Urls /\ u \notin candidates /\ page' = [page EXCEPT ![u] = Fresh(u, d)]
    BY <1>5 DEF AddNew, New
  <2>2. Fresh(u, d) \in Page
    BY <2>1, FreshType
  <2> QED
    BY <1>0, <2>1, <2>2
<1> QED
  BY <1>1, <1>2, <1>3, <1>4, <1>5 DEF Add

LEMMA AddType ==
    ASSUME TypeOK, NEW u \in Names, NEW d \in Nat, Add(u, d)
    PROVE  /\ candidates' \in SUBSET Urls /\ order' \in Seq(Urls) /\ page' \in [Urls -> Page]
           /\ variants' \in [Paths -> Nat] /\ capHit' \in BOOLEAN /\ errors' \in SUBSET Codes
           /\ refused' \in SUBSET Urls
<1>0. /\ candidates \in SUBSET Urls /\ order \in Seq(Urls) /\ variants \in [Paths -> Nat]
      /\ capHit \in BOOLEAN /\ errors \in SUBSET Codes /\ refused \in SUBSET Urls
  BY DEF TypeOK
<1>1. page' \in [Urls -> Page]
  BY AddPages
<1>2. ASSUME New(u), CountVariant(u) PROVE variants' \in [Paths -> Nat]
  <2>1. Family[u] = "none" \/ Family[u] \in Paths
    BY <1>2, DiscoveryAssumption DEF New, Paths
  <2> QED
    BY <1>0, <1>2, <2>1 DEF CountVariant
<1>3. CASE AddMalformed(u)
  BY <1>0, <1>1, <1>3 DEF AddMalformed, table
<1>4. CASE AddKnown(u, d)
  BY <1>0, <1>1, <1>4 DEF AddKnown
<1>5. CASE RefuseVariant(u)
  BY <1>0, <1>1, <1>5 DEF RefuseVariant, New, Codes
<1>6. CASE RefuseAtCap(u)
  BY <1>0, <1>1, <1>2, <1>6 DEF RefuseAtCap, New, Codes
<1>7. CASE AddNew(u, d)
  BY <1>0, <1>1, <1>2, <1>7, AppendProperties DEF AddNew, New
<1> QED
  BY <1>3, <1>4, <1>5, <1>6, <1>7 DEF Add

LEMMA AddTable ==
    ASSUME TypeOK, NEW u \in Names, NEW d \in Nat, Add(u, d)
    PROVE  /\ candidates \subseteq candidates' /\ candidates' \subseteq candidates \cup {u}
           /\ refused \subseteq refused' /\ refused' \subseteq refused \cup {u}
           /\ Kept(u) => u \in candidates'
           /\ u \in Urls /\ ~Kept(u) => u \in refused'
<1>1. u \notin Urls => ~Kept(u)
  BY DEF Kept, New, TypeOK
<1>2. u = Malformed => u \notin Urls
  BY DiscoveryAssumption
<1>3. CASE AddMalformed(u)
  BY <1>1, <1>2, <1>3 DEF AddMalformed, table
<1>4. CASE AddKnown(u, d)
  BY <1>4 DEF AddKnown, Kept
<1>5. CASE RefuseVariant(u)
  BY <1>5 DEF RefuseVariant, Kept, New
<1>6. CASE RefuseAtCap(u)
  BY <1>6 DEF RefuseAtCap, Kept, New
<1>7. CASE AddNew(u, d)
  BY <1>7 DEF AddNew, Kept, New
<1> QED
  BY <1>3, <1>4, <1>5, <1>6, <1>7 DEF Add

LEMMA MarkType ==
    ASSUME TypeOK, NEW u \in Urls, NEW e \in {"eligible", "excluded", "skipped"},
           NEW x \in Exclusions, Mark(u, e, x)
    PROVE  /\ page' \in [Urls -> Page]
           /\ \A w \in Urls : w # u => page'[w] = page[w]
           /\ page'[u].eligibility = e /\ page'[u].exclusion = x
           /\ page'[u].canonical = page[u].canonical /\ page'[u].verified = page[u].verified
<1>1. page \in [Urls -> Page] /\ page[u] \in Page
  BY DEF TypeOK
<1>2. RobotsStatus(u) \in {"unknown", "allowed", "disallowed"}
  BY DEF RobotsStatus
<1> DEFINE p == [page[u] EXCEPT !.robots = RobotsStatus(u), !.eligibility = e, !.exclusion = x]
<1>3. page' = [page EXCEPT ![u] = p]
  BY <1>1 DEF Mark
<1>4. p \in Page
  BY <1>1, <1>2 DEF Page
<1>5. p.eligibility = e /\ p.exclusion = x /\ p.canonical = page[u].canonical
      /\ p.verified = page[u].verified
  BY <1>1 DEF Page
<1> HIDE DEF p
<1> QED
  BY <1>1, <1>3, <1>4, <1>5

\* The types, and what they need: finitely many URLs are beyond the limit of depth, and a
\* page vouches only for a candidate.
Typed ==
    /\ TypeOK /\ IsFiniteSet(blocked)
    /\ pc = "vouch" => Canonical \in candidates

LEMMA TypeInit == Init => Typed
<1> SUFFICES ASSUME Init PROVE Typed
  OBVIOUS
<1>1. page \in [Urls -> Page]
  BY FreshType DEF Init
<1>2. IsFiniteSet(blocked)
  BY FS_EmptySet DEF Init
<1>3. queue \in Seq(Entry) /\ current \in Entry
  BY DiscoveryAssumption DEF Init, Entry
<1>4. <<>> \in Seq(Urls) /\ <<>> \in Seq(Names) /\ <<>> \in Seq(MapEntry)
  OBVIOUS
<1> QED
  BY <1>1, <1>2, <1>3, <1>4
     DEF Init, Typed, TypeOK, Policies, NoOutcome, Entry, MapEntry, Names

\* robots.txt and the sitemaps.
LEMMA SitemapsTyped ==
    ASSUME TypeOK, ReadRobots \/ SitemapMalformed \/ SitemapSeen \/ SitemapIgnored
                   \/ SitemapFails \/ SitemapRead \/ LeaveSitemaps
    PROVE  TypeOK'
<1> USE DEF crawl, maps, frontier, table, rest
<1>0. sitemapQueue \in Seq(MapEntry) /\ pending \in Seq(Names)
  BY DEF TypeOK, MapEntry, Names
<1>1. CASE ReadRobots
  <2>1. PICK read \in Policies \ {"unread"}, named \in {<<>>} \cup {<<m>> : m \in Sitemaps} :
          /\ policy' = read
          /\ sitemapQueue' = Append([i \in DOMAIN named |-> [map |-> named[i], depth |-> 0]],
                                    [map |-> RootSitemap, depth |-> 0])
          /\ disallowed' \in IF read = "parsed" THEN RobotsRules ELSE {{}}
          /\ errors' = errors \/ errors' = errors \cup {"ROBOTS_FETCH_FAILED"}
    BY <1>1 DEF ReadRobots
  <2>2. named \in Seq(Sitemaps)
    <3>1. \A m \in Sitemaps : <<m>> \in Seq(Sitemaps)
      OBVIOUS
    <3>2. <<>> \in Seq(Sitemaps)
      OBVIOUS
    <3> QED
      BY <3>1, <3>2
  <2>3. [i \in DOMAIN named |-> [map |-> named[i], depth |-> 0]] \in Seq(MapEntry)
    <3>1. DOMAIN named = 1..Len(named) /\ Len(named) \in Nat /\ \A i \in DOMAIN named : named[i] \in Sitemaps
      BY <2>2, LenProperties
    <3> QED
      BY <3>1, IsASeq DEF MapEntry
  <2>4. [map |-> RootSitemap, depth |-> 0] \in MapEntry
    BY DiscoveryAssumption DEF MapEntry
  <2>5. sitemapQueue' \in Seq(MapEntry)
    BY <2>1, <2>3, <2>4, AppendProperties
  <2>6. disallowed' \in SUBSET Urls
    BY <2>1, DiscoveryAssumption
  <2> QED
    BY <1>1, <2>1, <2>5, <2>6 DEF ReadRobots, TypeOK, MapEntry, Codes
<1>2. ASSUME TakeSitemap
      PROVE  /\ Tail(sitemapQueue) \in Seq(MapEntry) /\ Head(sitemapQueue) \in MapEntry
  BY <1>0, <1>2, HeadTailProperties DEF TakeSitemap, MoreSitemaps
<1>3. CASE SitemapMalformed
  BY <1>2, <1>3 DEF SitemapMalformed, TakeSitemap, TypeOK, MapEntry, Codes
<1>4. CASE SitemapSeen
  BY <1>2, <1>4 DEF SitemapSeen, TakeSitemap, TypeOK, MapEntry
<1>5. CASE SitemapIgnored
  BY <1>2, <1>5 DEF SitemapIgnored, TakeSitemap, TypeOK, MapEntry
<1>6. CASE SitemapFails
  BY <1>2, <1>6 DEF SitemapFails, TakeSitemap, TypeOK, MapEntry, Codes
<1>7. CASE SitemapRead
  <2> DEFINE nested == Cut(site.nested[NextSitemap], MaxUrls)
             deeper == [i \in DOMAIN nested |->
                           [map |-> nested[i], depth |-> Head(sitemapQueue).depth + 1]]
  <2>0. TakeSitemap /\ NextSitemap \in Sitemaps
    BY <1>7 DEF SitemapRead
  <2>1. nested \in Seq(Sitemaps \cup {Malformed}) /\ Cut(site.pages[NextSitemap], MaxUrls) \in Seq(Names)
    BY <2>0, SiteType
  <2>2. Head(sitemapQueue).depth \in Nat
    BY <1>2, <2>0 DEF MapEntry
  <2>3. deeper \in Seq(MapEntry)
    <3>1. DOMAIN nested = 1..Len(nested) /\ Len(nested) \in Nat
          /\ \A i \in DOMAIN nested : nested[i] \in Sitemaps \cup {Malformed}
      BY <2>1, LenProperties
    <3> HIDE DEF nested
    <3> QED
      BY <2>2, <3>1, IsASeq DEF MapEntry
  <2>4. sitemapQueue' \in {Tail(sitemapQueue) \o deeper, Tail(sitemapQueue) \o <<>>}
    BY <1>7 DEF SitemapRead
  <2>5. sitemapQueue' \in Seq(MapEntry)
    <3> HIDE DEF deeper, nested
    <3>1. Tail(sitemapQueue) \in Seq(MapEntry) /\ <<>> \in Seq(MapEntry)
      BY <1>2, <2>0
    <3>2. Tail(sitemapQueue) \o deeper \in Seq(MapEntry)
      BY <2>3, <3>1, ConcatProperties
    <3>3. Tail(sitemapQueue) \o <<>> \in Seq(MapEntry)
      BY <3>1, ConcatProperties
    <3> QED
      BY <2>4, <3>2, <3>3
  <2> QED
    BY <1>7, <2>0, <2>1, <2>5 DEF SitemapRead, TakeSitemap, TypeOK, MapEntry, Names
<1>8. CASE LeaveSitemaps
  BY <1>8, SiteType DEF LeaveSitemaps, TypeOK, Names, Codes
<1> QED
  BY <1>1, <1>3, <1>4, <1>5, <1>6, <1>7, <1>8

\* The candidates of sitemaps, of the first page and of canonical URLs.
LEMMA AddsTyped ==
    ASSUME TypeOK, AddSubmitted \/ AddEntry \/ EntriesAdded \/ AddCanonical
    PROVE  TypeOK'
<1> USE DEF crawl, maps, frontier, table, rest
<1>0. pending \in Seq(Names) /\ current \in Entry
  BY DEF TypeOK, Names, Entry
<1>1. CASE AddSubmitted
  <2>1. Submitted \in Names /\ 0 \in Nat /\ Add(Submitted, 0)
    BY <1>1, DiscoveryAssumption DEF AddSubmitted, Names
  <2> QED
    BY <1>1, <2>1, AddType DEF AddSubmitted, TypeOK
<1>2. CASE AddEntry
  <2>1. Head(pending) \in Names /\ Tail(pending) \in Seq(Names)
    BY <1>0, <1>2, HeadTailProperties DEF AddEntry
  <2>2. \E d \in {0, 1} : Add(Head(pending), d)
    BY <1>2 DEF AddEntry
  <2>3. PICK d \in Nat : Add(Head(pending), d)
    BY <2>2
  <2> QED
    BY <1>2, <2>1, <2>3, AddType DEF AddEntry, TypeOK, Names
<1>3. CASE EntriesAdded
  BY <1>3 DEF EntriesAdded, TypeOK
<1>4. CASE AddCanonical
  <2>1. Canonical \in Names /\ current.depth \in Nat /\ Add(Canonical, current.depth)
    BY <1>0, <1>4 DEF AddCanonical, Names, Entry
  <2> QED
    BY <1>4, <2>1, AddType DEF AddCanonical, TypeOK
<1> QED
  BY <1>1, <1>2, <1>3, <1>4

\* Taking a page from the frontier, and what becomes of it.
LEMMA TakeTyped ==
    ASSUME TypeOK, TakePage
    PROVE  queue # <<>> /\ Head(queue) \in Entry /\ Tail(queue) \in Seq(Entry)
<1>1. queue \in Seq(Entry) /\ queue # <<>>
  BY DEF TakePage, MorePages, TypeOK, Entry
<1> QED
  BY <1>1, HeadTailProperties

LEMMA VisitTyped ==
    ASSUME TypeOK, SkipEntry \/ \E u \in Urls : VisitPage(u)
    PROVE  TypeOK'
<1> USE DEF crawl, maps, frontier, table, rest
<1>1. CASE SkipEntry
  BY <1>1, TakeTyped DEF SkipEntry, TakePage, TypeOK, Entry
<1>2. ASSUME NEW u \in Urls, VisitPage(u) PROVE TypeOK'
  <2>1. TakePage /\ queue' = Tail(queue) /\ queue' \in Seq(Entry) /\ Head(queue) \in Entry
    BY <1>2, TakeTyped DEF VisitPage, PageDisallowed, PageFails, PageRedirectsOutside,
       PageUnusable, PageRead, Asked, TakePage
  <2>2. page[u].exclusion \in Exclusions
    BY PageField DEF TypeOK
  <2>3. \E e \in {"eligible", "excluded", "skipped"}, x \in Exclusions : Mark(u, e, x)
    BY <1>2, <2>2 DEF VisitPage, PageDisallowed, PageFails, PageRedirectsOutside,
       PageUnusable, PageRead, Exclusions
  <2>4. page' \in [Urls -> Page]
    BY <2>3, MarkType
  <2>5. errors' \in SUBSET Codes /\ current' \in Entry /\ pc' \in {pc, "canonical"}
    BY <1>2, <2>1 DEF VisitPage, PageDisallowed, PageFails, PageRedirectsOutside,
       PageUnusable, PageRead, Asked, TakePage, TypeOK, Codes, Entry
  <2>6. UNCHANGED <<candidates, order, variants, capHit, refused>>
    BY <1>2 DEF VisitPage, PageDisallowed, PageFails, PageRedirectsOutside, PageUnusable, PageRead
  <2> QED
    BY <2>1, <2>4, <2>5, <2>6 DEF TakePage, TypeOK, Entry
<1> QED
  BY <1>1, <1>2

LEMMA VouchType ==
    ASSUME TypeOK, Vouch, Canonical \in Urls
    PROVE  /\ page' \in [Urls -> Page]
           /\ page'[current.url].canonical = Canonical
           /\ \A w \in Urls \ {Canonical} : page'[w].eligibility = page[w].eligibility
           /\ \A w \in Urls \ {Canonical} : page'[w].verified = page[w].verified
           /\ \A w \in Urls \ {Canonical} : page'[w].exclusion = page[w].exclusion
           /\ \A w \in Urls \ {current.url} : page'[w].canonical = page[w].canonical
           /\ \/ page'[Canonical].eligibility = page[Canonical].eligibility
                 /\ page'[Canonical].exclusion = page[Canonical].exclusion
                 /\ page'[Canonical].verified = page[Canonical].verified
              \/ page[Canonical].exclusion = "subdomain_not_enabled"
                 /\ page'[Canonical].eligibility = "eligible"
                 /\ page'[Canonical].exclusion = "none"
                 /\ page'[Canonical].verified
<1> DEFINE p == [page[current.url] EXCEPT !.canonical = Canonical]
           named == [page EXCEPT ![current.url] = p]
<1>1. page \in [Urls -> Page] /\ current.url \in Urls
  BY DEF TypeOK
<1>2. /\ p \in Page /\ p.canonical = Canonical /\ p.eligibility = page[current.url].eligibility
      /\ p.exclusion = page[current.url].exclusion /\ p.verified = page[current.url].verified
  <2>1. page[current.url] \in Page
    BY <1>1
  <2> QED
    BY <2>1, PageField DEF Page
<1>3. page' = IF named[Canonical].exclusion = "subdomain_not_enabled"
              THEN [named EXCEPT ![Canonical] = Vouched(named[Canonical])] ELSE named
  BY <1>1 DEF Vouch
<1>4. /\ named \in [Urls -> Page] /\ named[current.url] = p
      /\ \A w \in Urls : w # current.url => named[w] = page[w]
  <2> HIDE DEF p
  <2> QED
    BY <1>1, <1>2
<1> HIDE DEF p, named
<1>5. CASE named[Canonical].exclusion = "subdomain_not_enabled"
  <2> DEFINE q == Vouched(named[Canonical])
  <2>1. /\ q \in Page /\ q.eligibility = "eligible" /\ q.exclusion = "none" /\ q.verified
        /\ q.canonical = named[Canonical].canonical
    <3>1. named[Canonical] \in Page
      BY <1>4
    <3> QED
      BY <3>1 DEF Vouched, Page, Exclusions
  <2>2. page' = [named EXCEPT ![Canonical] = q]
    BY <1>3, <1>5
  <2> HIDE DEF q
  <2>3. page' \in [Urls -> Page] /\ page'[Canonical] = q /\ \A w \in Urls \ {Canonical} : page'[w] = named[w]
    BY <1>4, <2>1, <2>2
  <2>4. page[Canonical].exclusion = "subdomain_not_enabled"
    BY <1>2, <1>4, <1>5
  <2> QED
    BY <1>1, <1>2, <1>4, <2>1, <2>3, <2>4
<1>6. CASE named[Canonical].exclusion # "subdomain_not_enabled"
  BY <1>1, <1>2, <1>3, <1>4, <1>6
<1> QED
  BY <1>5, <1>6

LEMMA WalkTyped ==
    ASSUME Typed, NoCanonical \/ Vouch \/ VisitAtLimit \/ Visit \/ LinksFollowed \/ LeavePages
    PROVE  TypeOK'
<1> USE DEF crawl, maps, frontier, table, rest
<1>0. TypeOK /\ fetchedAt \in [Urls -> Nat \cup {-1}] /\ current \in Entry
  BY DEF TypeOK, Typed, Entry
<1>1. CASE NoCanonical
  BY <1>0, <1>1 DEF NoCanonical, TypeOK
<1>2. CASE Vouch
  <2>1. Canonical \in Urls
    BY <1>0, <1>2 DEF Vouch, Typed, TypeOK
  <2>2. page' \in [Urls -> Page]
    BY <1>0, <1>2, <2>1, VouchType
  <2> QED
    BY <1>0, <1>2, <2>2 DEF Vouch, TypeOK
<1>3. current.depth \in Nat /\ current.url \in Urls
  BY <1>0 DEF Entry
<1>4. ASSUME fetchedAt' = [fetchedAt EXCEPT ![current.url] = current.depth]
      PROVE  fetchedAt' \in [Urls -> Nat \cup {-1}]
  BY <1>0, <1>3, <1>4
<1>5. CASE VisitAtLimit
  <2>1. Beyond \subseteq Urls
    BY DEF Beyond
  <2>2. errors' \in SUBSET Codes
    BY <1>0, <1>5 DEF VisitAtLimit, TypeOK, Codes
  <2> QED
    BY <1>0, <1>4, <1>5, <2>1, <2>2 DEF VisitAtLimit, TypeOK
<1>6. CASE Visit
  <2>1. Links(current.url) \in Seq(Names)
    BY <1>0, <1>3, LinksType
  <2> QED
    BY <1>0, <1>4, <1>6, <2>1 DEF Visit, TypeOK, Names
<1>7. CASE LinksFollowed
  BY <1>0, <1>7 DEF LinksFollowed, TypeOK
<1>8. CASE LeavePages
  BY <1>0, <1>8 DEF LeavePages, TypeOK, Codes
<1> QED
  BY <1>1, <1>2, <1>5, <1>6, <1>7, <1>8

\* What following a link does to the frontier.
LEMMA FollowsLink ==
    ASSUME TypeOK, FollowLink
    PROVE  /\ Head(pending) \in Names /\ Tail(pending) \in Seq(Names) /\ pending # <<>>
           /\ current \in Entry /\ current.depth + 1 \in Nat
           /\ Add(Head(pending), current.depth + 1)
           /\ \/ /\ Head(pending) \in Urls /\ Kept(Head(pending)) /\ Head(pending) \notin Fetched
                 /\ [url |-> Head(pending), depth |-> current.depth + 1] \in Entry
                 /\ queue' = Append(queue, [url |-> Head(pending), depth |-> current.depth + 1])
              \/ /\ ~Kept(Head(pending)) \/ Head(pending) \in Fetched
                 /\ queue' = queue
<1>1. pending \in Seq(Names) /\ pending # <<>> /\ current \in Entry
  BY DEF FollowLink, TypeOK, Names, Entry
<1>2. Head(pending) \in Names /\ Tail(pending) \in Seq(Names)
  BY <1>1, HeadTailProperties
<1>3. current.depth + 1 \in Nat
  BY <1>1 DEF Entry
<1>4. Kept(Head(pending)) => Head(pending) \in Urls
  BY DEF Kept, New, TypeOK
<1> QED
  BY <1>1, <1>2, <1>3, <1>4 DEF FollowLink, Entry

LEMMA FollowTyped ==
    ASSUME TypeOK, FollowLink
    PROVE  TypeOK'
<1>1. queue \in Seq(Entry)
  BY DEF TypeOK, Entry
<1>2. queue' \in Seq(Entry)
  BY <1>1, FollowsLink, AppendProperties
<1>3. /\ candidates' \in SUBSET Urls /\ order' \in Seq(Urls) /\ page' \in [Urls -> Page]
      /\ variants' \in [Paths -> Nat] /\ capHit' \in BOOLEAN /\ errors' \in SUBSET Codes
      /\ refused' \in SUBSET Urls
  BY FollowsLink, AddType
<1>4. pending' \in Seq(Names)
  BY FollowsLink DEF FollowLink
<1> QED
  BY <1>2, <1>3, <1>4 DEF FollowLink, TypeOK, Entry, Names, crawl, maps, rest

\* What the pages that were never visited become, and those that are merged.
LEMMA Unvisited ==
    ASSUME TypeOK, CheckUnvisited
    PROVE  /\ page' \in [Urls -> Page]
           /\ \A w \in Urls : /\ page'[w].canonical = page[w].canonical
                              /\ page'[w].verified = page[w].verified
                              /\ \/ page'[w].eligibility = page[w].eligibility
                                 \/ page'[w].eligibility # "eligible" /\ RobotsStatus(w) = "disallowed"
                              /\ page'[w].exclusion \in {page[w].exclusion, "robots_disallowed"}
<1> DEFINE D(w) == [page[w] EXCEPT !.robots = "disallowed", !.eligibility = "excluded",
                                   !.exclusion = "robots_disallowed"]
           R(w) == [page[w] EXCEPT !.robots = RobotsStatus(w)]
<1>1. page \in [Urls -> Page]
  BY DEF TypeOK
<1>2. ASSUME NEW w \in Urls
      PROVE  /\ D(w) \in Page /\ D(w).canonical = page[w].canonical
             /\ D(w).verified = page[w].verified /\ D(w).eligibility = "excluded"
             /\ D(w).exclusion = "robots_disallowed"
  <2>1. page[w] \in Page
    BY <1>1
  <2> QED
    BY <2>1 DEF Page, Exclusions
<1>3. ASSUME NEW w \in Urls
      PROVE  /\ R(w) \in Page /\ R(w).canonical = page[w].canonical
             /\ R(w).verified = page[w].verified /\ R(w).eligibility = page[w].eligibility
             /\ R(w).exclusion = page[w].exclusion
  <2>1. page[w] \in Page /\ RobotsStatus(w) \in {"unknown", "allowed", "disallowed"}
    BY <1>1 DEF RobotsStatus
  <2> QED
    BY <2>1 DEF Page
<1>4. page' = [w \in Urls |-> IF ~Eligible(w) \/ page[w].robots # "unknown" THEN page[w]
                              ELSE IF RobotsStatus(w) = "disallowed" THEN D(w) ELSE R(w)]
  BY DEF CheckUnvisited
<1> HIDE DEF D, R
<1>5. ASSUME NEW w \in Urls
      PROVE  \/ page'[w] = page[w]
             \/ page'[w] = D(w) /\ RobotsStatus(w) = "disallowed"
             \/ page'[w] = R(w)
  BY <1>4
<1>6. page' \in [Urls -> Page]
  BY <1>1, <1>2, <1>3, <1>4
<1> QED
  BY <1>2, <1>3, <1>5, <1>6

LEMMA Merges ==
    ASSUME TypeOK, Merge
    PROVE  /\ page' \in [Urls -> Page] /\ merging' \in Seq(Urls)
           /\ \E u \in Urls : /\ page[u].canonical \in candidates \ {u}
                              /\ candidates' = candidates \ {u}
                              /\ page'[page[u].canonical].canonical = page[u].canonical
                              /\ \A w \in Urls : w # page[u].canonical => page'[w] = page[w]
           /\ \A w \in Urls : /\ page'[w].eligibility = page[w].eligibility
                              /\ page'[w].verified = page[w].verified
                              /\ page'[w].exclusion = page[w].exclusion
                              /\ page'[w].canonical \in {page[w].canonical, w}
<1>1. page \in [Urls -> Page] /\ merging \in Seq(Urls) /\ merging # <<>> /\ candidates \subseteq Urls
  BY DEF TypeOK, Merge
<1>2. Head(merging) \in Urls /\ Tail(merging) \in Seq(Urls)
  BY <1>1, HeadTailProperties
<1> DEFINE u == Head(merging)
           t == page[u].canonical
           d == Min2(page[t].depth, page[u].depth)
           p == [page[t] EXCEPT !.depth = d, !.canonical = t]
<1>3. t \in candidates \ {u} /\ t \in Urls
  BY <1>1 DEF Merge, Mergeable
<1>4. page[t] \in Page /\ page[u] \in Page
  BY <1>1, <1>2, <1>3
<1>5. d \in Nat
  BY <1>4 DEF Page, Min2
<1>6. page' = [page EXCEPT ![t] = p]
  BY <1>1, <1>3 DEF Merge
<1>7. p \in Page /\ p.canonical = t /\ p.eligibility = page[t].eligibility
      /\ p.verified = page[t].verified /\ p.exclusion = page[t].exclusion
  <2> HIDE DEF d
  <2> QED
    BY <1>3, <1>4, <1>5 DEF Page
<1>8. candidates' = candidates \ {u} /\ merging' = Tail(merging)
  BY DEF Merge
<1> HIDE DEF p
<1>9. page' \in [Urls -> Page] /\ page'[t] = p /\ \A w \in Urls : w # t => page'[w] = page[w]
  <2> HIDE DEF t
  <2> QED
    BY <1>1, <1>3, <1>6, <1>7
<1>10. \A w \in Urls : /\ page'[w].eligibility = page[w].eligibility
                       /\ page'[w].verified = page[w].verified
                       /\ page'[w].exclusion = page[w].exclusion
                       /\ page'[w].canonical \in {page[w].canonical, w}
  <2> HIDE DEF t
  <2> QED
    BY <1>7, <1>9
<1>11. page'[t].canonical = t
  BY <1>7, <1>9
<1> QED
  BY <1>2, <1>3, <1>8, <1>9, <1>10, <1>11

LEMMA RemainingCounted ==
    ASSUME Typed
    PROVE  /\ Remaining \in Nat
           /\ Remaining = 0 => Unprocessed = {} /\ blocked = {} /\ sitemapQueue = <<>>
<1>1. queue \in Seq(Entry) /\ sitemapQueue \in Seq(MapEntry)
  BY DEF Typed, TypeOK, Entry, MapEntry
<1>2. IsFiniteSet(Unprocessed)
  <2> DEFINE Entries == {queue[i] : i \in DOMAIN queue}
             f == [e \in Entries |-> e.url]
  <2>1. IsFiniteSet(Entries)
    BY <1>1, ImageFinite
  <2>2. f \in Surjection(Entries, Queued)
    BY DEF Surjection, Queued
  <2>3. IsFiniteSet(Queued)
    BY <2>1, <2>2, FS_Surjection
  <2>4. Unprocessed \in SUBSET Queued
    BY DEF Unprocessed
  <2> QED
    BY <2>3, <2>4, FS_Subset
<1>3. IsFiniteSet(blocked)
  BY DEF Typed
<1>4. /\ Cardinality(Unprocessed) \in Nat /\ Cardinality(blocked) \in Nat
      /\ Len(sitemapQueue) \in Nat
  BY <1>1, <1>2, <1>3, FS_CardinalityType, LenProperties
<1>5. Cardinality(Unprocessed) = 0 => Unprocessed = {}
  BY <1>2, FS_EmptySet
<1>6. Cardinality(blocked) = 0 => blocked = {}
  BY <1>3, FS_EmptySet
<1>7. Len(sitemapQueue) = 0 => sitemapQueue = <<>>
  BY <1>1
<1> QED
  BY <1>4, <1>5, <1>6, <1>7 DEF Remaining

LEMMA ReportTyped ==
    ASSUME Typed, CheckUnvisited \/ Merge \/ KeepApart \/ Finish
    PROVE  TypeOK'
<1> USE DEF crawl, maps, frontier, table, rest
<1>0. TypeOK /\ merging \in Seq(Urls) /\ order \in Seq(Urls)
  BY DEF Typed, TypeOK
<1>1. CASE CheckUnvisited
  BY <1>0, <1>1, Unvisited DEF CheckUnvisited, TypeOK
<1>2. CASE Merge
  <2>1. page' \in [Urls -> Page] /\ merging' \in Seq(Urls) /\ candidates' \subseteq candidates
    BY <1>0, <1>2, Merges
  <2> QED
    BY <1>0, <1>2, <2>1 DEF Merge, TypeOK
<1>3. CASE KeepApart
  <2>1. merging' \in Seq(Urls)
    BY <1>0, <1>3, HeadTailProperties DEF KeepApart
  <2> QED
    BY <1>0, <1>3, <2>1 DEF KeepApart, TypeOK
<1>4. CASE Finish
  <2>1. Remaining \in Nat
    BY RemainingCounted
  <2>2. Bound \in {"none", "job_deadline_seconds", "max_discovered_urls",
                   "max_html_pages", "max_crawl_depth", "max_sitemap_files"}
    BY DEF Bound
  <2> QED
    BY <1>0, <1>4, <2>1, <2>2 DEF Finish, TypeOK
<1> QED
  BY <1>1, <1>2, <1>3, <1>4

LEMMA StepTyped ==
    ASSUME Typed, [Next]_vars
    PROVE  TypeOK'
<1>0. TypeOK
  BY DEF Typed
<1>1. CASE ReadSitemaps
  BY <1>0, <1>1, SitemapsTyped, AddsTyped DEF ReadSitemaps
<1>2. CASE WalkPages
  BY <1>0, <1>2, VisitTyped, AddsTyped, WalkTyped, FollowTyped DEF WalkPages
<1>3. CASE Report
  BY <1>3, ReportTyped DEF Report
<1>4. CASE DeadlinePasses
  BY <1>0, <1>4 DEF DeadlinePasses, TypeOK, crawl, maps, frontier, table, rest
<1>5. CASE UNCHANGED vars
  BY <1>0, <1>5 DEF vars, TypeOK, crawl, maps, frontier, table, rest
<1> QED
  BY <1>0, <1>1, <1>2, <1>3, <1>4, <1>5, AddsTyped, SitemapsTyped DEF Next, Crawl

LEMMA TypedNext ==
    ASSUME Typed, [Next]_vars
    PROVE  Typed'
<1> USE DEF crawl, maps, frontier, table, rest
<1>1. TypeOK'
  BY StepTyped
<1>2. IsFiniteSet(blocked)'
  <2>1. CASE VisitAtLimit
    <3> DEFINE T == {Links(current.url)[i] : i \in DOMAIN Links(current.url)}
    <3>1. Links(current.url) \in Seq(Names)
      BY LinksType DEF Typed, TypeOK
    <3>2. IsFiniteSet(T)
      BY <3>1, ImageFinite
    <3>3. Beyond \in SUBSET T
      BY DEF Beyond
    <3>4. IsFiniteSet(Beyond) /\ IsFiniteSet(blocked)
      BY <3>2, <3>3, FS_Subset DEF Typed
    <3>5. blocked' = blocked \cup Beyond
      BY <2>1 DEF VisitAtLimit
    <3> QED
      BY <3>4, <3>5, FS_Union
  <2>2. CASE ~VisitAtLimit
    <3>1. blocked' = blocked
      BY <2>2 DEF Next, Crawl, AddSubmitted, ReadRobots, ReadSitemaps, SitemapMalformed,
         SitemapSeen, SitemapIgnored, SitemapFails, SitemapRead, LeaveSitemaps, AddEntry,
         EntriesAdded, TakeSitemap, WalkPages, SkipEntry, VisitPage, PageDisallowed, PageFails,
         PageRedirectsOutside, PageUnusable, PageRead, Asked, TakePage, NoCanonical,
         AddCanonical, Vouch, Visit, FollowLink, LinksFollowed, LeavePages, Report,
         CheckUnvisited, Merge, KeepApart, Finish, DeadlinePasses, vars
    <3> QED
      BY <3>1 DEF Typed
  <2> QED
    BY <2>1, <2>2
<1>3. ASSUME pc' = "vouch" PROVE (Canonical \in candidates)'
  <2>1. CASE AddCanonical
    <3>1. Canonical \in Names /\ current.depth \in Nat /\ Kept(Canonical) /\ Add(Canonical, current.depth)
      BY <1>3, <2>1 DEF AddCanonical, Names, Typed, TypeOK
    <3>2. Canonical \in candidates'
      BY <3>1, AddTable DEF Typed
    <3> QED
      BY <2>1, <3>2 DEF AddCanonical, Canonical
  <2>2. CASE UNCHANGED vars
    BY <1>3, <2>2 DEF vars, Typed, Canonical
  <2> QED
    BY <1>3, <2>1, <2>2 DEF Next, Crawl, AddSubmitted, ReadRobots, ReadSitemaps,
       SitemapMalformed, SitemapSeen, SitemapIgnored, SitemapFails, SitemapRead, LeaveSitemaps,
       AddEntry, EntriesAdded, TakeSitemap, WalkPages, SkipEntry, VisitPage, PageDisallowed,
       PageFails, PageRedirectsOutside, PageUnusable, PageRead, Asked, TakePage, NoCanonical,
       Vouch, VisitAtLimit, Visit, FollowLink, LinksFollowed, LeavePages, Report,
       CheckUnvisited, Merge, KeepApart, Finish, DeadlinePasses
<1> QED
  BY <1>1, <1>2, <1>3 DEF Typed

LEMMA TypesHold == Spec => []Typed
BY TypeInit, TypedNext, PTL DEF Spec

\* Every variable keeps its type, whatever the website, its limits and the answers of the
\* network; the crawl reads only websites and documents that have one.
THEOREM TypeCorrect == Spec => []TypeOK
<1>1. Typed => TypeOK
  BY DEF Typed
<1> QED
  BY <1>1, TypesHold, PTL

-----------------------------------------------------------------------------
(* The steps, by what they change.                                          *)

Listed == Range(order)
InHand == pc \in {"canonical", "vouch", "visited"}
Merged == pc \in {"merge", "done"}

\* A step that adds a URL, which it does before anything is merged.
Adds(u, d) ==
    /\ Add(u, d)
    /\ pc \in {"start", "entries", "rendered", "canonical", "links"}
    /\ UNCHANGED <<site, policy, disallowed, fetchedAt, current, blocked, outcome>>

\* A page is visited.
Visits ==
    /\ pc = "visited" /\ pc' \in {"pages", "links"}
    /\ fetchedAt' = [fetchedAt EXCEPT ![current.url] = current.depth]
    /\ UNCHANGED <<site, policy, disallowed, table, queue, current, outcome>>

LEMMA TableMoves ==
    ASSUME TypeOK, [Next]_vars
    PROVE  \/ UNCHANGED table
           \/ \E u \in Names, d \in Nat : Adds(u, d)
           \/ \E u \in Urls : VisitPage(u)
           \/ Vouch \/ CheckUnvisited \/ Merge
<1> USE DEF crawl, maps, frontier, table, rest
<1>0. pending \in Seq(Names) /\ current \in Entry
  BY DEF TypeOK, Names, Entry
<1>1. CASE AddSubmitted
  BY <1>1, DiscoveryAssumption DEF AddSubmitted, Adds, Names
<1>2. CASE AddEntry
  <2>1. Head(pending) \in Names
    BY <1>0, <1>2, HeadTailProperties DEF AddEntry
  <2>2. PICK d \in Nat : Add(Head(pending), d)
    BY <1>2 DEF AddEntry
  <2>3. Adds(Head(pending), d)
    BY <1>2, <2>2 DEF AddEntry, Adds
  <2> QED
    BY <2>1, <2>3
<1>3. CASE AddCanonical
  BY <1>0, <1>3 DEF AddCanonical, Adds, Names, Entry
<1>4. CASE FollowLink
  <2>1. Adds(Head(pending), current.depth + 1)
    BY <1>4 DEF FollowLink, Adds
  <2> QED
    BY <1>4, <2>1, FollowsLink
<1>5. CASE ReadRobots \/ ReadSitemaps
  BY <1>2, <1>5 DEF ReadRobots, ReadSitemaps, SitemapMalformed, SitemapSeen, SitemapIgnored,
     SitemapFails, SitemapRead, LeaveSitemaps, EntriesAdded, TakeSitemap
<1>6. CASE WalkPages
  BY <1>3, <1>4, <1>6 DEF WalkPages, SkipEntry, NoCanonical, VisitAtLimit, Visit,
     LinksFollowed, LeavePages
<1>7. CASE Report \/ DeadlinePasses \/ UNCHANGED vars
  BY <1>7 DEF Report, KeepApart, Finish, DeadlinePasses, vars
<1> QED
  BY <1>1, <1>5, <1>6, <1>7 DEF Next, Crawl

LEMMA VisitMoves ==
    ASSUME [Next]_vars
    PROVE  Visits \/ UNCHANGED fetchedAt
BY DEF Visits, Next, Crawl, AddSubmitted, ReadRobots, ReadSitemaps, SitemapMalformed,
   SitemapSeen, SitemapIgnored, SitemapFails, SitemapRead, LeaveSitemaps, AddEntry,
   EntriesAdded, TakeSitemap, WalkPages, SkipEntry, VisitPage, PageDisallowed, PageFails,
   PageRedirectsOutside, PageUnusable, PageRead, Asked, TakePage, NoCanonical, AddCanonical,
   Vouch, VisitAtLimit, Visit, FollowLink, LinksFollowed, LeavePages, Report, CheckUnvisited,
   Merge, KeepApart, Finish, DeadlinePasses, vars, crawl, maps, frontier, table, rest

LEMMA PlaceMoves ==
    ASSUME [Next]_vars
    PROVE  /\ Merged => Merged'
           /\ Merged' => Merged \/ CheckUnvisited
           /\ InHand' => (InHand /\ current' = current) \/ \E u \in Urls : PageRead(u)
           /\ pc' = "visited" => \/ pc = "visited" /\ current' = current
                                 \/ NoCanonical \/ AddCanonical \/ Vouch
           /\ pc' = "links" => Visit \/ FollowLink \/ (pc = "links" /\ UNCHANGED vars)
           /\ pc' = "done" => pc = "done" \/ Finish
           /\ pc = "visited" => VisitAtLimit \/ Visit \/ UNCHANGED vars
           /\ pc = "links" => FollowLink \/ LinksFollowed \/ UNCHANGED vars
           /\ InHand => current' = current /\ (InHand' \/ VisitAtLimit \/ Visit)
           /\ pc = "done" => UNCHANGED vars
           /\ Finish \/ UNCHANGED outcome
           /\ pc # "start" => pc' # "start"
           /\ pc = "start" => AddSubmitted \/ UNCHANGED vars
           /\ pc' \in {"start", "robots"} => pc \in {"start", "robots"}
           /\ site' = site
           /\ ReadRobots \/ UNCHANGED <<policy, disallowed>>
<1> USE DEF crawl, maps, frontier, table, rest
<1>1. CASE AddSubmitted \/ ReadRobots
  BY <1>1 DEF Merged, InHand, AddSubmitted, ReadRobots
<1>2. CASE ReadSitemaps
  BY <1>2 DEF Merged, InHand, ReadSitemaps, SitemapMalformed, SitemapSeen, SitemapIgnored,
     SitemapFails, SitemapRead, LeaveSitemaps, AddEntry, EntriesAdded, TakeSitemap
<1>3. CASE SkipEntry \/ \E u \in Urls : VisitPage(u)
  BY <1>3 DEF Merged, InHand, SkipEntry, VisitPage, PageDisallowed, PageFails,
     PageRedirectsOutside, PageUnusable, PageRead, Asked, TakePage
<1>4. CASE NoCanonical \/ AddCanonical \/ Vouch
  BY <1>4 DEF Merged, InHand, NoCanonical, AddCanonical, Vouch
<1>5. CASE VisitAtLimit \/ Visit
  <2>1. /\ pc = "visited" /\ pc' \in {"pages", "links"} /\ current' = current
        /\ UNCHANGED <<site, policy, disallowed, outcome>>
    BY <1>5 DEF VisitAtLimit, Visit
  <2>2. pc' = "links" => Visit
    BY <1>5 DEF VisitAtLimit
  <2> QED
    BY <1>5, <2>1, <2>2 DEF Merged, InHand
<1>8. CASE FollowLink
  <2>1. /\ pc = "links" /\ pc' = "links" /\ site' = site
        /\ UNCHANGED <<policy, disallowed>> /\ UNCHANGED outcome
    BY <1>8 DEF FollowLink
  <2>2. ~Merged /\ ~Merged' /\ ~InHand /\ ~InHand'
    BY <2>1 DEF Merged, InHand
  <2> QED
    BY <1>8, <2>1, <2>2
<1>9. CASE LinksFollowed \/ LeavePages
  BY <1>9 DEF Merged, InHand, LinksFollowed, LeavePages
<1>6. CASE Report
  BY <1>6 DEF Merged, InHand, Report, CheckUnvisited, Merge, KeepApart, Finish
<1>7. CASE DeadlinePasses \/ UNCHANGED vars
  BY <1>7 DEF Merged, InHand, DeadlinePasses, vars
<1> QED
  BY <1>1, <1>2, <1>3, <1>4, <1>5, <1>6, <1>7, <1>8, <1>9 DEF Next, Crawl, WalkPages

-----------------------------------------------------------------------------
(* The table of candidates.                                                 *)

\* The candidates are those that were listed, until pages are merged, and what a limit
\* refused it refuses for good; only URLs of other subdomains are vouched for.
TableInv ==
    /\ candidates \subseteq Listed
    /\ ~Merged => candidates = Listed
    /\ ~Merged => \A u \in refused : TooManyVariants(u) \/ AtCap
    /\ refused \cap Listed = {}
    /\ Fetched \subseteq Listed
    /\ InHand => current.url \in Listed
    /\ \A u \in Urls :
          /\ page[u].exclusion = "subdomain_not_enabled" => Relation[u] = "same_domain"
          /\ page[u].verified => Relation[u] = "same_domain" /\ u \in Listed

LEMMA AddListed ==
    ASSUME TypeOK, NEW u \in Names, NEW d \in Nat, Add(u, d)
    PROVE  Listed' = Listed \cup (candidates' \ candidates)
<1>1. order \in Seq(Urls)
  BY DEF TypeOK
<1>2. CASE AddNew(u, d)
  <2>1. order' = Append(order, u) /\ candidates' \ candidates = {u} /\ u \in Urls
    BY <1>2 DEF AddNew, New
  <2> QED
    BY <1>1, <2>1, AppendSeq DEF Listed, Range
<1>3. CASE ~AddNew(u, d)
  <2>1. UNCHANGED <<order, candidates>>
    BY <1>3 DEF Add, AddMalformed, AddKnown, RefuseVariant, RefuseAtCap, table
  <2> QED
    BY <2>1 DEF Listed
<1> QED
  BY <1>2, <1>3

LEMMA AddCloses ==
    ASSUME TypeOK, NEW u \in Names, NEW d \in Nat, Add(u, d),
           \A w \in refused : TooManyVariants(w) \/ AtCap, refused \cap candidates = {}
    PROVE  /\ \A w \in refused' : TooManyVariants(w)' \/ AtCap'
           /\ refused' \cap candidates' = {}
<1>0. /\ variants \in [Paths -> Nat] /\ refused \subseteq Urls /\ MaxVariants \in Nat
      /\ \A w \in Urls : Family[w] = "none" \/ Family[w] \in Paths
  BY DiscoveryAssumption DEF TypeOK, Paths
<1>1. ASSUME CountVariant(u), u \in Urls, NEW w \in refused, TooManyVariants(w)
      PROVE  TooManyVariants(w)'
  <2>1. Family[w] \in Paths /\ variants[Family[w]] >= MaxVariants /\ Family[w] # "none"
    BY <1>0, <1>1 DEF TooManyVariants
  <2>2. variants'[Family[w]] \in {variants[Family[w]], variants[Family[w]] + 1}
    BY <1>0, <1>1, <2>1 DEF CountVariant
  <2>3. variants[Family[w]] \in Nat
    BY <1>0, <2>1
  <2> QED
    BY <1>0, <2>1, <2>2, <2>3 DEF TooManyVariants
<1>2. CASE AddMalformed(u) \/ AddKnown(u, d)
  BY <1>2 DEF AddMalformed, AddKnown, table, TooManyVariants, AtCap
<1>3. CASE RefuseVariant(u)
  BY <1>3 DEF RefuseVariant, New, TooManyVariants, AtCap
<1>4. CASE RefuseAtCap(u)
  <2>1. AtCap' /\ refused' = refused \cup {u} /\ candidates' = candidates /\ u \notin candidates
    BY <1>4 DEF RefuseAtCap, New, AtCap
  <2> QED
    BY <2>1
<1>5. CASE AddNew(u, d)
  <2>1. /\ ~AtCap /\ ~TooManyVariants(u) /\ CountVariant(u) /\ u \in Urls
        /\ candidates' = candidates \cup {u} /\ refused' = refused
    BY <1>5 DEF AddNew, New
  <2>2. \A w \in refused : TooManyVariants(w) /\ TooManyVariants(w)'
    BY <1>1, <2>1
  <2> QED
    BY <2>1, <2>2
<1> QED
  BY <1>2, <1>3, <1>4, <1>5 DEF Add

LEMMA FreshFacts ==
    \A u \in Urls, d \in Nat :
        LET p == Fresh(u, d)
        IN  /\ p.canonical = "none" /\ ~p.verified
            /\ p.exclusion = "subdomain_not_enabled" => Relation[u] = "same_domain"
            /\ p.eligibility = "eligible" => /\ Relation[u] \notin {"external", "same_domain"}
                                             /\ u \notin Assets \cup Unsafe
BY DiscoveryAssumption DEF Fresh, Exclusion

\* What a page becomes when it was taken from the frontier.
LEMMA Visitings ==
    ASSUME TypeOK, NEW u \in Urls, VisitPage(u)
    PROVE  /\ queue # <<>> /\ u = Head(queue).url /\ queue' = Tail(queue) /\ pc = "pages"
           /\ Eligible(u) /\ u \notin Fetched /\ Head(queue).depth <= MaxDepth
           /\ UNCHANGED <<candidates, order, variants, capHit, refused>>
           /\ UNCHANGED <<site, policy, disallowed, fetchedAt, blocked, pending, outcome>>
           /\ \A w \in Urls : w # u => page'[w] = page[w]
           /\ page'[u].canonical = page[u].canonical /\ page'[u].verified = page[u].verified
           /\ page'[u].exclusion \in {page[u].exclusion, "robots_disallowed", "unsafe_external_redirect"}
           /\ \/ /\ PageRead(u) /\ page'[u].eligibility = "eligible"
                 /\ RobotsStatus(u) # "disallowed"
                 /\ current' = Head(queue) /\ pc' = "canonical"
              \/ /\ page'[u].eligibility # "eligible"
                 /\ current' = current /\ pc' = "pages"
<1>1. /\ TakePage /\ Visitable(u)
      /\ UNCHANGED <<candidates, order, variants, capHit, refused>>
  BY DEF VisitPage, PageDisallowed, PageFails, PageRedirectsOutside, PageUnusable, PageRead, Asked
<1>2. page[u].exclusion \in Exclusions /\ "robots_disallowed" \in Exclusions
      /\ "unsafe_external_redirect" \in Exclusions
  BY PageField DEF TypeOK, Exclusions
<1>3. \/ /\ PageRead(u) /\ Mark(u, "eligible", page[u].exclusion) /\ RobotsStatus(u) # "disallowed"
         /\ current' = Head(queue) /\ pc' = "canonical"
      \/ /\ \E e \in {"excluded", "skipped"},
               x \in {page[u].exclusion, "robots_disallowed", "unsafe_external_redirect"} : Mark(u, e, x)
         /\ current' = current /\ pc' = pc
  BY DEF VisitPage, PageDisallowed, PageFails, PageRedirectsOutside, PageUnusable, PageRead, Asked
<1>4. PICK e \in {"eligible", "excluded", "skipped"},
           x \in {page[u].exclusion, "robots_disallowed", "unsafe_external_redirect"} :
        /\ Mark(u, e, x)
        /\ \/ /\ PageRead(u) /\ e = "eligible" /\ RobotsStatus(u) # "disallowed"
              /\ current' = Head(queue) /\ pc' = "canonical"
           \/ e # "eligible" /\ current' = current /\ pc' = pc
  BY <1>3
<1>5. /\ \A w \in Urls : w # u => page'[w] = page[w]
      /\ page'[u].eligibility = e /\ page'[u].exclusion = x
      /\ page'[u].canonical = page[u].canonical /\ page'[u].verified = page[u].verified
  BY <1>2, <1>4, MarkType
<1> QED
  BY <1>1, <1>4, <1>5 DEF TakePage, MorePages, Visitable, At, crawl, maps, rest

LEMMA TableNext ==
    ASSUME Typed, TableInv, [Next]_vars
    PROVE  TableInv'
<1>0. TypeOK /\ order \in Seq(Urls) /\ candidates \subseteq Urls
  BY DEF Typed, TypeOK
<1>1. Fetched' \subseteq Listed
  <2>1. CASE UNCHANGED fetchedAt
    BY <2>1 DEF TableInv, Fetched
  <2>2. CASE Visits
    <3>1. \A w \in Urls : w # current.url => fetchedAt'[w] = fetchedAt[w]
      BY <1>0, <2>2 DEF Visits, TypeOK
    <3>2. current.url \in Listed
      BY <2>2 DEF TableInv, Visits, InHand
    <3> QED
      BY <3>1, <3>2 DEF TableInv, Fetched
  <2> QED
    BY <2>1, <2>2, VisitMoves
<1>2. InHand' => current'.url \in Listed
  <2>1. ASSUME NEW u \in Urls, PageRead(u) PROVE current'.url \in Listed
    <3>1. VisitPage(u) /\ current' = Head(queue)
      BY <2>1 DEF VisitPage, PageRead
    <3>2. current'.url = u /\ u \in candidates
      BY <1>0, <3>1, Visitings DEF Eligible
    <3> QED
      BY <3>2 DEF TableInv
  <2> QED
    BY <2>1, PlaceMoves DEF TableInv
<1>3. ASSUME ~CheckUnvisited PROVE Merged' => Merged
  BY <1>3, PlaceMoves
<1>4. CASE UNCHANGED table
  <2>1. CASE CheckUnvisited
    BY <1>1, <1>2, <1>4, <2>1 DEF table, TableInv, Listed, CheckUnvisited, Merged, TooManyVariants, AtCap
  <2>2. CASE ~CheckUnvisited
    BY <1>1, <1>2, <1>3, <1>4, <2>2, PlaceMoves DEF table, TableInv, Listed, TooManyVariants, AtCap
  <2> QED
    BY <2>1, <2>2
<1>5. ASSUME NEW u \in Names, NEW d \in Nat, Adds(u, d) PROVE TableInv'
  <2>1. Add(u, d) /\ ~Merged
    BY <1>5 DEF Adds, Merged
  <2>2. candidates = Listed /\ refused \cap candidates = {}
        /\ \A w \in refused : TooManyVariants(w) \/ AtCap
    BY <2>1 DEF TableInv
  <2>3. candidates \subseteq candidates' /\ Listed' = candidates'
    <3>1. candidates \subseteq candidates'
      BY <1>0, <2>1, AddTable
    <3>2. Listed' = Listed \cup (candidates' \ candidates)
      BY <1>0, <2>1, AddListed
    <3> QED
      BY <2>2, <3>1, <3>2
  <2>4. /\ \A w \in refused' : TooManyVariants(w)' \/ AtCap'
        /\ refused' \cap candidates' = {}
    BY <1>0, <2>1, <2>2, AddCloses
  <2>5. ASSUME NEW w \in Urls
        PROVE  /\ page'[w].exclusion = "subdomain_not_enabled" => Relation[w] = "same_domain"
               /\ page'[w].verified => Relation[w] = "same_domain" /\ w \in Listed'
    <3>1. CASE w \in candidates
      BY <1>0, <2>1, <2>2, <2>3, <3>1, AddPages DEF TableInv
    <3>2. CASE w \notin candidates
      <4>1. page'[w] = page[w] \/ page'[w] = Fresh(w, d)
        BY <1>0, <2>1, <3>2, AddPages
      <4> QED
        BY <2>2, <2>3, <4>1, FreshFacts DEF TableInv
    <3> QED
      BY <3>1, <3>2
  <2> QED
    BY <1>1, <1>2, <2>2, <2>3, <2>4, <2>5 DEF TableInv
<1>6. ASSUME NEW u \in Urls, VisitPage(u) PROVE TableInv'
  <2>1. ~Merged /\ UNCHANGED <<candidates, order, variants, refused>>
    BY <1>0, <1>6, Visitings DEF Merged
  <2>2. ASSUME NEW w \in Urls
        PROVE  /\ page'[w].exclusion = "subdomain_not_enabled" => Relation[w] = "same_domain"
               /\ page'[w].verified => Relation[w] = "same_domain" /\ w \in Listed
    BY <1>0, <1>6, Visitings DEF TableInv
  <2> QED
    BY <1>1, <1>2, <2>1, <2>2 DEF TableInv, Listed, TooManyVariants, AtCap
<1>7. CASE Vouch
  <2>1. Canonical \in candidates /\ Canonical \in Urls /\ ~Merged
        /\ UNCHANGED <<candidates, order, variants, refused>>
    BY <1>0, <1>7 DEF Vouch, Typed, Merged
  <2>2. ASSUME NEW w \in Urls
        PROVE  /\ page'[w].exclusion = "subdomain_not_enabled" => Relation[w] = "same_domain"
               /\ page'[w].verified => Relation[w] = "same_domain" /\ w \in Listed
    BY <1>0, <1>7, <2>1, VouchType DEF TableInv
  <2> QED
    BY <1>1, <1>2, <2>1, <2>2 DEF TableInv, Listed, TooManyVariants, AtCap
<1>8. CASE CheckUnvisited
  <2>1. UNCHANGED <<candidates, order, variants, refused>> /\ ~Merged
    BY <1>8 DEF CheckUnvisited, Merged
  <2>2. ASSUME NEW w \in Urls
        PROVE  /\ page'[w].exclusion = "subdomain_not_enabled" => Relation[w] = "same_domain"
               /\ page'[w].verified => Relation[w] = "same_domain" /\ w \in Listed
    BY <1>0, <1>8, Unvisited DEF TableInv
  <2> QED
    BY <1>1, <1>2, <2>1, <2>2 DEF TableInv, Listed, TooManyVariants, AtCap
<1>9. CASE Merge
  <2>1. Merged' /\ UNCHANGED <<order, refused>> /\ candidates' \subseteq candidates
    BY <1>0, <1>9, Merges DEF Merge, Merged
  <2>2. ASSUME NEW w \in Urls
        PROVE  /\ page'[w].exclusion = "subdomain_not_enabled" => Relation[w] = "same_domain"
               /\ page'[w].verified => Relation[w] = "same_domain" /\ w \in Listed
    BY <1>0, <1>9, Merges DEF TableInv
  <2> QED
    BY <1>1, <1>2, <2>1, <2>2 DEF TableInv, Listed
<1> QED
  BY <1>0, <1>4, <1>5, <1>6, <1>7, <1>8, <1>9, TableMoves

LEMMA TableInit == Init => TableInv
<1> SUFFICES ASSUME Init PROVE TableInv
  OBVIOUS
<1>1. Listed = {}
  BY DEF Init, Listed, Range
<1>2. Fetched = {} /\ candidates = {} /\ refused = {} /\ ~InHand
  BY DEF Init, Fetched, InHand
<1>3. \A u \in Urls : page[u] = Fresh(u, 0)
  BY DEF Init
<1> QED
  BY <1>1, <1>2, <1>3, FreshFacts DEF TableInv

-----------------------------------------------------------------------------
(* What may be visited.                                                     *)

Visited == Fetched \cup (IF pc = "visited" THEN {current.url} ELSE {})

InScope(u) ==
    /\ Relation[u] # "external"
    /\ IF Relation[u] = "same_domain" THEN \E v \in Visited : site.canonical[v] = u
       ELSE u \notin Assets \cup Unsafe

\* A page is eligible only in scope, and only such pages are fetched.
ScopeInv ==
    /\ policy # "parsed" => disallowed = {}
    /\ pc \in {"start", "robots"} => Fetched = {}
    /\ \A u \in Urls : page[u].eligibility = "eligible" => InScope(u)
    /\ \A u \in Fetched : page[u].eligibility = "eligible" /\ u \notin disallowed
    /\ InHand => /\ page[current.url].eligibility = "eligible"
                 /\ current.url \notin disallowed \cup Fetched
                 /\ current.depth <= MaxDepth

LEMMA VisitedGrows ==
    ASSUME TypeOK, [Next]_vars
    PROVE  /\ Visited \subseteq Visited' /\ Fetched \subseteq Fetched'
           /\ Visits => Fetched' = Fetched \cup {current.url}
           /\ ~Visits => Fetched' = Fetched
<1>0. fetchedAt \in [Urls -> Nat \cup {-1}] /\ current.url \in Urls /\ current.depth \in Nat
  BY DEF TypeOK
<1>1. CASE Visits
  <2>1. fetchedAt' = [fetchedAt EXCEPT ![current.url] = current.depth]
    BY <1>1 DEF Visits
  <2>2. Fetched' = Fetched \cup {current.url}
    BY <1>0, <2>1 DEF Fetched
  <2> QED
    BY <1>1, <2>2 DEF Visited
<1>2. CASE ~Visits
  <2>1. Fetched' = Fetched
    BY <1>2, VisitMoves DEF Fetched
  <2>2. ~VisitAtLimit /\ ~Visit
    BY <1>2 DEF Visits, VisitAtLimit, Visit, table, crawl, rest
  <2>3. pc = "visited" => pc' = pc /\ current' = current
    BY <2>2, PlaceMoves DEF vars, frontier
  <2> QED
    BY <1>2, <2>1, <2>3 DEF Visited
<1> QED
  BY <1>1, <1>2

\* How a page comes to be eligible, and how it stops to be.
LEMMA Eligibles ==
    ASSUME Typed, TableInv, [Next]_vars, NEW w \in Urls
    PROVE  /\ page'[w].eligibility = "eligible" =>
                 \/ page[w].eligibility = "eligible"
                 \/ Relation[w] \notin {"external", "same_domain"} /\ w \notin Assets \cup Unsafe
                 \/ Relation[w] = "same_domain" /\ Vouch /\ w = Canonical
           /\ w \in Listed /\ page[w].eligibility = "eligible" =>
                 \/ page'[w].eligibility = "eligible"
                 \/ VisitPage(w)
                 \/ CheckUnvisited /\ RobotsStatus(w) = "disallowed"
           /\ w \in Listed /\ page'[w].eligibility = "eligible" =>
                 page[w].eligibility = "eligible" \/ page'[w].verified
           /\ page[w].verified => page'[w].verified
<1>0. TypeOK
  BY DEF Typed
<1>1. CASE UNCHANGED table
  BY <1>1 DEF table
<1>2. ASSUME NEW u \in Names, NEW d \in Nat, Adds(u, d)
      PROVE  /\ page'[w].eligibility = "eligible" =>
                   \/ page[w].eligibility = "eligible"
                   \/ Relation[w] \notin {"external", "same_domain"} /\ w \notin Assets \cup Unsafe
             /\ w \in Listed => /\ page'[w].eligibility = page[w].eligibility
                                /\ page'[w].verified = page[w].verified
             /\ page[w].verified => page'[w].verified
  <2>1. Add(u, d) /\ candidates = Listed
    BY <1>2 DEF Adds, TableInv, Merged
  <2>2. CASE w \in candidates
    BY <1>0, <2>1, <2>2, AddPages
  <2>3. CASE w \notin candidates
    <3>1. page'[w] = page[w] \/ page'[w] = Fresh(w, d)
      BY <1>0, <2>1, <2>3, AddPages
    <3>2. ~page[w].verified
      BY <2>1, <2>3 DEF TableInv
    <3> QED
      BY <2>1, <2>3, <3>1, <3>2, FreshFacts
  <2> QED
    BY <2>2, <2>3
<1>3. ASSUME NEW u \in Urls, VisitPage(u)
      PROVE  /\ page'[w].eligibility = "eligible" => page[w].eligibility = "eligible"
             /\ w = u \/ page'[w].eligibility = page[w].eligibility
             /\ page'[w].verified = page[w].verified
  <2>1. page[u].eligibility = "eligible"
    BY <1>0, <1>3, Visitings DEF Eligible
  <2> QED
    BY <1>0, <1>3, <2>1, Visitings
<1>4. CASE Vouch
  <2>1. Canonical \in Urls
    BY <1>0, <1>4 DEF Vouch, Typed, TypeOK
  <2>2. page[Canonical].exclusion = "subdomain_not_enabled" => Relation[Canonical] = "same_domain"
    BY <2>1 DEF TableInv
  <2>3. CASE w # Canonical
    BY <1>0, <1>4, <2>1, <2>3, VouchType
  <2>4. CASE w = Canonical
    BY <1>0, <1>4, <2>1, <2>2, <2>4, VouchType
  <2> QED
    BY <2>3, <2>4
<1>5. CASE CheckUnvisited
  BY <1>0, <1>5, Unvisited
<1>6. CASE Merge
  BY <1>0, <1>6, Merges
<1> QED
  BY <1>0, <1>1, <1>2, <1>3, <1>4, <1>5, <1>6, TableMoves

LEMMA ScopeInit == Init => ScopeInv
<1> SUFFICES ASSUME Init PROVE ScopeInv
  OBVIOUS
<1>1. /\ \A u \in Urls : page[u] = Fresh(u, 0)
      /\ disallowed = {} /\ Fetched = {} /\ ~InHand
  BY DEF Init, Fetched, InHand
<1>2. \A u \in Urls : page[u].eligibility = "eligible" => InScope(u)
  BY <1>1, FreshFacts DEF InScope
<1> QED
  BY <1>1, <1>2 DEF ScopeInv

LEMMA ScopeNext ==
    ASSUME Typed, TableInv, ScopeInv, [Next]_vars
    PROVE  ScopeInv'
<1>0. TypeOK
  BY DEF Typed
<1>1. /\ policy' # "parsed" => disallowed' = {}
      /\ pc \notin {"start", "robots"} => disallowed' = disallowed
  <2>1. CASE ReadRobots
    BY <2>1 DEF ReadRobots
  <2>2. CASE UNCHANGED <<policy, disallowed>>
    BY <2>2 DEF ScopeInv
  <2> QED
    BY <2>1, <2>2, PlaceMoves
<1>2. pc \in {"start", "robots"} => Fetched' = {} /\ ~Visits
  BY <1>0, VisitedGrows DEF ScopeInv, Visits
<1>3. pc' \in {"start", "robots"} => Fetched' = {}
  BY <1>2, PlaceMoves
<1>4. ASSUME NEW u \in Urls, page'[u].eligibility = "eligible" PROVE InScope(u)'
  <2>1. site' = site /\ Visited \subseteq Visited'
    BY <1>0, PlaceMoves, VisitedGrows
  <2>2. CASE page[u].eligibility = "eligible"
    <3>1. InScope(u)
      BY <2>2 DEF ScopeInv
    <3> QED
      BY <2>1, <3>1 DEF InScope
  <2>3. CASE Relation[u] \notin {"external", "same_domain"} /\ u \notin Assets \cup Unsafe
    BY <2>3 DEF InScope
  <2>4. CASE Relation[u] = "same_domain" /\ Vouch /\ u = Canonical
    <3>1. pc' = "visited" /\ current' = current /\ site.canonical[current.url] = u
      BY <2>4 DEF Vouch, frontier, Canonical
    <3>2. current.url \in Visited' /\ site'.canonical[current.url] = u
      BY <2>1, <3>1 DEF Visited
    <3> QED
      BY <2>4, <3>2 DEF InScope
  <2> QED
    BY <1>4, <2>2, <2>3, <2>4, Eligibles
<1>5. ASSUME NEW u \in Urls, u \in Listed, page[u].eligibility = "eligible",
             u \notin disallowed, ~VisitPage(u)
      PROVE  page'[u].eligibility = "eligible"
  <2>1. RobotsStatus(u) # "disallowed"
    BY <1>5 DEF RobotsStatus
  <2> QED
    BY <1>5, <2>1, Eligibles
<1>6. ASSUME InHand
      PROVE  page'[current.url].eligibility = "eligible" /\ disallowed' = disallowed
  <2>1. current.url \in Urls /\ current.url \in Listed
    BY <1>0, <1>6 DEF TypeOK, TableInv
  <2>2. ~VisitPage(current.url)
    BY <1>0, <1>6, <2>1, Visitings DEF InHand
  <2> QED
    BY <1>1, <1>5, <1>6, <2>1, <2>2 DEF ScopeInv, InHand
<1>7. ASSUME NEW u \in Fetched' PROVE page'[u].eligibility = "eligible" /\ u \notin disallowed'
  <2>1. CASE u \in Fetched
    <3>1. ~VisitPage(u) /\ u \in Urls /\ u \in Listed
      BY <1>0, <2>1, Visitings DEF Fetched, TableInv
    <3>2. disallowed' = disallowed
      BY <1>1, <2>1 DEF ScopeInv
    <3> QED
      BY <1>5, <2>1, <3>1, <3>2 DEF ScopeInv
  <2>2. CASE Visits /\ u = current.url
    BY <1>6, <2>2 DEF ScopeInv, InHand, Visits
  <2> QED
    BY <1>0, <1>7, <2>1, <2>2, VisitedGrows
<1>8. ASSUME InHand'
      PROVE  /\ page'[current'.url].eligibility = "eligible"
             /\ current'.url \notin disallowed' \cup Fetched' /\ current'.depth <= MaxDepth
  <2>1. ~Visits /\ Fetched' = Fetched
    BY <1>0, <1>8, VisitedGrows DEF Visits, InHand
  <2>2. CASE InHand /\ current' = current
    BY <1>6, <2>1, <2>2 DEF ScopeInv
  <2>3. ASSUME NEW u \in Urls, PageRead(u)
        PROVE  /\ page'[current'.url].eligibility = "eligible"
               /\ current'.url \notin disallowed' \cup Fetched' /\ current'.depth <= MaxDepth
    <3>1. VisitPage(u) /\ current' = Head(queue) /\ RobotsStatus(u) # "disallowed"
          /\ page'[u].eligibility = "eligible"
      BY <1>0, <2>3, Visitings DEF VisitPage, PageRead, Asked
    <3>2. u = current'.url /\ u \notin Fetched /\ current'.depth <= MaxDepth /\ disallowed' = disallowed
      BY <1>0, <3>1, Visitings
    <3>3. u \notin disallowed
      BY <1>0, <3>1 DEF ScopeInv, RobotsStatus, TypeOK
    <3> QED
      BY <2>1, <3>1, <3>2, <3>3
  <2> QED
    BY <1>8, <2>2, <2>3, PlaceMoves
<1> QED
  BY <1>1, <1>3, <1>4, <1>7, <1>8 DEF ScopeInv

\* A page of another subdomain is taken only after the page that vouches for it was visited.
Earned(u) ==
    /\ Relation[u] # "external"
    /\ IF Relation[u] = "same_domain" THEN \E v \in Fetched : site.canonical[v] = u
       ELSE u \notin Assets \cup Unsafe

EarnedInv ==
    /\ \A u \in Fetched : Earned(u)
    /\ InHand => Earned(current.url)

LEMMA EarnedInit == Init => EarnedInv
BY DEF Init, EarnedInv, Fetched, InHand

LEMMA EarnedNext ==
    ASSUME Typed, ScopeInv, EarnedInv, [Next]_vars
    PROVE  EarnedInv'
<1>0. TypeOK
  BY DEF Typed
<1>1. ASSUME NEW u \in Urls, Earned(u) PROVE Earned(u)'
  <2>1. site' = site /\ Fetched \subseteq Fetched'
    BY <1>0, PlaceMoves, VisitedGrows
  <2> QED
    BY <1>1, <2>1 DEF Earned
<1>2. InHand => Earned(current.url) /\ current.url \in Urls
  BY <1>0 DEF EarnedInv, TypeOK
<1>3. ASSUME NEW u \in Fetched' PROVE Earned(u)'
  <2>1. u \in Urls
    BY <1>3 DEF Fetched
  <2>2. CASE u \in Fetched
    BY <1>1, <2>1, <2>2 DEF EarnedInv
  <2>3. CASE Visits /\ u = current.url
    BY <1>1, <1>2, <2>3 DEF Visits, InHand
  <2> QED
    BY <1>0, <1>3, <2>2, <2>3, VisitedGrows
<1>4. ASSUME InHand' PROVE Earned(current.url)'
  <2>1. CASE InHand /\ current' = current
    <3>1. Earned(current.url) /\ current.url \in Urls
      BY <1>2, <2>1
    <3>2. PICK u \in Urls : u = current.url
      BY <3>1
    <3>3. Earned(u)' /\ u = current'.url
      BY <1>1, <2>1, <3>1, <3>2
    <3> QED
      BY <3>3 DEF Earned
  <2>2. ASSUME NEW u \in Urls, PageRead(u) PROVE Earned(current.url)'
    <3>1. VisitPage(u) /\ current' = Head(queue)
      BY <2>2 DEF VisitPage, PageRead
    <3>2. u = current'.url /\ pc = "pages" /\ Eligible(u)
      BY <1>0, <3>1, Visitings
    <3>3. Earned(u)
      BY <3>2 DEF ScopeInv, InScope, Earned, Visited, Eligible
    <3>4. Earned(u)'
      BY <1>1, <3>3
    <3> QED
      BY <3>2, <3>4 DEF Earned
  <2> QED
    BY <1>4, <2>1, <2>2, PlaceMoves
<1> QED
  BY <1>3, <1>4 DEF EarnedInv

-----------------------------------------------------------------------------
(* The order of the visits.                                                 *)

Reached(u, d) ==
    \/ u = Submitted /\ d = 0
    \/ \E v \in Fetched : Linked(v, u) /\ d = fetchedAt[v] + 1

\* The frontier holds two levels at most, the nearer first, and each of its entries was
\* linked from a visited page of the level before.
OrderInv ==
    /\ pc # "start" => Queued \subseteq Listed
    /\ \A i \in DOMAIN queue :
          /\ queue[i].depth \in current.depth .. current.depth + 1
          /\ queue[i].depth <= MaxDepth
          /\ Reached(queue[i].url, queue[i].depth)
    /\ \A i, j \in DOMAIN queue : i <= j => queue[i].depth <= queue[j].depth
    /\ \A u \in Fetched : /\ fetchedAt[u] <= current.depth /\ fetchedAt[u] <= MaxDepth
                          /\ Reached(u, fetchedAt[u])
    /\ InHand => Reached(current.url, current.depth)
    /\ pc = "links" => /\ current.url \in Fetched /\ fetchedAt[current.url] = current.depth
                       /\ current.depth < MaxDepth
                       /\ \A i \in DOMAIN pending : Linked(current.url, pending[i])

\* What the frontier becomes.
LEMMA FrontierMoves ==
    ASSUME [Next]_vars
    PROVE  \/ UNCHANGED <<queue, current>> /\ ~FollowLink
           \/ SkipEntry
           \/ \E u \in Urls : VisitPage(u)
           \/ FollowLink
<1> USE DEF crawl, maps, frontier, table, rest
<1>1. CASE AddSubmitted \/ ReadRobots
  BY <1>1 DEF AddSubmitted, ReadRobots, FollowLink
<1>2. CASE ReadSitemaps
  BY <1>2 DEF FollowLink, ReadSitemaps, SitemapMalformed, SitemapSeen, SitemapIgnored,
     SitemapFails, SitemapRead, LeaveSitemaps, AddEntry, EntriesAdded, TakeSitemap
<1>3. CASE WalkPages
  BY <1>3 DEF WalkPages, NoCanonical, AddCanonical, Vouch, VisitAtLimit, Visit, LinksFollowed, LeavePages
<1>4. CASE Report
  BY <1>4 DEF FollowLink, Report, CheckUnvisited, Merge, KeepApart, Finish
<1>5. CASE DeadlinePasses \/ UNCHANGED vars
  BY <1>5 DEF FollowLink, DeadlinePasses, vars
<1> QED
  BY <1>1, <1>2, <1>3, <1>4, <1>5 DEF Next, Crawl

LEMMA FetchedKept ==
    ASSUME TypeOK, ScopeInv, [Next]_vars
    PROVE  \A v \in Fetched : v \in Fetched' /\ fetchedAt'[v] = fetchedAt[v]
<1>1. Fetched \subseteq Fetched'
  BY VisitedGrows
<1>2. CASE Visits
  <2>1. current.url \notin Fetched /\ fetchedAt' = [fetchedAt EXCEPT ![current.url] = current.depth]
    BY <1>2 DEF ScopeInv, Visits, InHand
  <2>2. \A v \in Urls : v # current.url => fetchedAt'[v] = fetchedAt[v]
    BY <2>1 DEF TypeOK
  <2> QED
    BY <1>1, <2>1, <2>2 DEF Fetched
<1>3. CASE UNCHANGED fetchedAt
  BY <1>1, <1>3
<1> QED
  BY <1>2, <1>3, VisitMoves

LEMMA ReachedKept ==
    ASSUME TypeOK, ScopeInv, [Next]_vars, NEW u, NEW d, Reached(u, d)
    PROVE  Reached(u, d)'
<1>1. site' = site
  BY PlaceMoves
<1>2. \A v \in Fetched : v \in Fetched' /\ fetchedAt'[v] = fetchedAt[v]
  BY FetchedKept
<1> QED
  BY <1>1, <1>2 DEF Reached, Linked, Links

LEMMA ListedGrows ==
    ASSUME TypeOK, [Next]_vars
    PROVE  Listed \subseteq Listed'
<1>1. ASSUME NEW u \in Names, NEW d \in Nat, Adds(u, d) PROVE Listed \subseteq Listed'
  <2>1. Add(u, d)
    BY <1>1 DEF Adds
  <2> QED
    BY <2>1, AddListed
<1>2. CASE UNCHANGED order
  BY <1>2 DEF Listed
<1>3. ASSUME NEW u \in Urls, VisitPage(u) PROVE UNCHANGED order
  BY <1>3, Visitings
<1> QED
  BY <1>1, <1>2, <1>3, TableMoves DEF table, Vouch, CheckUnvisited, Merge

\* The crawl starts with the address of the website, which no limit refuses.
StartInv ==
    pc = "start" => /\ candidates = {} /\ variants = [p \in Paths |-> 0]
                    /\ Queued = {Submitted}

LEMMA StartInit == Init => StartInv
<1> SUFFICES ASSUME Init PROVE Queued = {Submitted}
  BY DEF Init, StartInv
<1>1. queue = <<[url |-> Submitted, depth |-> 0]>>
  BY DEF Init
<1>2. DOMAIN queue = {1} /\ queue[1].url = Submitted
  BY <1>1
<1> QED
  BY <1>2 DEF Queued

LEMMA StartNext ==
    ASSUME StartInv, [Next]_vars
    PROVE  StartInv'
<1>1. ASSUME pc' = "start" PROVE UNCHANGED vars
  BY <1>1 DEF Next, Crawl, AddSubmitted, ReadRobots, ReadSitemaps,
     SitemapMalformed, SitemapSeen, SitemapIgnored, SitemapFails, SitemapRead, LeaveSitemaps,
     AddEntry, EntriesAdded, TakeSitemap, WalkPages, SkipEntry, VisitPage, PageDisallowed,
     PageFails, PageRedirectsOutside, PageUnusable, PageRead, Asked, TakePage, NoCanonical,
     AddCanonical, Vouch, VisitAtLimit, Visit, FollowLink, LinksFollowed, LeavePages, Report,
     CheckUnvisited, Merge, KeepApart, Finish, DeadlinePasses
<1>2. ASSUME UNCHANGED vars PROVE StartInv'
  BY <1>2 DEF vars, frontier, table, StartInv, Queued
<1> QED
  BY <1>1, <1>2 DEF StartInv

LEMMA StartAdds ==
    ASSUME TypeOK, StartInv, AddSubmitted
    PROVE  Submitted \in candidates'
<1>1. Submitted \in Urls /\ MaxVariants \in Nat \ {0} /\ MaxUrls \in Nat \ {0}
      /\ Submitted \in Names
  BY DiscoveryAssumption DEF Names
<1>2. candidates = {} /\ variants = [p \in Paths |-> 0]
  BY DEF StartInv, AddSubmitted
<1>3. ~AtCap
  BY <1>1, <1>2, FS_EmptySet DEF AtCap
<1>4. ~TooManyVariants(Submitted)
  BY <1>1, <1>2 DEF TooManyVariants, Paths
<1>5. Kept(Submitted)
  BY <1>1, <1>2, <1>3, <1>4 DEF Kept, New
<1>6. Add(Submitted, 0) /\ 0 \in Nat
  BY DEF AddSubmitted
<1> QED
  BY <1>1, <1>5, <1>6, AddTable

\* The frontier stays within two levels and sorted.
LEMMA FrontierNext ==
    ASSUME Typed, ScopeInv, OrderInv, [Next]_vars
    PROVE  /\ \A i \in DOMAIN queue' :
                 /\ queue'[i].depth \in current'.depth .. current'.depth + 1
                 /\ queue'[i].depth <= MaxDepth
                 /\ \/ Reached(queue'[i].url, queue'[i].depth)
                    \/ /\ FollowLink /\ Linked(current.url, queue'[i].url)
                       /\ queue'[i].depth = current.depth + 1
           /\ \A i, j \in DOMAIN queue' : i <= j => queue'[i].depth <= queue'[j].depth
           /\ current'.depth >= current.depth
<1>0. /\ TypeOK /\ queue \in Seq(Entry) /\ current.depth \in Nat /\ MaxDepth \in Nat
      /\ \A i \in DOMAIN queue : queue[i] \in Entry /\ queue[i].depth \in Nat
      /\ DOMAIN queue \subseteq Nat
  <2>1. TypeOK /\ queue \in Seq(Entry) /\ current.depth \in Nat /\ MaxDepth \in Nat
    BY DiscoveryAssumption DEF Typed, TypeOK, Entry
  <2>2. DOMAIN queue = 1..Len(queue) /\ \A i \in DOMAIN queue : queue[i] \in Entry
    BY <2>1, LenProperties, ElementOfSeq
  <2> QED
    BY <2>1, <2>2 DEF Entry
<1>1. /\ \A i \in DOMAIN queue :
            /\ queue[i].depth \in current.depth .. current.depth + 1
            /\ queue[i].depth <= MaxDepth
            /\ Reached(queue[i].url, queue[i].depth)
      /\ \A i, j \in DOMAIN queue : i <= j => queue[i].depth <= queue[j].depth
  BY DEF OrderInv
<1>2. CASE UNCHANGED <<queue, current>> /\ ~FollowLink
  BY <1>0, <1>1, <1>2
<1>3. ASSUME queue # <<>>, queue' = Tail(queue), current' \in {current, Head(queue)}
      PROVE  /\ \A i \in DOMAIN queue' :
                   /\ queue'[i].depth \in current'.depth .. current'.depth + 1
                   /\ queue'[i].depth <= MaxDepth
                   /\ Reached(queue'[i].url, queue'[i].depth)
             /\ \A i, j \in DOMAIN queue' : i <= j => queue'[i].depth <= queue'[j].depth
             /\ current'.depth >= current.depth
  <2>1. /\ 1 \in DOMAIN queue /\ Head(queue) = queue[1]
        /\ \A i \in DOMAIN queue' : i + 1 \in DOMAIN queue /\ queue'[i] = queue[i + 1]
        /\ DOMAIN queue' \subseteq Nat
    BY <1>0, <1>3, TailSeq, LenProperties
  <2>2. current'.depth \in {current.depth, queue[1].depth}
    BY <1>3, <2>1
  <2>3. \A i \in DOMAIN queue' : queue[1].depth <= queue[i + 1].depth
    BY <1>1, <2>1
  <2>4. \A i \in DOMAIN queue' :
                   /\ queue'[i].depth \in current'.depth .. current'.depth + 1
                   /\ queue'[i].depth <= MaxDepth
                   /\ Reached(queue'[i].url, queue'[i].depth)
    BY <1>0, <1>1, <2>1, <2>2, <2>3
  <2>5. \A i, j \in DOMAIN queue' : i <= j => queue'[i].depth <= queue'[j].depth
    BY <1>1, <2>1
  <2>6. current'.depth >= current.depth
    BY <1>0, <1>1, <2>1, <2>2
  <2> QED
    BY <2>4, <2>5, <2>6
<1>4. CASE SkipEntry
  <2>1. queue # <<>> /\ queue' = Tail(queue) /\ current' = current
    BY <1>4 DEF SkipEntry, TakePage, MorePages
  <2> QED
    BY <1>3, <2>1
<1>5. ASSUME NEW u \in Urls, VisitPage(u)
      PROVE  queue # <<>> /\ queue' = Tail(queue) /\ current' \in {current, Head(queue)}
  BY <1>0, <1>5, Visitings
<1>6. CASE FollowLink
  <2> DEFINE e == [url |-> Head(pending), depth |-> current.depth + 1]
  <2>1. current' = current /\ Head(pending) \in Names /\ pending # <<>>
    BY <1>0, <1>6, FollowsLink DEF FollowLink
  <2>2. current.depth < MaxDepth /\ Linked(current.url, Head(pending))
    <3>1. pc = "links" /\ pending \in Seq(Names)
      BY <1>0, <1>6 DEF FollowLink, TypeOK, Names
    <3>2. 1 \in DOMAIN pending /\ Head(pending) = pending[1]
      BY <2>1, <3>1, TailSeq
    <3> QED
      BY <3>1, <3>2 DEF OrderInv
  <2>3. CASE queue' = queue
    BY <1>0, <1>1, <2>1, <2>3
  <2>4. CASE e \in Entry /\ queue' = Append(queue, e)
    <3>1. /\ \A i \in DOMAIN queue' : \/ i \in DOMAIN queue /\ queue'[i] = queue[i]
                                      \/ queue'[i] = e /\ \A j \in DOMAIN queue : j < i
          /\ DOMAIN queue' \subseteq Nat
      <4> HIDE DEF e
      <4> QED
        BY <1>0, <2>4, AppendSeq, AppendProperties, LenProperties
    <3>2. e.url = Head(pending) /\ e.depth = current.depth + 1
      OBVIOUS
    <3> HIDE DEF e
    <3>3. \A i \in DOMAIN queue' :
                 /\ queue'[i].depth \in current'.depth .. current'.depth + 1
                 /\ queue'[i].depth <= MaxDepth
                 /\ \/ Reached(queue'[i].url, queue'[i].depth)
                    \/ /\ FollowLink /\ Linked(current.url, queue'[i].url)
                       /\ queue'[i].depth = current.depth + 1
      BY <1>0, <1>1, <1>6, <2>1, <2>2, <3>1, <3>2
    <3>4. ASSUME NEW i \in DOMAIN queue', NEW j \in DOMAIN queue', i <= j
          PROVE  queue'[i].depth <= queue'[j].depth
      BY <1>0, <1>1, <3>1, <3>2, <3>4
    <3> QED
      BY <1>0, <2>1, <3>3, <3>4
  <2> QED
    BY <1>0, <1>6, <2>3, <2>4, FollowsLink
<1> QED
  BY <1>2, <1>3, <1>4, <1>5, <1>6, FrontierMoves

LEMMA OrderInit == Init => OrderInv
<1> SUFFICES ASSUME Init PROVE OrderInv
  OBVIOUS
<1>1. /\ queue = <<[url |-> Submitted, depth |-> 0]>> /\ current.depth = 0 /\ pc = "start"
      /\ Fetched = {} /\ MaxDepth \in Nat
  BY DiscoveryAssumption DEF Init, Fetched
<1>2. DOMAIN queue = {1} /\ queue[1].url = Submitted /\ queue[1].depth = 0
  BY <1>1
<1> QED
  BY <1>1, <1>2 DEF OrderInv, Reached, InHand

LEMMA OrderNext ==
    ASSUME Typed, TableInv, ScopeInv, StartInv, OrderInv, [Next]_vars
    PROVE  OrderInv'
<1>0. /\ TypeOK /\ TypeOK' /\ current.depth \in Nat /\ current'.depth \in Nat /\ MaxDepth \in Nat
      /\ current.url \in Urls /\ fetchedAt \in [Urls -> Nat \cup {-1}]
  BY StepTyped, DiscoveryAssumption DEF Typed, TypeOK
<1>1. pc' # "start" => Queued' \subseteq Listed'
  <2>1. CASE FollowLink
    <3>1. pc # "start" /\ queue \in Seq(Entry)
      BY <1>0, <2>1 DEF FollowLink, TypeOK, Entry
    <3>2. Queued \subseteq Listed'
      BY <1>0, <3>1, ListedGrows DEF OrderInv
    <3>3. CASE queue' = queue
      BY <3>2, <3>3 DEF Queued
    <3> DEFINE e == [url |-> Head(pending), depth |-> current.depth + 1]
    <3>4. CASE e \in Entry /\ queue' = Append(queue, e) /\ Kept(Head(pending))
      <4>1. e.url \in Listed'
        <5>1. Head(pending) \in candidates'
          BY <1>0, <2>1, <3>4, FollowsLink, AddTable
        <5>2. candidates' \subseteq Listed'
          BY TableNext DEF TableInv
        <5> QED
          BY <5>1, <5>2
      <4> HIDE DEF e
      <4>2. \A i \in DOMAIN queue' : (i \in DOMAIN queue /\ queue'[i] = queue[i]) \/ queue'[i] = e
        BY <3>1, <3>4, AppendSeq
      <4> QED
        BY <3>2, <4>1, <4>2 DEF Queued
    <3> QED
      BY <1>0, <2>1, <3>3, <3>4, FollowsLink
  <2>2. CASE AddSubmitted
    <3>1. Submitted \in candidates' /\ candidates' \subseteq Listed'
      BY <1>0, <2>2, StartAdds, TableNext DEF TableInv
    <3>2. Queued' = {Submitted}
      BY <2>2 DEF AddSubmitted, StartInv, Queued, frontier
    <3> QED
      BY <3>1, <3>2
  <2>3. ASSUME ~FollowLink, ~AddSubmitted, pc' # "start" PROVE Queued' \subseteq Listed'
    <3>1. pc # "start"
      BY <2>3, PlaceMoves DEF vars
    <3>2. queue' = queue \/ (queue # <<>> /\ queue' = Tail(queue))
      <4>1. CASE SkipEntry
        BY <4>1 DEF SkipEntry, TakePage, MorePages
      <4>2. ASSUME NEW u \in Urls, VisitPage(u) PROVE queue # <<>> /\ queue' = Tail(queue)
        BY <1>0, <4>2, Visitings
      <4> QED
        BY <2>3, <4>1, <4>2, FrontierMoves
    <3>3. Queued' \subseteq Queued
      <4>1. queue \in Seq(Entry)
        BY <1>0 DEF TypeOK, Entry
      <4> QED
        BY <3>2, <4>1, TailSeq DEF Queued
    <3> QED
      BY <1>0, <3>1, <3>3, ListedGrows DEF OrderInv
  <2> QED
    BY <2>1, <2>2, <2>3
<1>2. ASSUME NEW i \in DOMAIN queue' PROVE Reached(queue[i].url, queue[i].depth)'
  <2>1. PICK u, d : u = queue'[i].url /\ d = queue'[i].depth
    OBVIOUS
  <2>2. CASE Reached(u, d)
    <3>1. Reached(u, d)'
      BY <1>0, <2>2, ReachedKept
    <3> QED
      BY <2>1, <3>1 DEF Reached
  <2>3. CASE FollowLink /\ Linked(current.url, u) /\ d = current.depth + 1
    <3>1. current.url \in Fetched /\ fetchedAt[current.url] = current.depth
      BY <2>3 DEF FollowLink, OrderInv
    <3>2. Reached(u, d)
      BY <2>3, <3>1 DEF Reached
    <3>3. Reached(u, d)'
      BY <1>0, <3>2, ReachedKept
    <3> QED
      BY <2>1, <3>3 DEF Reached
  <2> QED
    BY <2>1, <2>2, <2>3, FrontierNext
<1>3. ASSUME NEW u \in Fetched'
      PROVE  /\ fetchedAt'[u] <= current'.depth /\ fetchedAt'[u] <= MaxDepth
             /\ Reached(u, fetchedAt[u])'
  <2>1. CASE u \in Fetched
    <3>1. /\ fetchedAt'[u] = fetchedAt[u] /\ fetchedAt[u] \in Nat
          /\ fetchedAt[u] <= current.depth /\ fetchedAt[u] <= MaxDepth
      BY <1>0, <2>1, FetchedKept DEF OrderInv, Fetched
    <3>2. PICK d : d = fetchedAt[u]
      OBVIOUS
    <3>3. Reached(u, d)'
      BY <1>0, <2>1, <3>2, ReachedKept DEF OrderInv
    <3>4. fetchedAt'[u] <= current'.depth
      BY <1>0, <3>1, FrontierNext
    <3> QED
      BY <3>1, <3>2, <3>3, <3>4 DEF Reached
  <2>2. CASE Visits /\ u = current.url
    <3>1. fetchedAt'[u] = current.depth /\ current' = current
      BY <1>0, <2>2 DEF Visits
    <3>2. Reached(u, current.depth) /\ current.depth <= MaxDepth
      BY <2>2 DEF Visits, InHand, OrderInv, ScopeInv
    <3>3. PICK d : d = current.depth
      OBVIOUS
    <3>4. Reached(u, d)'
      BY <1>0, <3>2, <3>3, ReachedKept
    <3> QED
      BY <1>0, <3>1, <3>2, <3>3, <3>4 DEF Reached
  <2> QED
    BY <1>0, <1>3, <2>1, <2>2, VisitedGrows
<1>4. ASSUME InHand' PROVE Reached(current.url, current.depth)'
  <2>1. CASE InHand /\ current' = current
    <3>1. PICK u, d : u = current.url /\ d = current.depth
      OBVIOUS
    <3>2. Reached(u, d)'
      BY <1>0, <2>1, <3>1, ReachedKept DEF OrderInv
    <3> QED
      BY <2>1, <3>1, <3>2 DEF Reached
  <2>2. ASSUME NEW w \in Urls, PageRead(w) PROVE Reached(current.url, current.depth)'
    <3>1. VisitPage(w) /\ current' = Head(queue) /\ queue \in Seq(Entry)
      BY <1>0, <2>2 DEF VisitPage, PageRead, TypeOK, Entry
    <3>2. queue # <<>>
      BY <1>0, <3>1, Visitings
    <3>3. 1 \in DOMAIN queue /\ Head(queue) = queue[1]
      BY <3>1, <3>2, TailSeq
    <3>4. PICK u, d : u = queue[1].url /\ d = queue[1].depth
      OBVIOUS
    <3>5. Reached(u, d)'
      BY <1>0, <3>3, <3>4, ReachedKept DEF OrderInv
    <3> QED
      BY <3>1, <3>3, <3>4, <3>5 DEF Reached
  <2> QED
    BY <1>4, <2>1, <2>2, PlaceMoves
<1>5. ASSUME pc' = "links"
      PROVE  /\ current'.url \in Fetched' /\ fetchedAt'[current'.url] = current'.depth
             /\ current'.depth < MaxDepth
             /\ \A i \in DOMAIN pending' : Linked(current.url, pending[i])'
  <2>0. site' = site
    BY PlaceMoves
  <2>1. CASE Visit
    <3>1. /\ fetchedAt' = [fetchedAt EXCEPT ![current.url] = current.depth] /\ current' = current
          /\ current.depth < MaxDepth /\ pending' = Links(current.url)
      BY <2>1 DEF Visit
    <3>2. fetchedAt'[current.url] = current.depth /\ current.url \in Fetched'
      BY <1>0, <3>1 DEF Fetched
    <3> QED
      BY <2>0, <3>1, <3>2 DEF Linked, Links
  <2>2. CASE FollowLink
    <3>1. /\ pc = "links" /\ current' = current /\ fetchedAt' = fetchedAt /\ Fetched' = Fetched
          /\ pending' = Tail(pending) /\ pending # <<>> /\ pending \in Seq(Names)
      BY <1>0, <2>2 DEF FollowLink, Fetched, TypeOK, Names
    <3>2. \A i \in DOMAIN pending' : i + 1 \in DOMAIN pending /\ pending'[i] = pending[i + 1]
      BY <3>1, TailSeq
    <3>3. \A i \in DOMAIN pending' : Linked(current.url, pending'[i])
      BY <3>1, <3>2 DEF OrderInv
    <3> QED
      BY <2>0, <3>1, <3>3 DEF OrderInv, Linked, Links
  <2>3. CASE pc = "links" /\ UNCHANGED vars
    BY <2>0, <2>3 DEF OrderInv, vars, frontier, Fetched, Linked, Links
  <2> QED
    BY <1>5, <2>1, <2>2, <2>3, PlaceMoves
<1> QED
  BY <1>1, <1>2, <1>3, <1>4, <1>5, FrontierNext DEF OrderInv

-----------------------------------------------------------------------------
(* The links of the visited pages.                                          *)

\* Where a link from the visited page v to u has led: u was visited in time, is being
\* visited or waits in the frontier, may not be visited, or was refused.
Settled(v, u) ==
    \/ u \in Fetched /\ fetchedAt[u] <= fetchedAt[v] + 1
    \/ fetchedAt[v] = MaxDepth /\ (External(u) \/ u \in Unsafe \cup Listed \cup blocked)
    \/ \E i \in DOMAIN queue : queue[i].url = u /\ queue[i].depth <= fetchedAt[v] + 1
    \/ InHand /\ current.url = u /\ current.depth <= fetchedAt[v] + 1
    \/ u \in refused
    \/ u \in Listed /\ page[u].eligibility # "eligible"
    \/ page[u].verified

LinksInv ==
    \A v \in Fetched, u \in Urls : Linked(v, u) =>
       \/ Settled(v, u)
       \/ pc = "links" /\ v = current.url /\ \E i \in DOMAIN pending : pending[i] = u

LEMMA GrowingSets ==
    ASSUME TypeOK, [Next]_vars
    PROVE  refused \subseteq refused' /\ blocked \subseteq blocked'
<1>1. refused \subseteq refused'
  <2>1. ASSUME NEW u \in Names, NEW d \in Nat, Adds(u, d) PROVE refused \subseteq refused'
    <3>1. Add(u, d)
      BY <2>1 DEF Adds
    <3> QED
      BY <3>1, AddTable
  <2>2. ASSUME NEW u \in Urls, VisitPage(u) PROVE UNCHANGED refused
    BY <2>2, Visitings
  <2> QED
    BY <2>1, <2>2, TableMoves DEF table, Vouch, CheckUnvisited, Merge
<1>2. blocked \subseteq blocked'
  <2>1. CASE VisitAtLimit
    BY <2>1 DEF VisitAtLimit
  <2>2. CASE ~VisitAtLimit
    BY <2>2 DEF Next, Crawl, AddSubmitted, ReadRobots, ReadSitemaps, SitemapMalformed,
       SitemapSeen, SitemapIgnored, SitemapFails, SitemapRead, LeaveSitemaps, AddEntry,
       EntriesAdded, TakeSitemap, WalkPages, SkipEntry, VisitPage, PageDisallowed, PageFails,
       PageRedirectsOutside, PageUnusable, PageRead, Asked, TakePage, NoCanonical,
       AddCanonical, Vouch, Visit, FollowLink, LinksFollowed, LeavePages, Report,
       CheckUnvisited, Merge, KeepApart, Finish, DeadlinePasses, vars, crawl, maps, frontier,
       table, rest
  <2> QED
    BY <2>1, <2>2
<1> QED
  BY <1>1, <1>2

\* An entry of the frontier stays there until its page is taken or cannot be.
LEMMA EntrySettles ==
    ASSUME Typed, TableInv, ScopeInv, OrderInv, [Next]_vars, NEW v \in Fetched,
           fetchedAt'[v] = fetchedAt[v], fetchedAt[v] \in Nat,
           NEW i \in DOMAIN queue, queue[i].depth <= fetchedAt[v] + 1,
           NEW u \in Urls, u = queue[i].url
    PROVE  Settled(v, u)'
<1>0. /\ TypeOK /\ queue \in Seq(Entry) /\ MaxDepth \in Nat /\ current.depth \in Nat
      /\ queue[i] \in Entry /\ i \in Nat /\ fetchedAt \in [Urls -> Nat \cup {-1}]
  <2>1. /\ TypeOK /\ queue \in Seq(Entry) /\ MaxDepth \in Nat /\ current.depth \in Nat
        /\ fetchedAt \in [Urls -> Nat \cup {-1}]
    BY DiscoveryAssumption DEF Typed, TypeOK, Entry
  <2> QED
    BY <2>1, ElementOfSeq, LenProperties
<1>1. PICK d \in Nat : u = queue[i].url /\ d = queue[i].depth
  BY <1>0 DEF Entry
<1>3. ASSUME \E j \in DOMAIN queue' : queue'[j] = queue[i] PROVE Settled(v, u)'
  BY <1>1, <1>3 DEF Settled
<1>4. ASSUME queue # <<>>, queue' = Tail(queue)
      PROVE  Head(queue) = queue[i] \/ \E j \in DOMAIN queue' : queue'[j] = queue[i]
  <2>1. /\ Head(queue) = queue[1]
        /\ \A k \in DOMAIN queue : k = 1 \/ (k - 1 \in DOMAIN queue' /\ queue[k] = queue'[k - 1])
    BY <1>0, <1>4, TailSeq
  <2> QED
    BY <2>1
<1>5. CASE UNCHANGED <<queue, current>>
  BY <1>3, <1>5
<1>6. CASE FollowLink
  <2>1. \E j \in DOMAIN queue' : queue'[j] = queue[i]
    <3>1. CASE queue' = queue
      BY <3>1
    <3> DEFINE e == [url |-> Head(pending), depth |-> current.depth + 1]
    <3>2. CASE e \in Entry /\ queue' = Append(queue, e)
      <4> HIDE DEF e
      <4> QED
        BY <1>0, <3>2, AppendSeq
    <3> QED
      BY <1>0, <1>6, <3>1, <3>2, FollowsLink
  <2> QED
    BY <1>3, <2>1
<1>7. CASE SkipEntry
  <2>1. /\ queue # <<>> /\ queue' = Tail(queue) /\ pc = "pages" /\ UNCHANGED table
        /\ fetchedAt' = fetchedAt
    BY <1>7 DEF SkipEntry, TakePage, MorePages
  <2>2. CASE Head(queue) = queue[i]
    <3>1. CASE u \in Fetched
      <4>1. fetchedAt[u] <= current.depth /\ current.depth <= d /\ fetchedAt[u] \in Nat
        BY <1>0, <1>1, <3>1 DEF OrderInv, Fetched
      <4>2. fetchedAt'[u] <= fetchedAt'[v] + 1 /\ u \in Fetched'
        BY <1>0, <1>1, <2>1, <3>1, <4>1 DEF Fetched
      <4> QED
        BY <4>2 DEF Settled
    <3>2. CASE ~Eligible(u)
      <4>1. u \in Listed /\ candidates = Listed
        BY <1>1, <2>1 DEF OrderInv, TableInv, Queued, Merged
      <4>2. page'[u].eligibility # "eligible" /\ u \in Listed'
        BY <2>1, <3>2, <4>1 DEF Eligible, table, Listed
      <4> QED
        BY <4>2 DEF Settled
    <3>3. d <= MaxDepth
      BY <1>1 DEF OrderInv
    <3> QED
      BY <1>0, <1>1, <1>7, <2>2, <3>1, <3>2, <3>3 DEF SkipEntry
  <2> QED
    BY <1>3, <1>4, <2>1, <2>2
<1>8. ASSUME NEW w \in Urls, VisitPage(w) PROVE Settled(v, u)'
  <2>1. queue # <<>> /\ queue' = Tail(queue) /\ w = Head(queue).url /\ pc = "pages"
    BY <1>0, <1>8, Visitings
  <2>2. CASE Head(queue) = queue[i]
    <3>1. u = w
      BY <1>1, <2>1, <2>2
    <3>2. CASE PageRead(w)
      <4>1. current' = Head(queue) /\ pc' = "canonical"
        BY <3>2 DEF PageRead
      <4> QED
        BY <1>1, <2>2, <4>1 DEF Settled, InHand
    <3>3. CASE page'[w].eligibility # "eligible"
      <4>1. u \in Listed'
        BY <1>0, <1>1, <2>1, ListedGrows DEF OrderInv, Queued
      <4> QED
        BY <3>1, <3>3, <4>1 DEF Settled
    <3> QED
      BY <1>0, <1>8, <3>2, <3>3, Visitings
  <2> QED
    BY <1>3, <1>4, <2>1, <2>2
<1> QED
  BY <1>5, <1>6, <1>7, <1>8, FrontierMoves

LEMMA SettledKept ==
    ASSUME Typed, TableInv, ScopeInv, OrderInv, [Next]_vars,
           NEW v \in Fetched, NEW u \in Urls, Settled(v, u)
    PROVE  Settled(v, u)'
<1>0. /\ TypeOK /\ fetchedAt'[v] = fetchedAt[v] /\ fetchedAt[v] \in Nat
      /\ current.depth \in Nat /\ current.url \in Urls /\ fetchedAt \in [Urls -> Nat \cup {-1}]
  BY FetchedKept DEF Typed, TypeOK, Fetched
<1>1. CASE u \in Fetched /\ fetchedAt[u] <= fetchedAt[v] + 1
  <2>1. u \in Fetched' /\ fetchedAt'[u] = fetchedAt[u]
    BY <1>0, <1>1, FetchedKept
  <2> QED
    BY <1>0, <1>1, <2>1 DEF Settled
<1>2. CASE fetchedAt[v] = MaxDepth /\ (External(u) \/ u \in Unsafe \cup Listed \cup blocked)
  <2>1. Listed \subseteq Listed' /\ blocked \subseteq blocked'
    BY <1>0, ListedGrows, GrowingSets
  <2> QED
    BY <1>0, <1>2, <2>1 DEF Settled, External
<1>3. ASSUME NEW i \in DOMAIN queue, queue[i].url = u, queue[i].depth <= fetchedAt[v] + 1
      PROVE  Settled(v, u)'
  BY <1>0, <1>3, EntrySettles
<1>4. CASE InHand /\ current.url = u /\ current.depth <= fetchedAt[v] + 1
  <2>1. current' = current /\ (InHand' \/ VisitAtLimit \/ Visit)
    BY <1>4, PlaceMoves
  <2>2. CASE InHand'
    BY <1>0, <1>4, <2>1, <2>2 DEF Settled
  <2>3. CASE VisitAtLimit \/ Visit
    <3>1. fetchedAt' = [fetchedAt EXCEPT ![current.url] = current.depth]
      BY <2>3 DEF VisitAtLimit, Visit
    <3>2. fetchedAt'[u] = current.depth /\ u \in Fetched'
      BY <1>0, <1>4, <3>1 DEF Fetched
    <3> QED
      BY <1>0, <1>4, <3>2 DEF Settled
  <2> QED
    BY <2>1, <2>2, <2>3
<1>5. CASE u \in refused
  BY <1>0, <1>5, GrowingSets DEF Settled
<1>6. CASE u \in Listed /\ page[u].eligibility # "eligible"
  <2>1. u \in Listed' /\ (page'[u].eligibility # "eligible" \/ page'[u].verified)
    BY <1>0, <1>6, ListedGrows, Eligibles
  <2> QED
    BY <2>1 DEF Settled
<1>7. CASE page[u].verified
  <2>1. page'[u].verified
    BY <1>7, Eligibles
  <2> QED
    BY <2>1 DEF Settled
<1> QED
  BY <1>1, <1>2, <1>3, <1>4, <1>5, <1>6, <1>7 DEF Settled

LEMMA LinksInit == Init => LinksInv
BY DEF Init, LinksInv, Fetched

LEMMA LinksNext ==
    ASSUME Typed, TableInv, ScopeInv, OrderInv, LinksInv, [Next]_vars
    PROVE  LinksInv'
<1>0. /\ TypeOK /\ current.depth \in Nat /\ MaxDepth \in Nat /\ current.url \in Urls
      /\ fetchedAt \in [Urls -> Nat \cup {-1}] /\ pending \in Seq(Names) /\ site' = site
  BY DiscoveryAssumption, PlaceMoves DEF Typed, TypeOK, Names
<1>1. SUFFICES ASSUME NEW v \in Fetched', NEW u \in Urls, Linked(v, u)
               PROVE  \/ Settled(v, u)'
                      \/ /\ pc' = "links" /\ v = current'.url
                         /\ \E i \in DOMAIN pending' : pending'[i] = u
  BY <1>0 DEF LinksInv, Linked, Links
<1>2. CASE v \in Fetched /\ Settled(v, u)
  BY <1>2, SettledKept
<1>3. CASE v \in Fetched /\ pc = "links" /\ v = current.url /\ \E i \in DOMAIN pending : pending[i] = u
  <2>0. pending # <<>>
    BY <1>0, <1>3
  <2>1. CASE FollowLink
    <3>1. pending' = Tail(pending) /\ current' = current /\ pc' = pc /\ fetchedAt' = fetchedAt
      BY <2>1 DEF FollowLink
    <3>2. CASE \E i \in DOMAIN pending' : pending'[i] = u
      BY <1>3, <3>1, <3>2
    <3>3. CASE Head(pending) = u
      <4>1. fetchedAt[v] = current.depth
        BY <1>3 DEF OrderInv
      <4>2. CASE u \in Fetched
        <5>1. fetchedAt'[u] <= fetchedAt'[v] + 1 /\ u \in Fetched'
          BY <1>0, <3>1, <4>1, <4>2 DEF OrderInv, Fetched
        <5> QED
          BY <5>1 DEF Settled
      <4>3. CASE ~Kept(u)
        <5>1. u \in refused'
          BY <1>0, <2>1, <3>3, <4>3, FollowsLink, AddTable
        <5> QED
          BY <5>1 DEF Settled
      <4> DEFINE e == [url |-> Head(pending), depth |-> current.depth + 1]
      <4>4. CASE e \in Entry /\ queue' = Append(queue, e)
        <5>1. e.url = u /\ e.depth = current.depth + 1 /\ queue \in Seq(Entry)
          BY <1>0, <3>3 DEF TypeOK, Entry
        <5> HIDE DEF e
        <5>2. \E i \in DOMAIN queue' : queue'[i] = e
          BY <4>4, <5>1, AppendSeq
        <5>3. \E i \in DOMAIN queue' : queue'[i].url = u /\ queue'[i].depth <= fetchedAt'[v] + 1
          BY <1>0, <3>1, <4>1, <5>1, <5>2
        <5> QED
          BY <5>3 DEF Settled
      <4> QED
        BY <1>0, <2>1, <3>3, <4>2, <4>3, <4>4, FollowsLink
    <3>4. /\ Head(pending) = pending[1]
          /\ \A k \in DOMAIN pending :
                k = 1 \/ (k - 1 \in DOMAIN pending' /\ pending[k] = pending'[k - 1])
      BY <1>0, <2>0, <3>1, TailSeq
    <3>5. Head(pending) = u \/ \E i \in DOMAIN pending' : pending'[i] = u
      BY <1>3, <3>4
    <3> QED
      BY <3>2, <3>3, <3>5
  <2>2. CASE LinksFollowed
    BY <2>0, <2>2 DEF LinksFollowed
  <2>3. CASE UNCHANGED vars
    BY <1>3, <2>3 DEF vars, frontier
  <2> QED
    BY <1>3, <2>1, <2>2, <2>3, PlaceMoves
<1>4. CASE v \notin Fetched
  <2>1. Visits /\ v = current.url
    BY <1>0, <1>4, VisitedGrows
  <2>2. (VisitAtLimit \/ Visit) /\ current' = current
    BY <2>1, PlaceMoves DEF Visits, vars, frontier, InHand
  <2>3. CASE Visit
    <3>1. pc' = "links" /\ pending' = Links(v)
      BY <2>1, <2>3 DEF Visit
    <3> QED
      BY <1>1, <2>1, <2>2, <3>1 DEF Linked
  <2>4. CASE VisitAtLimit
    <3>1. current.depth >= MaxDepth /\ current.depth <= MaxDepth
      BY <2>1, <2>4 DEF VisitAtLimit, Visits, InHand, ScopeInv
    <3>2. fetchedAt'[v] = MaxDepth
      BY <1>0, <2>1, <2>4, <3>1 DEF VisitAtLimit
    <3>3. candidates = Listed /\ blocked' = blocked \cup Beyond /\ Listed' = Listed
      BY <2>1, <2>4 DEF VisitAtLimit, Visits, table, Listed, TableInv, Merged
    <3>4. External(u) \/ u \in Unsafe \/ u \in candidates \/ u \in blocked \/ u \in Beyond
      BY <1>1, <2>1 DEF Beyond, Linked
    <3> QED
      BY <3>2, <3>3, <3>4 DEF Settled, External
  <2> QED
    BY <2>2, <2>3, <2>4
<1> QED
  BY <1>1, <1>2, <1>3, <1>4 DEF LinksInv

-----------------------------------------------------------------------------
(* Canonical pages, and what a completed crawl says.                        *)

\* Only a visited page names another as canonical, and what was merged left that one.
CanonicalInv ==
    /\ \A u \in Urls \ Visited : page[u].canonical \in {"none", u}
    /\ \A u \in Listed \ candidates :
          /\ page[u].canonical \in candidates
          /\ page[page[u].canonical].canonical = page[u].canonical

LEMMA CanonicalInit == Init => CanonicalInv
<1> SUFFICES ASSUME Init PROVE CanonicalInv
  OBVIOUS
<1>1. Listed = {} /\ \A u \in Urls : page[u] = Fresh(u, 0)
  BY DEF Init, Listed, Range
<1>2. \A u \in Urls : page[u].canonical = "none"
  BY <1>1, FreshFacts
<1> QED
  BY <1>1, <1>2 DEF CanonicalInv

\* How a page comes to name another.
LEMMA Canonicals ==
    ASSUME Typed, [Next]_vars, NEW w \in Urls
    PROVE  \/ page'[w].canonical \in {page[w].canonical, "none", w}
           \/ w \in Visited'
<1>0. TypeOK
  BY DEF Typed
<1>1. CASE UNCHANGED table
  BY <1>1 DEF table
<1>2. ASSUME NEW u \in Names, NEW d \in Nat, Adds(u, d)
      PROVE  page'[w].canonical \in {page[w].canonical, "none"}
  <2>1. Add(u, d)
    BY <1>2 DEF Adds
  <2>2. CASE w \in candidates
    BY <1>0, <2>1, <2>2, AddPages
  <2>3. CASE w \notin candidates
    BY <1>0, <2>1, <2>3, AddPages, FreshFacts
  <2> QED
    BY <2>2, <2>3
<1>3. ASSUME NEW u \in Urls, VisitPage(u) PROVE page'[w].canonical = page[w].canonical
  BY <1>0, <1>3, Visitings
<1>4. CASE Vouch
  <2>1. Canonical \in Urls
    BY <1>0, <1>4 DEF Vouch, Typed, TypeOK
  <2>2. w = current.url \/ page'[w].canonical = page[w].canonical
    BY <1>0, <1>4, <2>1, VouchType
  <2>3. current.url \in Visited'
    BY <1>4 DEF Vouch, Visited, frontier
  <2> QED
    BY <2>2, <2>3
<1>5. CASE CheckUnvisited
  BY <1>0, <1>5, Unvisited
<1>6. CASE Merge
  BY <1>0, <1>6, Merges
<1> QED
  BY <1>0, <1>1, <1>2, <1>3, <1>4, <1>5, <1>6, TableMoves

LEMMA CanonicalNext ==
    ASSUME Typed, TableInv, CanonicalInv, [Next]_vars
    PROVE  CanonicalInv'
<1>0. TypeOK /\ candidates \subseteq Urls /\ "none" \notin Urls /\ TableInv'
  BY DiscoveryAssumption, TableNext DEF Typed, TypeOK
<1>1. ASSUME NEW u \in Urls \ Visited' PROVE page'[u].canonical \in {"none", u}
  <2>1. u \notin Visited
    BY <1>0, VisitedGrows
  <2> QED
    BY <2>1, Canonicals DEF CanonicalInv
<1>2. ASSUME NEW u \in Listed' \ candidates'
      PROVE  /\ page'[u].canonical \in candidates'
             /\ page'[page'[u].canonical].canonical = page'[u].canonical
  <2>0. Merged'
    BY <1>0, <1>2 DEF TableInv
  <2>1. CASE CheckUnvisited
    BY <1>0, <1>2, <2>1 DEF CheckUnvisited, TableInv, Merged, Listed
  <2>2. CASE Merged
    <3>1. CASE UNCHANGED table
      BY <1>2, <3>1 DEF table, Listed, CanonicalInv
    <3>2. CASE Merge
      <4>1. PICK x \in Urls : /\ page[x].canonical \in candidates \ {x}
                              /\ candidates' = candidates \ {x}
                              /\ page'[page[x].canonical].canonical = page[x].canonical
                              /\ \A w \in Urls : w # page[x].canonical => page'[w] = page[w]
        BY <1>0, <3>2, Merges
      <4>2. Listed' = Listed /\ u \in Listed
        BY <1>2, <3>2 DEF Merge, Listed
      <4>3. \A w \in Urls : page'[w].canonical \in {page[w].canonical, w}
        BY <1>0, <3>2, Merges
      <4>4. u \in Urls
        BY <1>0, <4>2, ElementOfSeq DEF Listed, Range, TypeOK
      <4>5. CASE u = x
        <5>1. page'[u].canonical = page[x].canonical
          BY <4>1, <4>4, <4>5
        <5> QED
          BY <4>1, <4>5, <5>1
      <4>6. CASE u # x
        <5>1. u \notin candidates
          BY <1>2, <4>1, <4>6
        <5>2. /\ page[u].canonical \in candidates
              /\ page[page[u].canonical].canonical = page[u].canonical
          BY <4>2, <5>1 DEF CanonicalInv
        <5>3. page'[u].canonical = page[u].canonical
          BY <4>1, <4>4, <5>1
        <5>4. page[u].canonical # x
          BY <4>1, <5>2
        <5>5. page'[page[u].canonical].canonical = page[u].canonical
          BY <1>0, <4>3, <5>2
        <5> QED
          BY <4>1, <5>2, <5>3, <5>4, <5>5
      <4> QED
        BY <4>5, <4>6
    <3>3. UNCHANGED table \/ Merge
      <4>1. ~CheckUnvisited /\ ~Vouch /\ \A u1 \in Names, d \in Nat : ~Adds(u1, d)
        BY <2>2 DEF Merged, CheckUnvisited, Vouch, Adds
      <4>2. \A u1 \in Urls : ~VisitPage(u1)
        BY <1>0, <2>2, Visitings DEF Merged
      <4> QED
        BY <1>0, <4>1, <4>2, TableMoves
    <3> QED
      BY <3>1, <3>2, <3>3
  <2> QED
    BY <2>0, <2>1, <2>2, PlaceMoves
<1> QED
  BY <1>1, <1>2 DEF CanonicalInv

\* A crawl says how it ended only at its end.
EndInv ==
    /\ outcome.status # "running" => pc = "done"
    /\ CompletedIsExhausted

LEMMA EndInit == Init => EndInv
BY DEF Init, EndInv, CompletedIsExhausted, NoOutcome

LEMMA EndNext ==
    ASSUME Typed, TableInv, ScopeInv, OrderInv, LinksInv, CanonicalInv, EndInv, [Next]_vars
    PROVE  EndInv'
<1>0. TypeOK /\ order \in Seq(Urls) /\ "none" \notin Urls
  BY DiscoveryAssumption DEF Typed, TypeOK
<1>1. CASE Finish
  <2>1. /\ pc = "merge" /\ pc' = "done" /\ UNCHANGED <<order, page, refused, fetchedAt, site>>
    BY <1>1 DEF Finish, crawl, frontier, table
  <2>2. outcome'.status = "completed" => ~(Remaining > 0)
    BY <1>1 DEF Finish
  <2>3. Remaining \in Nat
    BY RemainingCounted
  <2>4. SUFFICES ASSUME Remaining = 0, NEW v \in Fetched, NEW u \in Urls, Linked(v, u)
                 PROVE  \/ u \in Fetched \cup refused
                        \/ page[u].eligibility # "eligible" \/ page[u].verified
                        \/ /\ fetchedAt[v] = MaxDepth
                           /\ External(u) \/ u \in Unsafe \/ \E i \in DOMAIN order : order[i] = u
    <3>1. ASSUME outcome'.status = "completed" PROVE Remaining = 0
      BY <2>2, <2>3, <3>1
    <3> QED
      <4>1. /\ Fetched' = Fetched /\ refused' = refused /\ page' = page /\ order' = order
            /\ fetchedAt' = fetchedAt /\ \A v, u \in Urls : Linked(v, u)' => Linked(v, u)
        BY <2>1 DEF Fetched, Linked, Links
      <4>2. ASSUME outcome'.status = "completed", NEW v \in Fetched, NEW u \in Urls, Linked(v, u)
            PROVE  \/ u \in Fetched \cup refused
                   \/ page[u].eligibility # "eligible" \/ page[u].verified
                   \/ /\ fetchedAt[v] = MaxDepth
                      /\ External(u) \/ u \in Unsafe \/ \E i \in DOMAIN order : order[i] = u
        BY <2>4, <3>1, <4>2
      <4>3. CompletedIsExhausted'
        BY <4>1, <4>2 DEF CompletedIsExhausted, Fetched, External
      <4> QED
        BY <2>1, <4>3 DEF EndInv
  <2>5. Unprocessed = {} /\ blocked = {}
    BY <2>4, RemainingCounted
  <2>6. Settled(v, u) /\ ~InHand
    BY <2>1, <2>4 DEF LinksInv, InHand
  <2>7. Listed = {order[i] : i \in DOMAIN order}
    BY DEF Listed, Range
  <2>8. ASSUME u \in Queued, u \notin Fetched PROVE page[u].eligibility # "eligible"
    <3>1. ~Eligible(u)
      BY <2>5, <2>8 DEF Unprocessed
    <3>2. CASE u \notin candidates
      <4>1. u \in Listed /\ u \notin Visited
        BY <2>1, <2>8 DEF OrderInv, Visited
      <4>2. page[u].canonical \in {"none", u} /\ page[u].canonical \in candidates
        BY <3>2, <4>1 DEF CanonicalInv
      <4> QED
        BY <1>0, <3>2, <4>2 DEF TypeOK
    <3> QED
      BY <3>1, <3>2 DEF Eligible
  <2>9. (\E i \in DOMAIN queue : queue[i].url = u) => u \in Queued
    BY DEF Queued
  <2> QED
    BY <2>5, <2>6, <2>7, <2>8, <2>9 DEF Settled
<1>2. CASE UNCHANGED outcome
  <2>1. CASE outcome.status = "running"
    BY <1>2, <2>1 DEF EndInv, CompletedIsExhausted
  <2>2. CASE pc = "done"
    <3>1. UNCHANGED vars
      BY <2>2, PlaceMoves
    <3>2. /\ Fetched' = Fetched /\ refused' = refused /\ page' = page /\ order' = order
          /\ fetchedAt' = fetchedAt /\ pc' = pc /\ outcome' = outcome
          /\ \A v, u \in Urls : Linked(v, u)' => Linked(v, u)
      BY <3>1 DEF vars, crawl, frontier, table, rest, Fetched, Linked, Links
    <3>3. CompletedIsExhausted'
      BY <3>2 DEF EndInv, CompletedIsExhausted, Fetched, External
    <3> QED
      BY <3>2, <3>3 DEF EndInv
  <2> QED
    BY <2>1, <2>2 DEF EndInv
<1> QED
  BY <1>1, <1>2, PlaceMoves

-----------------------------------------------------------------------------
(* The theorems.                                                            *)

\* The inductive invariant.
Lawful ==
    /\ Typed /\ TableInv /\ ScopeInv /\ EarnedInv /\ StartInv /\ OrderInv /\ LinksInv
    /\ CanonicalInv /\ EndInv

LEMMA LawfulHolds == Spec => []Lawful
<1>1. Init => Lawful
  BY TypeInit, TableInit, ScopeInit, EarnedInit, StartInit, OrderInit, LinksInit, CanonicalInit,
     EndInit DEF Lawful
<1>2. Lawful /\ [Next]_vars => Lawful'
  BY TypedNext, TableNext, ScopeNext, EarnedNext, StartNext, OrderNext, LinksNext, CanonicalNext,
     EndNext DEF Lawful
<1> QED
  BY <1>1, <1>2, PTL DEF Spec

LEMMA BreadthFirstHolds == Lawful => BreadthFirst
<1> SUFFICES ASSUME Lawful, NEW u \in Fetched, Relation[u] # "same_domain"
             PROVE  /\ u # Submitted => \E v \in Fetched : Linked(v, u) /\ fetchedAt[u] = fetchedAt[v] + 1
                    /\ \A v \in Fetched : Linked(v, u) => fetchedAt[u] <= fetchedAt[v] + 1
  BY DEF BreadthFirst
<1>0. /\ TableInv /\ ScopeInv /\ OrderInv /\ LinksInv
      /\ MaxDepth \in Nat /\ current.depth \in Nat /\ u \in Urls
      /\ \A v \in Fetched : v \in Urls /\ fetchedAt[v] \in Nat
      /\ \A i \in DOMAIN queue : queue[i].depth \in Int
  BY DiscoveryAssumption DEF Lawful, Typed, TypeOK, Fetched, OrderInv
<1>1. u # Submitted => \E v \in Fetched : Linked(v, u) /\ fetchedAt[u] = fetchedAt[v] + 1
  BY <1>0 DEF OrderInv, Reached
<1>2. ASSUME NEW v \in Fetched, Linked(v, u) PROVE fetchedAt[u] <= fetchedAt[v] + 1
  <2>1. /\ fetchedAt[u] <= current.depth /\ fetchedAt[u] <= MaxDepth
        /\ fetchedAt[u] \in Nat /\ fetchedAt[v] \in Nat
    BY <1>0 DEF OrderInv
  <2>2. CASE pc = "links" /\ v = current.url
    BY <1>0, <2>1, <2>2 DEF OrderInv
  <2>3. CASE Settled(v, u)
    <3>1. /\ u \notin refused /\ page[u].eligibility = "eligible" /\ ~page[u].verified
          /\ InHand => current.url # u
      BY <1>0 DEF TableInv, ScopeInv
    <3>2. ASSUME NEW i \in DOMAIN queue, queue[i].depth <= fetchedAt[v] + 1
          PROVE  fetchedAt[u] <= fetchedAt[v] + 1
      <4>1. current.depth <= queue[i].depth
        BY <1>0 DEF OrderInv
      <4> QED
        BY <1>0, <2>1, <3>2, <4>1
    <3> QED
      BY <1>0, <2>1, <2>3, <3>1, <3>2 DEF Settled
  <2> QED
    BY <1>0, <1>2, <2>2, <2>3 DEF LinksInv
<1> QED
  BY <1>1, <1>2

\* The crawl visits only what it may, and breadth first: what is visited is in scope, not
\* disallowed by robots.txt, and vouched for when it is of another subdomain; it is linked
\* from a page one level nearer and from none nearer than that.
THEOREM VisitsLawful == Spec => []VisitsAreLawful
<1>1. Lawful => VisitsAreLawful
  <2> SUFFICES ASSUME Lawful PROVE VisitsAreLawful
    OBVIOUS
  <2>1. FetchedInScope
    BY DEF Lawful, EarnedInv, Earned, ScopeInv, FetchedInScope
  <2>2. TypeOK
    BY DEF Lawful, Typed
  <2> QED
    BY <2>1, <2>2, BreadthFirstHolds DEF VisitsAreLawful
<1> QED
  BY <1>1, LawfulHolds, PTL

\* A crawl that says completed has followed every link of the pages it visited, but for what
\* a limit refused, what may not be visited and what lies beyond the last level.
THEOREM CompletedExhausts == Spec => []CompletedIsExhausted
<1>1. Lawful => CompletedIsExhausted
  BY DEF Lawful, EndInv
<1> QED
  BY <1>1, LawfulHolds, PTL

\* Merging pages into their canonical ones loses no visited page, in whatever order they
\* are merged and however they name each other.
THEOREM MergesKeep == Spec => []MergedIntoSurvivor
<1>1. Lawful => MergedIntoSurvivor
  BY DEF Lawful, TableInv, CanonicalInv, MergedIntoSurvivor
<1> QED
  BY <1>1, LawfulHolds, PTL
=============================================================================
