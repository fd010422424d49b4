---------------------------- MODULE PageWorkProofs ----------------------------
(***************************************************************************)
(* Proofs about the work on pages. SitePages, for any addresses, crawls,    *)
(* answers of the web, discovery runs, executions and calls of the two      *)
(* tasks, any limits and any number of deaths: types, which pages a         *)
(* discovery run has, and what an execution that answers completed did.     *)
(* AnalysisRun, for any number of deliveries and any codes: types, and that *)
(* the deliveries of a message together keep what ReportStore promises the  *)
(* readers of a run.                                                        *)
(***************************************************************************)
EXTENDS SitePages, AnalysisRun, FiniteSetTheorems, WellFoundedInduction, TLAPS

Entry == [key: Nat, url: Urls]

LEMMA LeastNatural ==
    ASSUME NEW S \in SUBSET Nat, S # {}
    PROVE  \E m \in S : \A k \in S : m <= k
<1>1. PICK m \in S : \A k \in S : <<k, m>> \notin OpToRel(<, Nat)
  BY WFMin, NatLessThanWellFounded, Zenon
<1>2. \A k \in S : ~(k < m)
  BY <1>1, Zenon DEF OpToRel
<1> QED
  BY <1>2

\* A list that is not empty has a first page.
LEMMA FirstIn ==
    ASSUME NEW list \in SUBSET Entry, list # {}
    PROVE  First(list) \in Urls /\ \E t \in list : t.url = First(list)
<1> DEFINE keys == {t.key : t \in list}
<1>1. keys \in SUBSET Nat /\ keys # {}
  BY DEF Entry
<1>2. PICK n \in keys : \A m \in keys : n <= m
  BY <1>1, LeastNatural
<1> DEFINE front == {t \in list : t.key = n}
           ranks == {Rank[t.url] : t \in front}
<1>3. ranks \in SUBSET Nat /\ ranks # {}
  BY SitePagesAssumption DEF Entry
<1>4. PICK m \in ranks : \A l \in ranks : m <= l
  BY <1>3, LeastNatural
<1>5. PICK t \in front : Rank[t.url] = m
  BY <1>4
<1>6. \A o \in list : t.key < o.key \/ (t.key = o.key /\ Rank[t.url] <= Rank[o.url])
  <2> SUFFICES ASSUME NEW o \in list, ~(t.key < o.key)
               PROVE  t.key = o.key /\ Rank[t.url] <= Rank[o.url]
    OBVIOUS
  <2>1. t.key = n /\ n <= o.key /\ n \in Nat /\ o.key \in Nat
    BY <1>1, <1>2, <1>5
  <2>2. o \in front
    BY <2>1
  <2> QED
    BY <1>4, <1>5, <2>1, <2>2
<1> DEFINE f == CHOOSE x \in list :
                    \A o \in list : x.key < o.key \/ (x.key = o.key /\ Rank[x.url] <= Rank[o.url])
<1>7. f \in list
  BY <1>5, <1>6
<1> QED
  BY <1>7 DEF First, Entry

LEMMA SelectionIsOfPages ==
    ASSUME NEW r, \A u \in Urls : member[r][u] # "absent" => Stored(u)
    PROVE  /\ EligiblePages(r) \in SUBSET {u \in Urls : Stored(u)}
           /\ SelectDeep(r) \in SUBSET {u \in Urls : Stored(u)}
           /\ \A S \in SUBSET {u \in Urls : Stored(u)} :
                 SelectScheduled(S) \in SUBSET {u \in Urls : Stored(u)}
<1>1. EligiblePages(r) \in SUBSET {u \in Urls : Stored(u)}
  BY DEF EligiblePages, Members
<1>2. SelectDeep(r) \in SUBSET EligiblePages(r)
  BY DEF SelectDeep, FirstOf
<1>3. \A S : SelectScheduled(S) \in SUBSET S
  BY DEF SelectScheduled, FirstOf
<1> QED
  BY <1>1, <1>2, <1>3

-----------------------------------------------------------------------------
(* Types, and who is where.                                                *)

Holding == {"insert1", "insert2", "fetch", "audit", "results", "audited"}
Owning  == {"fetch", "audit", "results", "audited"}

\* Who is where: a call at work has its run or execution, a page in its hands or on its
\* list is in the table, and so is every member of a run.
Placed ==
    /\ \A k \in Crawlers : cpc[k] # "waiting" => run[k] \in 1..created
    /\ \A k \in Crawlers : cpc[k] \in {"persist", "finish"} => found[k] \in Crawls
    /\ \A a \in Analysers : apc[a] # "waiting" => exec[a] \in Executions /\ about[exec[a]] # None
    /\ \A a \in Analysers : apc[a] \in Holding => current[a] \in Urls /\ Stored(current[a])
    /\ \A a \in Analysers : \A t \in todo[a] : Stored(t.url)
    /\ \A r \in Runs, u \in Urls : member[r][u] # "absent" => Stored(u)

LEMMA PagesTypeInit == PagesInit => PagesTypeOK /\ Placed
<1> SUFFICES ASSUME PagesInit PROVE PagesTypeOK /\ Placed
  OBVIOUS
<1>1. PagesTypeOK
  BY SitePagesAssumption, FS_CardinalityType
     DEF PagesInit, PagesTypeOK, RowStates
<1>2. Placed
  BY DEF PagesInit, Placed, Holding
<1> QED
  BY <1>1, <1>2

\* A page of the table keeps its place, whatever is written on it.
LEMMA SetPageType ==
    ASSUME PagesTypeOK, NEW a \in Analysers, NEW u \in Urls, Stored(u), NEW s \in RowStates,
           NEW b \in BOOLEAN, SetPage(a, u, s, b)
    PROVE  /\ page' \in [Urls -> {None} \cup PageRow]
           /\ \A v \in Urls : Stored(v) => Stored(v)'
<1> DEFINE level == [page[u].level EXCEPT ![Level(a)] = s]
           new == Marked(page[u], Level(a), s, b)
<1>1. page[u] \in PageRow /\ Level(a) \in Levels
  BY DEF PagesTypeOK, Stored, Level, Levels
<1>2. level \in [Levels -> RowStates] /\ (page[u].eligible /\ b) \in BOOLEAN
  BY <1>1 DEF PageRow
<1>3. page' = [page EXCEPT ![u] = new]
  BY DEF SetPage
<1> HIDE DEF level
<1>4. new \in PageRow
  BY <1>1, <1>2 DEF PageRow, Marked, level
<1> HIDE DEF new
<1> QED
  BY <1>3, <1>4, SitePagesAssumption DEF PagesTypeOK, Stored

LEMMA SetRowType ==
    ASSUME PagesTypeOK, NEW a \in Analysers, exec[a] \in Executions, NEW u \in Urls,
           NEW s \in RowStates, SetRow(a, u, s)
    PROVE  /\ analysis' \in [Executions -> [Levels -> [Urls -> RowStates \cup {"none"}]]]
           /\ \A e \in Executions, n \in Levels, v \in Urls :
                 analysis'[e][n][v] = IF e = exec[a] /\ n = Level(a) /\ v = u
                                      THEN s ELSE analysis[e][n][v]
<1>1. PICK e \in Executions, n \in Levels : e = exec[a] /\ n = Level(a)
  BY DEF Level, Levels
<1> DEFINE line == [analysis[e][n] EXCEPT ![u] = s]
           table == [analysis[e] EXCEPT ![n] = line]
<1>2. /\ line \in [Urls -> RowStates \cup {"none"}]
      /\ \A v \in Urls : line[v] = IF v = u THEN s ELSE analysis[e][n][v]
  BY DEF PagesTypeOK
<1>3. analysis' = [analysis EXCEPT ![e] = table]
  BY <1>1 DEF SetRow
<1> HIDE DEF line
<1>4. /\ table \in [Levels -> [Urls -> RowStates \cup {"none"}]]
      /\ \A m \in Levels : table[m] = IF m = n THEN line ELSE analysis[e][m]
  BY <1>2 DEF PagesTypeOK
<1> HIDE DEF table
<1>5. /\ analysis' \in [Executions -> [Levels -> [Urls -> RowStates \cup {"none"}]]]
      /\ \A x \in Executions : analysis'[x] = IF x = e THEN table ELSE analysis[x]
  BY <1>3, <1>4 DEF PagesTypeOK
<1>6. \A x \in Executions, m \in Levels, v \in Urls :
         analysis'[x][m][v] = IF x = e /\ m = n /\ v = u THEN s ELSE analysis[x][m][v]
  BY <1>2, <1>4, <1>5
<1> QED
  BY <1>1, <1>5, <1>6

LEMMA StorePagesType ==
    ASSUME PagesTypeOK, NEW k \in Crawlers, run[k] \in Runs, StorePages(k)
    PROVE  /\ page' \in [Urls -> {None} \cup PageRow]
           /\ \A u \in Urls : Stored(u) \/ u \in FoundBy(k) => Stored(u)'
<1>1. ASSUME NEW u \in FoundBy(k) PROVE PageFrom(found[k][u], run[k], page[u]) \in PageRow
  <2>1. found[k][u] \in FoundPage /\ u \in Urls
    BY <1>1 DEF FoundBy, PagesTypeOK
  <2> DEFINE level == IF page[u] = None THEN [n \in Levels |-> "pending"] ELSE page[u].level
  <2>2. level \in [Levels -> RowStates]
    BY <2>1 DEF PagesTypeOK, PageRow, RowStates
  <2> HIDE DEF level
  <2> QED
    BY <2>1, <2>2 DEF PageFrom, PageRow, FoundPage, level
<1>2. \A u \in Urls :
         page'[u] = IF u \in FoundBy(k) THEN PageFrom(found[k][u], run[k], page[u]) ELSE page[u]
  BY DEF StorePages
<1>3. page' = [u \in Urls |-> page'[u]]
  BY DEF StorePages
<1>4. \A u \in Urls : page'[u] \in {None} \cup PageRow
  BY <1>1, <1>2 DEF PagesTypeOK
<1>5. page' \in [Urls -> {None} \cup PageRow]
  BY <1>3, <1>4
<1>6. \A u \in Urls : Stored(u) \/ u \in FoundBy(k) => Stored(u)'
  BY <1>1, <1>2, SitePagesAssumption DEF Stored
<1> QED
  BY <1>5, <1>6

LEMMA RunsType ==
    /\ Cardinality(Runs) \in Nat
    /\ PagesTypeOK => created \in Nat /\ 1..created \subseteq Runs
<1>1. Cardinality(Runs) \in Nat
  BY SitePagesAssumption, FS_CardinalityType
<1>2. PagesTypeOK => created \in Nat /\ created <= Cardinality(Runs)
  BY <1>1 DEF PagesTypeOK
<1> QED
  BY <1>1, <1>2, SitePagesAssumption

LEMMA DiscoverType ==
    ASSUME PagesTypeOK, Placed, NEW k \in Crawlers, Discover(k)
    PROVE  PagesTypeOK'
<1> USE DEF PagesTypeOK
<1>0. cpc[k] # "waiting" => run[k] \in Runs
  BY RunsType DEF Placed
<1>1. CASE EnterDiscovery(k)
  BY <1>1, RunsType DEF EnterDiscovery, storage, working
<1>2. CASE Crawl(k)
  <2>1. found' \in [Crawlers -> [Urls -> FoundPage \cup {None}]]
    BY <1>2, SitePagesAssumption DEF Crawl
  <2>2. known' \in [Crawlers -> SUBSET Urls] /\ dropped' \in [Crawlers -> SUBSET Urls]
    BY <1>2, SMTT(30) DEF Crawl, Members
  <2> QED
    BY <1>2, <2>1, <2>2 DEF Crawl, runs, storage, working
<1>3. CASE CrawlFails(k)
  BY <1>3 DEF CrawlFails, storage, working
<1>4. CASE Persist(k)
  <2>1. page' \in [Urls -> {None} \cup PageRow]
    BY <1>0, <1>4, StorePagesType DEF Persist
  <2>2. member' \in [Runs -> [Urls -> {"absent", "eligible", "excluded"}]]
    <3> DEFINE new == [u \in Urls |-> IF u \in FoundBy(k) THEN Eligibility(found[k][u])
                                      ELSE IF u \in dropped[k] THEN "absent" ELSE member[run[k]][u]]
    <3>1. run[k] \in Runs
      BY <1>0, <1>4 DEF Persist
    <3>2. new \in [Urls -> {"absent", "eligible", "excluded"}]
      BY <3>1 DEF Eligibility
    <3>3. member' = [member EXCEPT ![run[k]] = new]
      BY <1>4 DEF Persist
    <3> HIDE DEF new
    <3> QED
      BY <3>1, <3>2, <3>3
  <2> QED
    BY <1>4, <2>1, <2>2 DEF Persist, EndTransaction, runs, working
<1>5. CASE PersistAborts(k)
  BY <1>5 DEF PersistAborts, EndTransaction, runs, storage, working
<1>6. CASE FinishDiscovery(k)
  <2>1. discovery' \in [Runs -> {"pending", "running", "completed", "partial", "failed"}]
    BY <1>6 DEF FinishDiscovery
  <2>2. cpc' \in [Crawlers -> {"waiting", "crawl", "persist", "finish", "done"}]
    BY <1>6 DEF FinishDiscovery
  <2> QED
    BY <1>6, <2>1, <2>2 DEF FinishDiscovery, storage, working
<1>7. CASE CrawlerDies(k)
  <2>1. deaths' \in 0..MaxDeaths
    BY <1>7, SitePagesAssumption DEF CrawlerDies, Dies
  <2>2. /\ cpc' = [cpc EXCEPT ![k] = "done"] /\ known' = [known EXCEPT ![k] = {}]
        /\ dropped' = [dropped EXCEPT ![k] = {}]
        /\ UNCHANGED <<run, found, storage, working, created, discovery, about>>
    BY <1>7 DEF CrawlerDies, EndTransaction, Dies
  <2> QED
    BY <2>1, <2>2 DEF storage, working
<1> QED
  BY <1>1, <1>2, <1>3, <1>4, <1>5, <1>6, <1>7 DEF Discover

LEMMA StartType ==
    ASSUME PagesTypeOK, StartDiscovery \/ \E e \in Executions : StartPageAnalysis(e)
    PROVE  PagesTypeOK'
<1> USE DEF PagesTypeOK
<1>1. CASE StartDiscovery
  <2>1. created' \in 0..Cardinality(Runs)
    BY <1>1, RunsType DEF StartDiscovery
  <2>2. discovery' \in [Runs -> {"pending", "running", "completed", "partial", "failed"}]
    BY <1>1 DEF StartDiscovery
  <2> QED
    BY <1>1, <2>1, <2>2 DEF StartDiscovery, crawling, storage, working
<1>2. ASSUME NEW e \in Executions, StartPageAnalysis(e) PROVE PagesTypeOK'
  <2>1. created \in Runs
    BY <1>2, RunsType DEF StartPageAnalysis
  <2> QED
    BY <1>2, <2>1 DEF StartPageAnalysis, crawling, storage, working
<1> QED
  BY <1>1, <1>2

\* What a call of the page analysis works on.
LEMMA InHand ==
    ASSUME PagesTypeOK, Placed, NEW a \in Analysers, apc[a] # "waiting"
    PROVE  /\ exec[a] \in Executions /\ about[exec[a]] \in Runs
           /\ apc[a] \in Holding => current[a] \in Urls /\ Stored(current[a])
           /\ todo[a] # {} => First(todo[a]) \in Urls /\ Stored(First(todo[a]))
<1>1. todo[a] \in SUBSET Entry
  BY DEF PagesTypeOK, Entry
<1>2. todo[a] # {} => First(todo[a]) \in Urls /\ Stored(First(todo[a]))
  BY <1>1, FirstIn DEF Placed
<1>3. exec[a] \in Executions /\ about[exec[a]] # None
  BY DEF Placed
<1> QED
  BY <1>2, <1>3 DEF PagesTypeOK, Placed

LEMMA AnalyseType ==
    ASSUME PagesTypeOK, Placed, NEW a \in Analysers, Analyse(a)
    PROVE  /\ PagesTypeOK'
           /\ \A u \in Urls : Stored(u) => Stored(u)'
<1> USE DEF PagesTypeOK
<1>0. UNCHANGED page => \A u \in Urls : Stored(u) => Stored(u)'
  BY DEF Stored
<1>1. CASE Schedule(a)
  <2>1. PICK e \in Executions :
           /\ about[e] # None
           /\ exec' = [exec EXCEPT ![a] = e]
           /\ scheduled' = [scheduled EXCEPT ![a] = SelectScheduled(EligiblePages(about[e]))]
    BY <1>1 DEF Schedule
  <2>2. SelectScheduled(EligiblePages(about[e])) \in SUBSET {u \in Urls : Stored(u)}
    <3>1. \A u \in Urls : member[about[e]][u] # "absent" => Stored(u)
      BY <2>1 DEF Placed
    <3>2. EligiblePages(about[e]) \in SUBSET {u \in Urls : Stored(u)}
      BY <3>1, SelectionIsOfPages
    <3> QED
      BY <3>1, <3>2, SelectionIsOfPages
  <2>3. scheduled'[a] \in SUBSET {u \in Urls : Stored(u)}
    BY <2>1, <2>2
  <2>4. todo' = [todo EXCEPT ![a] = {[key |-> page[u].depth, url |-> u] : u \in scheduled'[a]}]
    BY <1>1 DEF Schedule, Ordered, Depth
  <2>5. \A u \in scheduled'[a] : u \in Urls /\ page[u].depth \in Nat
    BY <2>3 DEF Stored, PageRow
  <2>6. todo' \in [Analysers -> SUBSET [key: Nat, url: Urls]]
    BY <2>4, <2>5
  <2>7. scheduled' \in [Analysers -> SUBSET Urls] /\ exec' \in [Analysers -> Executions \cup {None}]
    BY <2>1, <2>2
  <2> QED
    BY <1>0, <1>1, <2>6, <2>7 DEF Schedule, Move, runs, crawling, storage
<1>2. CASE SkipPage(a)
  <2>1. todo' \in [Analysers -> SUBSET [key: Nat, url: Urls]]
    BY <1>2 DEF SkipPage, Without
  <2> QED
    BY <1>0, <1>2, <2>1 DEF SkipPage, runs, crawling, storage
<1>3. CASE TakePage(a)
  <2>1. todo' \in [Analysers -> SUBSET [key: Nat, url: Urls]]
    BY <1>3 DEF TakePage, Without
  <2>2. First(todo[a]) \in Urls
    BY <1>3, InHand DEF TakePage
  <2> QED
    BY <1>0, <1>3, <2>1, <2>2 DEF TakePage, Move, runs, crawling, storage
<1>4. CASE InsertRow(a)
  <2>1. exec[a] \in Executions /\ current[a] \in Urls
    BY <1>4, InHand DEF InsertRow, Holding
  <2>2. analysis' \in [Executions -> [Levels -> [Urls -> RowStates \cup {"none"}]]]
    BY <1>4, <2>1, SetRowType DEF InsertRow, RowStates
  <2> QED
    BY <1>0, <1>4, <2>2 DEF InsertRow, Move, runs, crawling
<1>5. CASE InsertRefused(a)
  BY <1>0, <1>5 DEF InsertRefused, Move, runs, crawling, storage
<1>6. CASE FetchPage(a)
  <2>1. exec[a] \in Executions /\ current[a] \in Urls /\ Stored(current[a])
    BY <1>6, InHand DEF FetchPage, Holding
  <2>2. PICK s \in {"completed", "failed"}, b \in BOOLEAN :
           SetRow(a, current[a], s) /\ SetPage(a, current[a], s, b)
    BY <1>6 DEF FetchPage
  <2>3. /\ analysis' \in [Executions -> [Levels -> [Urls -> RowStates \cup {"none"}]]]
        /\ page' \in [Urls -> {None} \cup PageRow]
        /\ \A u \in Urls : Stored(u) => Stored(u)'
    BY <2>1, <2>2, SetRowType, SetPageType DEF RowStates
  <2> QED
    BY <1>6, <2>3 DEF FetchPage, Move, runs, crawling
<1>7. CASE EndLevel1(a)
  <2>1. SelectDeep(RunOf(a)) \in SUBSET {u \in Urls : Stored(u)}
    <3>1. \A u \in Urls : member[RunOf(a)][u] # "absent" => Stored(u)
      BY <1>7, InHand DEF EndLevel1, RunOf, Placed
    <3> QED
      BY <3>1, SelectionIsOfPages
  <2>2. todo' = [todo EXCEPT ![a] = {[key |-> IF page[u].critical THEN 0 ELSE 1, url |-> u] :
                                      u \in SelectDeep(RunOf(a))}]
    BY <1>7 DEF EndLevel1, Ordered, Type
  <2>3. todo' \in [Analysers -> SUBSET [key: Nat, url: Urls]]
    BY <2>1, <2>2
  <2> QED
    BY <1>0, <1>7, <2>3 DEF EndLevel1, Move, runs, crawling, storage
<1>8. CASE AuditPage(a) \/ StoreResults(a)
  <2>1. deep' \in [Executions -> [Urls -> {"none", "hollow", "stored"}]]
    <3>1. PICK s \in {"hollow", "stored"} : deep' = [deep EXCEPT ![exec[a]][current[a]] = s]
      BY <1>8 DEF AuditPage, StoreResults
    <3> QED
      BY <3>1
  <2> QED
    BY <1>0, <1>8, <2>1 DEF AuditPage, StoreResults, Move, runs, crawling
<1>9. CASE AuditCompletes(a) \/ AuditFails(a)
  <2>1. exec[a] \in Executions /\ current[a] \in Urls /\ Stored(current[a])
    BY <1>9, InHand DEF AuditCompletes, AuditFails, Holding
  <2>2. PICK s \in {"completed", "failed"} : EndAudit(a, s)
    BY <1>9 DEF AuditCompletes, AuditFails
  <2>3. /\ analysis' \in [Executions -> [Levels -> [Urls -> RowStates \cup {"none"}]]]
        /\ page' \in [Urls -> {None} \cup PageRow]
        /\ \A u \in Urls : Stored(u) => Stored(u)'
    <3>1. SetRow(a, current[a], s) /\ SetPage(a, current[a], s, TRUE) /\ s \in RowStates
      BY <2>2 DEF EndAudit, RowStates
    <3> QED
      BY <2>1, <3>1, SetRowType, SetPageType
  <2> QED
    BY <2>2, <2>3 DEF EndAudit, Move, runs, crawling
<1>10. CASE EndLevel2(a)
  BY <1>0, <1>10 DEF EndLevel2, Move, runs, crawling, storage
<1>11. CASE Tally(a)
  BY <1>0, <1>11 DEF Tally, Move, runs, crawling, storage
<1>12. CASE AnalyserDies(a)
  BY <1>0, <1>12, SitePagesAssumption DEF AnalyserDies, Dies, Move, crawling, storage
<1> QED
  BY <1>1, <1>2, <1>3, <1>4, <1>5, <1>6, <1>7, <1>8, <1>9, <1>10, <1>11, <1>12 DEF Analyse

LEMMA PagesTypeNext == PagesTypeOK /\ Placed /\ [PagesNext]_pageVars => PagesTypeOK'
<1> SUFFICES ASSUME PagesTypeOK, Placed, [PagesNext]_pageVars PROVE PagesTypeOK'
  OBVIOUS
<1>1. CASE UNCHANGED pageVars
  BY <1>1 DEF pageVars, runs, crawling, storage, working, PagesTypeOK
<1> QED
  BY <1>1, DiscoverType, StartType, AnalyseType DEF PagesNext

LEMMA StoredStays ==
    ASSUME PagesTypeOK, Placed, [PagesNext]_pageVars
    PROVE  \A u \in Urls : Stored(u) => Stored(u)'
<1>1. UNCHANGED page => \A u \in Urls : Stored(u) => Stored(u)'
  BY DEF Stored
<1>2. ASSUME NEW k \in Crawlers, Persist(k) PROVE \A u \in Urls : Stored(u) => Stored(u)'
  BY <1>2, RunsType, StorePagesType DEF Persist, Placed
<1>3. ASSUME NEW k \in Crawlers, Discover(k), ~Persist(k) PROVE UNCHANGED page
  BY <1>3 DEF Discover, EnterDiscovery, Crawl, CrawlFails, PersistAborts, FinishDiscovery,
              CrawlerDies, storage
<1>4. ASSUME StartDiscovery \/ (\E e \in Executions : StartPageAnalysis(e)) \/ UNCHANGED pageVars
      PROVE  UNCHANGED page
  BY <1>4 DEF StartDiscovery, StartPageAnalysis, pageVars, storage
<1> QED
  BY <1>1, <1>2, <1>3, <1>4, AnalyseType DEF PagesNext

LEMMA PlacedDiscover ==
    ASSUME PagesTypeOK, Placed, NEW k \in Crawlers, Discover(k)
    PROVE  Placed'
<1>0. /\ UNCHANGED <<working, about, created>>
      /\ \A u \in Urls : Stored(u) => Stored(u)'
      /\ \A o \in Crawlers \ {k} : cpc'[o] = cpc[o] /\ run'[o] = run[o] /\ found'[o] = found[o]
  <2>1. UNCHANGED <<working, about, created>>
    BY DEF Discover, EnterDiscovery, Crawl, CrawlFails, Persist, PersistAborts, FinishDiscovery,
           CrawlerDies, Dies, runs
  <2>2. \A u \in Urls : Stored(u) => Stored(u)'
    BY StoredStays DEF PagesNext
  <2>3. \A o \in Crawlers \ {k} : cpc'[o] = cpc[o] /\ run'[o] = run[o] /\ found'[o] = found[o]
    BY DEF Discover, EnterDiscovery, Crawl, CrawlFails, Persist, PersistAborts, FinishDiscovery,
           CrawlerDies, EndTransaction, PagesTypeOK
  <2> QED
    BY <2>1, <2>2, <2>3
<1>1. cpc'[k] # "waiting" => run'[k] \in 1..created
  BY DEF Discover, EnterDiscovery, Crawl, CrawlFails, Persist, PersistAborts, FinishDiscovery,
         CrawlerDies, EndTransaction, PagesTypeOK, Placed
<1>2. cpc'[k] \in {"persist", "finish"} => found'[k] \in Crawls
  BY DEF Discover, EnterDiscovery, Crawl, CrawlFails, Persist, PersistAborts, FinishDiscovery,
         CrawlerDies, EndTransaction, PagesTypeOK, Placed
<1>3. ASSUME NEW r \in Runs, NEW u \in Urls, member'[r][u] # "absent" PROVE Stored(u)'
  <2>1. CASE UNCHANGED member
    BY <1>0, <1>3, <2>1 DEF Placed
  <2>2. CASE Persist(k)
    <3>1. run[k] \in Runs
      BY <2>2, RunsType DEF Persist, Placed
    <3>2. member[r][u] # "absent" \/ u \in FoundBy(k)
      BY <1>3, <2>2, <3>1 DEF Persist, PagesTypeOK
    <3>3. u \in FoundBy(k) => Stored(u)'
      BY <2>2, <3>1, StorePagesType DEF Persist
    <3> QED
      BY <1>0, <3>2, <3>3 DEF Placed
  <2> QED
    BY <2>1, <2>2 DEF Discover, EnterDiscovery, Crawl, CrawlFails, PersistAborts,
                      FinishDiscovery, CrawlerDies, storage
<1>4. /\ \A a \in Analysers : apc'[a] # "waiting" => exec'[a] \in Executions /\ about'[exec'[a]] # None
      /\ \A a \in Analysers : apc'[a] \in Holding => current'[a] \in Urls /\ Stored(current[a])'
      /\ \A a \in Analysers : \A t \in todo'[a] : Stored(t.url)'
  <2>1. UNCHANGED <<apc, exec, about, current, todo>>
    BY <1>0 DEF working
  <2>2. \A a \in Analysers : \A t \in todo[a] : t.url \in Urls
    BY DEF PagesTypeOK
  <2> QED
    BY <1>0, <2>1, <2>2 DEF Placed
<1>5. current' = current
  BY <1>0 DEF working
<1> QED
  BY <1>0, <1>1, <1>2, <1>3, <1>4, <1>5 DEF Placed, Stored

LEMMA PlacedStart ==
    ASSUME PagesTypeOK, Placed, StartDiscovery \/ \E e \in Executions : StartPageAnalysis(e)
    PROVE  Placed'
<1>1. /\ UNCHANGED <<crawling, storage, working>>
      /\ created' >= created /\ created' \in Nat /\ created \in Nat
      /\ \A e \in Executions : about[e] # None => about'[e] # None
  <2>1. CASE StartDiscovery
    BY <2>1, RunsType DEF StartDiscovery
  <2>2. ASSUME NEW e \in Executions, StartPageAnalysis(e)
        PROVE  /\ UNCHANGED <<crawling, storage, working, created>>
               /\ \A f \in Executions : about[f] # None => about'[f] # None
    BY <2>2 DEF StartPageAnalysis, PagesTypeOK
  <2> QED
    BY <2>1, <2>2, RunsType
<1>2. \A n \in 1..created : n \in 1..created'
  BY <1>1
<1> QED
  BY <1>1, <1>2 DEF Placed, Stored, crawling, storage, working

LEMMA PlacedAnalyse ==
    ASSUME PagesTypeOK, Placed, NEW a \in Analysers, Analyse(a)
    PROVE  Placed'
<1>0. /\ UNCHANGED <<crawling, created, about, member>>
      /\ \A u \in Urls : Stored(u) => Stored(u)'
      /\ \A b \in Analysers \ {a} : /\ apc'[b] = apc[b] /\ exec'[b] = exec[b]
                                    /\ current'[b] = current[b] /\ todo'[b] = todo[b]
  <2>1. UNCHANGED <<crawling, created, about, member>>
    BY DEF Analyse, Schedule, SkipPage, TakePage, InsertRow, InsertRefused, FetchPage, EndLevel1,
           AuditPage, StoreResults, AuditCompletes, AuditFails, EndAudit, EndLevel2, Tally,
           AnalyserDies, Dies, runs, storage
  <2>2. \A b \in Analysers \ {a} : apc'[b] = apc[b] /\ exec'[b] = exec[b]
    BY DEF Analyse, Schedule, SkipPage, TakePage, InsertRow, InsertRefused, FetchPage, EndLevel1,
           AuditPage, StoreResults, AuditCompletes, AuditFails, EndAudit, EndLevel2, Tally,
           AnalyserDies, Move, PagesTypeOK
  <2>3. \A b \in Analysers \ {a} : current'[b] = current[b] /\ todo'[b] = todo[b]
    BY DEF Analyse, Schedule, SkipPage, TakePage, InsertRow, InsertRefused, FetchPage, EndLevel1,
           AuditPage, StoreResults, AuditCompletes, AuditFails, EndAudit, EndLevel2, Tally,
           AnalyserDies, PagesTypeOK
  <2> QED
    BY <2>1, <2>2, <2>3, AnalyseType
<1>1. apc'[a] # "waiting" => exec'[a] \in Executions /\ about[exec'[a]] # None
  <2>1. CASE Schedule(a)
    BY <2>1 DEF Schedule, PagesTypeOK
  <2>2. ASSUME ~Schedule(a) PROVE apc[a] # "waiting" /\ exec' = exec
    BY <2>2 DEF Analyse, SkipPage, TakePage, InsertRow, InsertRefused, FetchPage, EndLevel1,
           AuditPage, StoreResults, AuditCompletes, AuditFails, EndAudit, EndLevel2, Tally,
           AnalyserDies
  <2> QED
    BY <2>1, <2>2 DEF Placed
<1>2. apc'[a] \in Holding => current'[a] \in Urls /\ page'[current'[a]] # None
  <2>1. CASE TakePage(a)
    <3>1. First(todo[a]) \in Urls /\ Stored(First(todo[a])) /\ current'[a] = First(todo[a])
      BY <2>1, InHand DEF TakePage, PagesTypeOK
    <3> QED
      BY <1>0, <3>1 DEF Stored
  <2>2. CASE InsertRow(a) \/ AuditPage(a) \/ StoreResults(a)
    <3>1. apc[a] \in Holding /\ current'[a] = current[a]
      BY <2>2 DEF InsertRow, AuditPage, StoreResults, Holding
    <3> QED
      BY <1>0, <3>1 DEF Placed, Stored
  <2>3. CASE SkipPage(a)
    BY <2>3 DEF SkipPage, Holding
  <2>4. ASSUME \/ Schedule(a) \/ InsertRefused(a) \/ FetchPage(a) \/ EndLevel1(a)
               \/ AuditCompletes(a) \/ AuditFails(a) \/ EndLevel2(a) \/ Tally(a) \/ AnalyserDies(a)
        PROVE  apc'[a] \notin Holding
    <3>1. \E p \in {"level1", "level2", "raised", "tally", "done", "dead"} : Move(a, p)
      BY <2>4 DEF Schedule, InsertRefused, FetchPage, EndLevel1, AuditCompletes, AuditFails, EndAudit,
                  EndLevel2, Tally, AnalyserDies
    <3> QED
      BY <3>1 DEF Move, Holding, PagesTypeOK
  <2> QED
    BY <2>1, <2>2, <2>3, <2>4 DEF Analyse
<1>3. \A t \in todo'[a] : t.url \in Urls /\ Stored(t.url)
  <2>1. CASE Schedule(a)
    <3>1. PICK e \in Executions :
             /\ about[e] # None
             /\ scheduled' = [scheduled EXCEPT ![a] = SelectScheduled(EligiblePages(about[e]))]
      BY <2>1 DEF Schedule
    <3>2. \A u \in Urls : member[about[e]][u] # "absent" => Stored(u)
      BY <3>1 DEF Placed, PagesTypeOK
    <3>3. EligiblePages(about[e]) \in SUBSET {u \in Urls : Stored(u)}
      BY <3>2, SelectionIsOfPages
    <3>4. scheduled'[a] \in SUBSET {u \in Urls : Stored(u)}
      BY <3>1, <3>2, <3>3, SelectionIsOfPages DEF PagesTypeOK
    <3>5. todo'[a] = Ordered(scheduled'[a], Depth)
      BY <2>1 DEF Schedule, PagesTypeOK
    <3> QED
      BY <3>4, <3>5 DEF Ordered
  <2>2. CASE EndLevel1(a)
    <3>1. \A u \in Urls : member[RunOf(a)][u] # "absent" => Stored(u)
      BY <2>2, InHand DEF EndLevel1, RunOf, Placed
    <3>2. SelectDeep(RunOf(a)) \in SUBSET {u \in Urls : Stored(u)}
      BY <3>1, SelectionIsOfPages
    <3>3. todo'[a] = Ordered(SelectDeep(RunOf(a)), Type)
      BY <2>2 DEF EndLevel1, PagesTypeOK
    <3> QED
      BY <3>2, <3>3 DEF Ordered
  <2>3. ASSUME ~Schedule(a), ~EndLevel1(a) PROVE todo'[a] \subseteq todo[a]
    <3>1. CASE SkipPage(a) \/ TakePage(a)
      <4>1. todo'[a] = Without(todo[a], First(todo[a]))
        BY <3>1 DEF SkipPage, TakePage, PagesTypeOK
      <4> QED
        BY <4>1 DEF Without
    <3>2. CASE EndLevel2(a) \/ AnalyserDies(a)
      BY <3>2 DEF EndLevel2, AnalyserDies, PagesTypeOK
    <3>3. ASSUME ~SkipPage(a), ~TakePage(a), ~EndLevel2(a), ~AnalyserDies(a)
          PROVE  UNCHANGED todo
      BY <2>3, <3>3 DEF Analyse, InsertRow, InsertRefused, FetchPage, AuditPage, StoreResults,
                        AuditCompletes, AuditFails, EndAudit, Tally
    <3> QED
      BY <3>1, <3>2, <3>3
  <2>4. \A t \in todo[a] : t.url \in Urls /\ Stored(t.url)
    BY DEF PagesTypeOK, Placed
  <2> QED
    BY <2>1, <2>2, <2>3, <2>4
<1>4. \A b \in Analysers : \A t \in todo'[b] : page'[t.url] # None
  <2>1. \A b \in Analysers \ {a} : \A t \in todo[b] : t.url \in Urls /\ Stored(t.url)
    BY DEF PagesTypeOK, Placed
  <2> QED
    BY <1>0, <1>3, <2>1 DEF Stored
<1>5. \A b \in Analysers : apc'[b] \in Holding => current'[b] \in Urls /\ page'[current'[b]] # None
  BY <1>0, <1>2 DEF Placed, Stored
<1>6. \A b \in Analysers : apc'[b] # "waiting" => exec'[b] \in Executions /\ about'[exec'[b]] # None
  BY <1>0, <1>1 DEF Placed
<1>7. /\ \A k \in Crawlers : cpc'[k] # "waiting" => run'[k] \in 1..created'
      /\ \A k \in Crawlers : cpc'[k] \in {"persist", "finish"} => found'[k] \in Crawls
      /\ \A r \in Runs, u \in Urls : member'[r][u] # "absent" => page'[u] # None
  BY <1>0 DEF Placed, crawling, Stored
<1> QED
  BY <1>4, <1>5, <1>6, <1>7 DEF Placed, Stored

LEMMA PlacedNext == PagesTypeOK /\ Placed /\ [PagesNext]_pageVars => Placed'
<1> SUFFICES ASSUME PagesTypeOK, Placed, [PagesNext]_pageVars PROVE Placed'
  OBVIOUS
<1>1. CASE UNCHANGED pageVars
  BY <1>1 DEF pageVars, runs, crawling, storage, working, Placed, Stored
<1> QED
  BY <1>1, PlacedDiscover, PlacedStart, PlacedAnalyse DEF PagesNext

LEMMA PlacesHold == PagesSpec => [](PagesTypeOK /\ Placed)
<1>1. PagesInit => PagesTypeOK /\ Placed
  BY PagesTypeInit
<1>2. PagesTypeOK /\ Placed /\ [PagesNext]_pageVars => (PagesTypeOK /\ Placed)'
  BY PagesTypeNext, PlacedNext
<1> QED
  BY <1>1, <1>2, PTL DEF PagesSpec

\* Every variable keeps its type, however the calls of the two tasks overlap.
THEOREM PagesTypeCorrect == PagesSpec => []PagesTypeOK
BY PlacesHold, PTL

-----------------------------------------------------------------------------
(* The pages of a discovery run.                                            *)

\* Any two crawls of the website share a page: the start page, unless one of them merged
\* it into another.
CrawlsMeet == \A c, d \in Crawls : \E u \in Urls : c[u] # None /\ d[u] # None

\* The memberships of a run are those one call committed; a transaction that has
\* deleted some has deleted all there are, and is the only one.
MembersOfOne ==
    /\ \A r \in Runs :
          Members(r) # {} => \E k \in Crawlers : /\ run[k] = r /\ cpc[k] \in {"finish", "done"}
                                                 /\ found[k] \in Crawls
                                                 /\ member[r] = MembershipOf(k)
    /\ \A k \in Crawlers : cpc[k] = "persist" => dropped[k] \in {{}, Members(run[k])}
    /\ \A k, o \in Crawlers :
          /\ cpc[k] = "persist" /\ cpc[o] = "persist"
          /\ run[k] = run[o] /\ dropped[k] # {} /\ dropped[o] # {}
          => k = o
    /\ \A k \in Crawlers : cpc[k] = "finish" => Members(run[k]) # {}
    /\ \A r \in Runs : discovery[r] \in {"completed", "partial"} => Members(r) # {}

\* A transaction that ends without a conflict has replaced the memberships of its run:
\* it shares a page with whatever was there, which is no conflict only if it deleted
\* that page, and so all of them.
LEMMA PersistReplaces ==
    ASSUME CrawlsMeet, PagesTypeOK, Placed, MembersOfOne, NEW k \in Crawlers, Persist(k)
    PROVE  /\ run[k] \in Runs
           /\ member' = [member EXCEPT ![run[k]] = MembershipOf(k)]
           /\ \E u \in Urls : MembershipOf(k)[u] # "absent"
           /\ \A o \in Crawlers \ {k} :
                 cpc[o] = "persist" /\ run[o] = run[k] => dropped[o] = {}
<1> DEFINE r == run[k]
<1>1. r \in Runs /\ found[k] \in Crawls /\ cpc[k] = "persist"
  BY RunsType DEF Persist, Placed
<1>2. dropped[k] = Members(r)
  <2>1. dropped[k] \in {{}, Members(r)}
    BY <1>1 DEF MembersOfOne
  <2>2. ASSUME Members(r) # {} PROVE dropped[k] # {}
    <3>1. PICK o \in Crawlers : found[o] \in Crawls /\ member[r] = MembershipOf(o)
      BY <1>1, <2>2 DEF MembersOfOne
    <3>2. PICK u \in Urls : found[o][u] # None /\ found[k][u] # None
      BY <1>1, <3>1 DEF CrawlsMeet
    <3>3. member[r][u] # "absent" /\ u \in FoundBy(k)
      BY <3>1, <3>2 DEF MembershipOf, Eligibility, FoundBy
    <3>4. u \in dropped[k]
      BY <3>3 DEF Persist, PageConflict
    <3> QED
      BY <3>4
  <2> QED
    BY <2>1, <2>2
<1>3. [u \in Urls |-> IF u \in FoundBy(k) THEN Eligibility(found[k][u])
                      ELSE IF u \in dropped[k] THEN "absent" ELSE member[r][u]]
      = MembershipOf(k)
  BY <1>2 DEF FoundBy, Eligibility, Members, MembershipOf
<1>4. member' = [member EXCEPT ![r] = MembershipOf(k)]
  <2>1. member' = [member EXCEPT ![r] = [u \in Urls |->
                     IF u \in FoundBy(k) THEN Eligibility(found[k][u])
                     ELSE IF u \in dropped[k] THEN "absent" ELSE member[r][u]]]
    BY <1>1 DEF Persist, PagesTypeOK
  <2> QED
    BY <1>3, <2>1
<1>5. \E u \in Urls : MembershipOf(k)[u] # "absent"
  <2>1. PICK u \in Urls : found[k][u] # None
    BY <1>1 DEF CrawlsMeet
  <2> QED
    BY <2>1 DEF MembershipOf, Eligibility
<1>6. ASSUME NEW o \in Crawlers \ {k}, cpc[o] = "persist", run[o] = r PROVE dropped[o] = {}
  <2>1. dropped[o] \in {{}, Members(r)} /\ (dropped[k] # {} => dropped[o] = {})
    BY <1>1, <1>6 DEF MembersOfOne
  <2> QED
    BY <1>2, <2>1
<1> QED
  BY <1>1, <1>4, <1>5, <1>6

LEMMA MembersPersist ==
    ASSUME CrawlsMeet, PagesTypeOK, Placed, MembersOfOne, NEW k \in Crawlers, Persist(k)
    PROVE  MembersOfOne'
<1> DEFINE r == run[k]
<1>0. /\ cpc[k] = "persist" /\ cpc' = [cpc EXCEPT ![k] = "finish"] /\ dropped'[k] = {}
      /\ \A o \in Crawlers \ {k} : dropped'[o] = dropped[o]
      /\ UNCHANGED <<run, found, discovery>>
  BY DEF Persist, EndTransaction, runs, PagesTypeOK
<1>1. /\ r \in Runs /\ member' = [member EXCEPT ![r] = MembershipOf(k)]
      /\ \E u \in Urls : MembershipOf(k)[u] # "absent"
      /\ \A o \in Crawlers \ {k} : cpc[o] = "persist" /\ run[o] = r => dropped[o] = {}
  BY PersistReplaces
<1> DEFINE now(s) == {u \in Urls : member'[s][u] # "absent"}
<1>2. \A s \in Runs : member'[s] = IF s = r THEN MembershipOf(k) ELSE member[s]
  BY <1>1 DEF PagesTypeOK
<1>3. now(r) # {} /\ \A s \in Runs \ {r} : now(s) = Members(s)
  BY <1>1, <1>2 DEF Members
<1>4. \A s \in Runs : Members(s)' = now(s)
  BY DEF Members
<1>5. found[k] \in Crawls /\ MembershipOf(k)' = MembershipOf(k)
  BY <1>0 DEF Placed, MembershipOf
<1> HIDE DEF now
<1>6. ASSUME NEW s \in Runs, now(s) # {}
      PROVE  \E o \in Crawlers : /\ run[o] = s /\ cpc'[o] \in {"finish", "done"}
                                 /\ found[o] \in Crawls
                                 /\ member'[s] = MembershipOf(o)
  <2>1. CASE s = r
    BY <1>0, <1>2, <1>5, <2>1 DEF PagesTypeOK
  <2>2. CASE s # r
    <3>1. PICK o \in Crawlers : /\ run[o] = s /\ cpc[o] \in {"finish", "done"}
                                /\ found[o] \in Crawls /\ member[s] = MembershipOf(o)
      BY <1>3, <1>6, <2>2 DEF MembersOfOne
    <3> QED
      BY <1>0, <1>2, <2>2, <3>1 DEF PagesTypeOK
  <2> QED
    BY <2>1, <2>2
<1>7. ASSUME NEW o \in Crawlers, cpc'[o] = "persist"
      PROVE  /\ o # k /\ cpc[o] = "persist" /\ dropped'[o] = dropped[o]
             /\ dropped'[o] \in {{}, now(run[o])}
  <2>1. o # k /\ cpc[o] = "persist" /\ run[o] \in Runs
    BY <1>0, <1>7, RunsType DEF PagesTypeOK, Placed
  <2> QED
    BY <1>0, <1>1, <1>3, <2>1 DEF MembersOfOne
<1>8. ASSUME NEW o \in Crawlers, cpc'[o] = "finish" PROVE now(run[o]) # {}
  <2>1. o = k \/ (cpc[o] = "finish" /\ run[o] \in Runs)
    BY <1>0, <1>8, RunsType DEF PagesTypeOK, Placed
  <2> QED
    BY <1>3, <2>1 DEF MembersOfOne
<1>9. \A s \in Runs : discovery[s] \in {"completed", "partial"} => now(s) # {}
  BY <1>3 DEF MembersOfOne
<1>10. \A o \in Crawlers : MembershipOf(o)' = MembershipOf(o)
  BY <1>0 DEF MembershipOf
<1>11. \A s \in Runs : Members(s)' # {} =>
          \E o \in Crawlers : /\ run'[o] = s /\ cpc'[o] \in {"finish", "done"}
                              /\ found'[o] \in Crawls /\ member'[s] = MembershipOf(o)'
  BY <1>0, <1>4, <1>6, <1>10
<1>12. \A o \in Crawlers : cpc'[o] = "persist" => dropped'[o] \in {{}, Members(run[o])'}
  <2>1. \A o \in Crawlers : cpc'[o] = "persist" => run[o] \in Runs
    BY <1>7, RunsType DEF Placed
  <2> QED
    BY <1>0, <1>4, <1>7, <2>1
<1>13. \A o \in Crawlers : cpc'[o] = "finish" => Members(run[o])' # {}
  <2>1. \A o \in Crawlers : cpc'[o] = "finish" => run[o] \in Runs
    BY <1>0, <1>1, RunsType DEF Placed, PagesTypeOK
  <2> QED
    BY <1>0, <1>4, <1>8, <2>1
<1>14. \A o, q \in Crawlers :
          /\ cpc'[q] = "persist" /\ cpc'[o] = "persist"
          /\ run'[q] = run'[o] /\ dropped'[q] # {} /\ dropped'[o] # {}
          => q = o
  BY <1>0, <1>7 DEF MembersOfOne
<1>15. \A s \in Runs : discovery'[s] \in {"completed", "partial"} => Members(s)' # {}
  BY <1>0, <1>4, <1>9
<1> QED
  BY <1>0, <1>11, <1>12, <1>13, <1>14, <1>15 DEF MembersOfOne

LEMMA MembersDiscover ==
    ASSUME PagesTypeOK, Placed, MembersOfOne, NEW k \in Crawlers, Discover(k), ~Persist(k)
    PROVE  MembersOfOne'
<1>0. /\ UNCHANGED member
      /\ \A o \in Crawlers \ {k} : /\ cpc'[o] = cpc[o] /\ run'[o] = run[o]
                                   /\ found'[o] = found[o] /\ dropped'[o] = dropped[o]
      /\ cpc'[k] \in {"finish", "done"} \/ ~(cpc[k] \in {"finish", "done"})
  BY DEF Discover, EnterDiscovery, Crawl, CrawlFails, PersistAborts, FinishDiscovery,
         CrawlerDies, EndTransaction, storage, PagesTypeOK
<1>1. \A s : Members(s)' = Members(s)
  BY <1>0 DEF Members
<1>2. \A s \in Runs : Members(s) # {} =>
          \E o \in Crawlers : /\ run'[o] = s /\ cpc'[o] \in {"finish", "done"}
                              /\ found'[o] \in Crawls /\ member'[s] = MembershipOf(o)'
  <2> SUFFICES ASSUME NEW s \in Runs, Members(s) # {}
               PROVE  \E o \in Crawlers : /\ run'[o] = s /\ cpc'[o] \in {"finish", "done"}
                              /\ found'[o] \in Crawls /\ member'[s] = MembershipOf(o)'
    OBVIOUS
  <2>1. PICK o \in Crawlers : /\ run[o] = s /\ cpc[o] \in {"finish", "done"}
                              /\ found[o] \in Crawls /\ member[s] = MembershipOf(o)
    BY DEF MembersOfOne
  <2>2. o = k => cpc'[o] \in {"finish", "done"} /\ run'[o] = run[o] /\ found'[o] = found[o]
    BY <2>1 DEF Discover, EnterDiscovery, Crawl, CrawlFails, PersistAborts, FinishDiscovery,
                CrawlerDies, EndTransaction, PagesTypeOK
  <2>3. cpc'[o] \in {"finish", "done"} /\ run'[o] = run[o] /\ found'[o] = found[o]
    BY <1>0, <2>1, <2>2
  <2>4. MembershipOf(o)' = MembershipOf(o)
    BY <2>3 DEF MembershipOf
  <2> QED
    BY <1>0, <2>1, <2>3, <2>4
<1>3. cpc'[k] = "persist" => Crawl(k)
  BY DEF Discover, EnterDiscovery, Crawl, CrawlFails, PersistAborts, FinishDiscovery,
         CrawlerDies, EndTransaction, PagesTypeOK
<1>4. ASSUME Crawl(k)
      PROVE  /\ run' = run /\ dropped'[k] \in {{}, Members(run[k])}
             /\ \A o \in Crawlers \ {k} :
                   cpc[o] = "persist" /\ run[o] = run[k] => dropped[o] = {}
  BY <1>4 DEF Crawl, Deleting, PagesTypeOK
<1>5. \A o \in Crawlers : cpc'[o] = "persist" => dropped'[o] \in {{}, Members(run'[o])}
  BY <1>0, <1>3, <1>4 DEF MembersOfOne
<1>6. \A o, q \in Crawlers :
          /\ cpc'[q] = "persist" /\ cpc'[o] = "persist"
          /\ run'[q] = run'[o] /\ dropped'[q] # {} /\ dropped'[o] # {}
          => q = o
  BY <1>0, <1>3, <1>4 DEF MembersOfOne
<1>7. cpc'[k] # "finish"
  BY DEF Discover, EnterDiscovery, Crawl, CrawlFails, PersistAborts, FinishDiscovery,
         CrawlerDies, EndTransaction, PagesTypeOK
<1>8. \A o \in Crawlers : cpc'[o] = "finish" => Members(run'[o]) # {}
  BY <1>0, <1>7 DEF MembersOfOne
<1>9. \A s \in Runs : discovery'[s] \in {"completed", "partial"} => Members(s) # {}
  <2>1. CASE FinishDiscovery(k)
    <3>1. \A s \in Runs : discovery'[s] # discovery[s] => s = run[k]
      BY <2>1 DEF FinishDiscovery, PagesTypeOK
    <3>2. Members(run[k]) # {}
      BY <2>1 DEF FinishDiscovery, MembersOfOne
    <3> QED
      BY <3>1, <3>2 DEF MembersOfOne
  <2>2. ASSUME ~FinishDiscovery(k)
        PROVE  \A s \in Runs : discovery'[s] \in {discovery[s], "running", "failed"}
    BY <2>2 DEF Discover, EnterDiscovery, Crawl, CrawlFails, PersistAborts,
                CrawlerDies, Dies, runs, PagesTypeOK
  <2> QED
    BY <2>1, <2>2 DEF MembersOfOne
<1>10. \A o \in Crawlers : Members(run[o])' = Members(run'[o])
  BY <1>0 DEF Members
<1> QED
  BY <1>1, <1>2, <1>5, <1>6, <1>8, <1>9, <1>10 DEF MembersOfOne

LEMMA MembersNext ==
    ASSUME CrawlsMeet
    PROVE  PagesTypeOK /\ Placed /\ MembersOfOne /\ [PagesNext]_pageVars => MembersOfOne'
<1> SUFFICES ASSUME PagesTypeOK, Placed, MembersOfOne, [PagesNext]_pageVars PROVE MembersOfOne'
  OBVIOUS
<1>1. ASSUME UNCHANGED <<crawling, member>>,
             \A s \in Runs : discovery'[s] \in {"completed", "partial"}
                                => discovery[s] \in {"completed", "partial"}
      PROVE  MembersOfOne'
  BY <1>1 DEF MembersOfOne, Members, MembershipOf, crawling
<1>2. CASE UNCHANGED pageVars
  BY <1>1, <1>2 DEF pageVars, runs, storage
<1>3. CASE StartDiscovery
  BY <1>1, <1>3 DEF StartDiscovery, storage, PagesTypeOK
<1>4. ASSUME NEW e \in Executions, StartPageAnalysis(e) PROVE MembersOfOne'
  BY <1>1, <1>4 DEF StartPageAnalysis, storage
<1>5. ASSUME NEW a \in Analysers, Analyse(a) PROVE MembersOfOne'
  <2>1. UNCHANGED <<crawling, member, discovery>>
    BY <1>5 DEF Analyse, Schedule, SkipPage, TakePage, InsertRow, InsertRefused, FetchPage,
           EndLevel1, AuditPage, StoreResults, AuditCompletes, AuditFails, EndAudit, EndLevel2,
           Tally, AnalyserDies, Dies, runs, storage
  <2> QED
    BY <1>1, <2>1
<1> QED
  BY <1>2, <1>3, <1>4, <1>5, MembersPersist, MembersDiscover DEF PagesNext

\* A discovery run that ended has the pages one of its crawls found, all of them and no
\* others, however many calls persist pages of the website at once: as long as any two
\* crawls share a page, for which their transactions conflict.
THEOREM MembershipIsWhole ==
    ASSUME CrawlsMeet
    PROVE  PagesSpec => []MembershipWhole
<1>1. PagesInit => MembersOfOne
  BY DEF PagesInit, MembersOfOne, Members
<1>2. PagesTypeOK /\ Placed /\ MembersOfOne /\ [PagesNext]_pageVars => MembersOfOne'
  BY MembersNext
<1>3. Placed /\ MembersOfOne => MembershipWhole
  BY DEF Placed, MembersOfOne, MembershipWhole
<1> QED
  BY <1>1, <1>2, <1>3, PlacesHold, PTL DEF PagesSpec

-----------------------------------------------------------------------------
(* What an execution of the page analysis did.                              *)

\* A row is running while a call works on it, which is the only one.
RowsOwned ==
    /\ \A a \in Analysers : apc[a] \in Owning => RowOf(a, current[a]) = "running"
    /\ \A a, b \in Analysers :
          /\ apc[a] \in Owning /\ apc[b] \in Owning /\ exec[a] = exec[b]
          /\ Level(a) = Level(b) /\ current[a] = current[b]
          => a = b
    /\ \A a \in Analysers : apc[a] = "audited" => deep[exec[a]][current[a]] = "stored"
    /\ \A a \in Analysers : answer[a] # None => apc[a] = "done"

\* A call writes the row of the page it has in hand and no other: it inserts it where
\* there is none, or it owns it.
LEMMA RowWritten ==
    ASSUME PagesTypeOK, Placed, RowsOwned, NEW a \in Analysers, Analyse(a)
    PROVE  \A e \in Executions, n \in Levels, u \in Urls :
              \/ analysis'[e][n][u] = analysis[e][n][u]
              \/ /\ e = exec[a] /\ n = Level(a) /\ u = current[a]
                 /\ \/ /\ InsertRow(a) /\ analysis[e][n][u] = "none"
                       /\ analysis'[e][n][u] = "running"
                    \/ /\ FetchPage(a) \/ AuditCompletes(a) \/ AuditFails(a)
                       /\ apc[a] \in Owning /\ apc'[a] \notin Owning
                       /\ analysis[e][n][u] = "running"
                       /\ analysis'[e][n][u] = "completed" /\ n = 2 => AuditCompletes(a)
<1>1. CASE InsertRow(a)
  <2>1. exec[a] \in Executions /\ current[a] \in Urls
    BY <1>1, InHand DEF InsertRow, Holding
  <2>2. \A e \in Executions, n \in Levels, v \in Urls :
           analysis'[e][n][v] = IF e = exec[a] /\ n = Level(a) /\ v = current[a]
                                THEN "running" ELSE analysis[e][n][v]
    BY <1>1, <2>1, SetRowType DEF InsertRow, RowStates
  <2>3. analysis[exec[a]][Level(a)][current[a]] = "none"
    BY <1>1 DEF InsertRow, RowOf
  <2> QED
    BY <1>1, <2>2, <2>3
<1>2. CASE FetchPage(a) \/ AuditCompletes(a) \/ AuditFails(a)
  <2>1. apc[a] \in Owning /\ apc'[a] \notin Owning /\ (FetchPage(a) => Level(a) = 1)
    BY <1>2 DEF FetchPage, AuditCompletes, AuditFails, EndAudit, Move, Owning, Level, PagesTypeOK
  <2>2. exec[a] \in Executions /\ current[a] \in Urls
    BY <2>1, InHand DEF Owning, Holding
  <2>3. PICK s \in RowStates :
           SetRow(a, current[a], s) /\ (s = "completed" => FetchPage(a) \/ AuditCompletes(a))
    BY <1>2 DEF FetchPage, AuditCompletes, AuditFails, EndAudit, RowStates
  <2>4. \A e \in Executions, n \in Levels, v \in Urls :
           analysis'[e][n][v] = IF e = exec[a] /\ n = Level(a) /\ v = current[a]
                                THEN s ELSE analysis[e][n][v]
    BY <2>2, <2>3, SetRowType
  <2>5. analysis[exec[a]][Level(a)][current[a]] = "running"
    BY <2>1 DEF RowsOwned, RowOf
  <2> QED
    BY <1>2, <2>1, <2>3, <2>4, <2>5
<1>3. ASSUME ~InsertRow(a), ~FetchPage(a), ~AuditCompletes(a), ~AuditFails(a)
      PROVE  UNCHANGED analysis
  BY <1>3 DEF Analyse, Schedule, SkipPage, TakePage, InsertRefused, EndLevel1, AuditPage,
              StoreResults, EndLevel2, Tally, AnalyserDies, storage
<1> QED
  BY <1>1, <1>2, <1>3

\* The analysis run of a page is written by the call that owns its row.
LEMMA DeepWritten ==
    ASSUME PagesTypeOK, Placed, NEW a \in Analysers, Analyse(a)
    PROVE  \A e \in Executions, u \in Urls :
              \/ deep'[e][u] = deep[e][u]
              \/ /\ e = exec[a] /\ u = current[a] /\ Level(a) = 2
                 /\ apc[a] \in Owning /\ apc[a] # "audited"
                 /\ apc'[a] = "audited" => deep'[e][u] = "stored"
<1>1. CASE AuditPage(a) \/ StoreResults(a)
  <2>1. PICK s \in {"hollow", "stored"} :
           /\ deep' = [deep EXCEPT ![exec[a]][current[a]] = s]
           /\ apc'[a] = "audited" => s = "stored"
    BY <1>1 DEF AuditPage, StoreResults, Move, PagesTypeOK
  <2>2. apc[a] \in Owning /\ apc[a] # "audited" /\ Level(a) = 2
    BY <1>1 DEF AuditPage, StoreResults, Owning, Level
  <2> QED
    BY <2>1, <2>2 DEF PagesTypeOK
<1>2. ASSUME ~AuditPage(a), ~StoreResults(a) PROVE UNCHANGED deep
  BY <1>2 DEF Analyse, Schedule, SkipPage, TakePage, InsertRow, InsertRefused, FetchPage,
              EndLevel1, AuditCompletes, AuditFails, EndAudit, EndLevel2, Tally, AnalyserDies,
              storage
<1> QED
  BY <1>1, <1>2

\* How a call comes to own a row, keeps it and answers.
LEMMA CallMoves ==
    ASSUME PagesTypeOK, Placed, RowsOwned, NEW a \in Analysers, Analyse(a)
    PROVE  /\ \A b \in Analysers \ {a} :
                 /\ apc'[b] = apc[b] /\ exec'[b] = exec[b] /\ current'[b] = current[b]
                 /\ scheduled'[b] = scheduled[b] /\ answer'[b] = answer[b]
           /\ apc'[a] \in Owning => /\ exec'[a] = exec[a] /\ current'[a] = current[a]
                                    /\ Level(a)' = Level(a)
                                    /\ InsertRow(a) \/ apc[a] \in Owning
           /\ apc'[a] = "audited" => StoreResults(a)
           /\ answer'[a] # None => /\ apc'[a] = "done"
                                   /\ exec'[a] = exec[a] /\ scheduled'[a] = scheduled[a]
                                   /\ answer'[a] = answer[a] \/ Tally(a)
<1>1. \A b \in Analysers \ {a} :
         /\ apc'[b] = apc[b] /\ exec'[b] = exec[b] /\ current'[b] = current[b]
         /\ scheduled'[b] = scheduled[b] /\ answer'[b] = answer[b]
  <2>1. \A b \in Analysers \ {a} : apc'[b] = apc[b] /\ exec'[b] = exec[b]
    BY DEF Analyse, Schedule, SkipPage, TakePage, InsertRow, InsertRefused, FetchPage, EndLevel1,
           AuditPage, StoreResults, AuditCompletes, AuditFails, EndAudit, EndLevel2, Tally,
           AnalyserDies, Move, PagesTypeOK
  <2>2. \A b \in Analysers \ {a} : current'[b] = current[b] /\ scheduled'[b] = scheduled[b]
    BY DEF Analyse, Schedule, SkipPage, TakePage, InsertRow, InsertRefused, FetchPage, EndLevel1,
           AuditPage, StoreResults, AuditCompletes, AuditFails, EndAudit, EndLevel2, Tally,
           AnalyserDies, PagesTypeOK
  <2>3. \A b \in Analysers \ {a} : answer'[b] = answer[b]
    BY DEF Analyse, Schedule, SkipPage, TakePage, InsertRow, InsertRefused, FetchPage, EndLevel1,
           AuditPage, StoreResults, AuditCompletes, AuditFails, EndAudit, EndLevel2, Tally,
           AnalyserDies, PagesTypeOK
  <2> QED
    BY <2>1, <2>2, <2>3
<1>2. ASSUME apc'[a] \in Owning
      PROVE  /\ exec'[a] = exec[a] /\ current'[a] = current[a] /\ Level(a)' = Level(a)
             /\ InsertRow(a) \/ apc[a] \in Owning
             /\ apc'[a] = "audited" => StoreResults(a)
  <2>1. InsertRow(a) \/ AuditPage(a) \/ StoreResults(a)
    BY <1>2, ZenonT(60) DEF Analyse, Schedule, SkipPage, TakePage, InsertRefused, FetchPage, EndLevel1,
           AuditCompletes, AuditFails, EndAudit, EndLevel2, Tally, AnalyserDies, Move, Owning,
           PagesTypeOK
  <2> QED
    BY <1>2, <2>1 DEF InsertRow, AuditPage, StoreResults, Move, Owning, Level, PagesTypeOK
<1>3. ASSUME answer'[a] # None
      PROVE  /\ apc'[a] = "done" /\ exec'[a] = exec[a] /\ scheduled'[a] = scheduled[a]
             /\ answer'[a] = answer[a] \/ Tally(a)
  <2>1. CASE Tally(a)
    BY <2>1 DEF Tally, Move, PagesTypeOK
  <2>2. ASSUME ~Tally(a) PROVE answer' = answer /\ apc[a] # "done"
    BY <2>2 DEF Analyse, Schedule, SkipPage, TakePage, InsertRow, InsertRefused, FetchPage,
           EndLevel1, AuditPage, StoreResults, AuditCompletes, AuditFails, EndAudit, EndLevel2,
           AnalyserDies
  <2> QED
    BY <1>3, <2>1, <2>2 DEF RowsOwned
<1> QED
  BY <1>1, <1>2, <1>3 DEF Owning

LEMMA OwnedAnalyse ==
    ASSUME PagesTypeOK, Placed, RowsOwned, NEW a \in Analysers, Analyse(a)
    PROVE  RowsOwned'
<1> USE CallMoves
<1>1. \A b \in Analysers \ {a} : Level(b)' = Level(b) /\ Level(b) \in Levels
  BY DEF Level, Levels
<1>2. ASSUME NEW b \in Analysers, apc'[b] \in Owning
      PROVE  /\ exec'[b] = exec[b] /\ current'[b] = current[b] /\ Level(b)' = Level(b)
             /\ exec[b] \in Executions /\ current[b] \in Urls /\ Level(b) \in Levels
  <2>1. apc[b] \in Holding
    BY <1>2 DEF Owning, Holding, InsertRow
  <2> QED
    BY <1>1, <1>2, <2>1, InHand DEF Holding, Level, Levels
<1>3. ASSUME NEW b \in Analysers, apc'[b] \in Owning
      PROVE  analysis'[exec[b]][Level(b)][current[b]] = "running"
  <2>1. CASE b = a
    <3>1. CASE InsertRow(a)
      <4>1. analysis'[exec[a]][Level(a)][current[a]] = "running"
        BY <1>2, <1>3, <2>1, <3>1, SetRowType DEF InsertRow, RowStates
      <4> QED
        BY <2>1, <4>1
    <3>2. CASE ~InsertRow(a)
      <4>1. analysis[exec[a]][Level(a)][current[a]] = "running"
        BY <1>3, <2>1, <3>2 DEF RowsOwned, RowOf
      <4> QED
        BY <1>2, <1>3, <2>1, <3>2, <4>1, RowWritten
    <3> QED
      BY <3>1, <3>2
  <2>2. CASE b # a
    <3>1. apc[b] \in Owning /\ analysis[exec[b]][Level(b)][current[b]] = "running"
      BY <1>3, <2>2 DEF RowsOwned, RowOf
    <3>2. ~(apc[a] \in Owning /\ exec[a] = exec[b] /\ Level(a) = Level(b) /\ current[a] = current[b])
      BY <2>2, <3>1 DEF RowsOwned
    <3> QED
      BY <1>2, <1>3, <3>1, <3>2, RowWritten
  <2> QED
    BY <2>1, <2>2
<1>4. ASSUME NEW b \in Analysers, NEW c \in Analysers, apc'[b] \in Owning, apc'[c] \in Owning,
             exec[b] = exec[c], Level(b) = Level(c), current[b] = current[c]
      PROVE  b = c
  <2>1. \A d \in Analysers : apc[d] \in Owning => RowOf(d, current[d]) = "running"
    BY DEF RowsOwned
  <2>2. InsertRow(a) => RowOf(a, current[a]) = "none"
    BY DEF InsertRow
  <2>3. \A d \in {b, c} : apc[d] \in Owning \/ (d = a /\ InsertRow(a))
    BY <1>4
  <2> QED
    BY <1>4, <2>1, <2>2, <2>3 DEF RowsOwned, RowOf
<1>5. ASSUME NEW b \in Analysers, apc'[b] = "audited" PROVE deep'[exec[b]][current[b]] = "stored"
  <2>1. exec[b] \in Executions /\ current[b] \in Urls
    BY <1>2, <1>5 DEF Owning
  <2>2. CASE b = a
    <3>1. StoreResults(a)
      BY <1>5, <2>2
    <3> QED
      BY <2>1, <2>2, <3>1 DEF StoreResults, PagesTypeOK
  <2>3. CASE b # a
    <3>1. apc[b] = "audited" /\ deep[exec[b]][current[b]] = "stored" /\ Level(b) = 2
      BY <1>5, <2>3 DEF RowsOwned, Level
    <3>2. ~(apc[a] \in Owning /\ exec[a] = exec[b] /\ Level(a) = 2 /\ current[a] = current[b])
      BY <2>3, <3>1 DEF RowsOwned, Owning
    <3> QED
      BY <2>1, <3>1, <3>2, DeepWritten
  <2> QED
    BY <2>2, <2>3
<1>6. \A b \in Analysers : answer'[b] # None => apc'[b] = "done"
  BY DEF RowsOwned
<1>7. \A b \in Analysers : apc'[b] \in Owning => RowOf(b, current[b])' = "running"
  BY <1>2, <1>3 DEF RowOf
<1>8. \A b, c \in Analysers :
          /\ apc'[b] \in Owning /\ apc'[c] \in Owning /\ exec'[b] = exec'[c]
          /\ Level(b)' = Level(c)' /\ current'[b] = current'[c]
          => b = c
  BY <1>2, <1>4
<1>9. \A b \in Analysers : apc'[b] = "audited" => deep'[exec'[b]][current'[b]] = "stored"
  BY <1>2, <1>5 DEF Owning
<1> QED
  BY <1>6, <1>7, <1>8, <1>9 DEF RowsOwned

LEMMA EarnedAnalyse ==
    ASSUME PagesTypeOK, Placed, RowsOwned, CompletedIsEarned, NEW a \in Analysers, Analyse(a)
    PROVE  CompletedIsEarned'
<1>1. \A e \in Executions, n \in Levels, u \in Urls :
         analysis[e][n][u] = "completed" => analysis'[e][n][u] = "completed"
  BY RowWritten
<1>2. ASSUME NEW b \in Analysers, answer'[b] = "completed", NEW u \in scheduled'[b]
      PROVE  analysis'[exec'[b]][1][u] = "completed"
  <2>1. answer'[b] # None
    BY <1>2, SitePagesAssumption
  <2>2. exec'[b] = exec[b] /\ scheduled'[b] = scheduled[b]
    BY <2>1, CallMoves
  <2>3. answer[b] = "completed" \/ (b = a /\ Tally(a))
    BY <1>2, <2>1, CallMoves
  <2>4. exec[b] \in Executions
    <3>1. apc[b] # "waiting"
      BY <2>3, SitePagesAssumption DEF RowsOwned, Tally
    <3> QED
      BY <3>1 DEF Placed
  <2>5. analysis[exec[b]][1][u] = "completed"
    <3>1. CASE b = a /\ Tally(a)
      BY <1>2, <2>2, <3>1 DEF Tally, Successful, PagesTypeOK
    <3> QED
      BY <1>2, <2>2, <2>3, <3>1 DEF CompletedIsEarned
  <2>6. u \in Urls
    BY <1>2, <2>2 DEF PagesTypeOK
  <2> QED
    BY <1>1, <2>2, <2>4, <2>5, <2>6 DEF Levels
<1>3. ASSUME NEW e \in Executions, NEW u \in Urls, analysis'[e][2][u] = "completed"
      PROVE  deep'[e][u] = "stored"
  <2>1. CASE analysis[e][2][u] = "completed"
    <3>1. deep[e][u] = "stored"
      BY <2>1 DEF CompletedIsEarned
    <3>2. ~(apc[a] \in Owning /\ e = exec[a] /\ Level(a) = 2 /\ u = current[a])
      BY <2>1 DEF RowsOwned, RowOf
    <3> QED
      BY <3>1, <3>2, DeepWritten
  <2>2. CASE analysis[e][2][u] # "completed"
    <3>1. AuditCompletes(a) /\ e = exec[a] /\ u = current[a]
      BY <1>3, <2>2, RowWritten DEF Levels
    <3>2. deep[e][u] = "stored" /\ UNCHANGED deep
      BY <3>1 DEF AuditCompletes, EndAudit, RowsOwned
    <3> QED
      BY <3>2
  <2> QED
    BY <2>1, <2>2
<1> QED
  BY <1>2, <1>3 DEF CompletedIsEarned

LEMMA EarnedNext ==
    PagesTypeOK /\ Placed /\ RowsOwned /\ CompletedIsEarned /\ [PagesNext]_pageVars
       => (RowsOwned /\ CompletedIsEarned)'
<1> SUFFICES ASSUME PagesTypeOK, Placed, RowsOwned, CompletedIsEarned, [PagesNext]_pageVars
             PROVE  (RowsOwned /\ CompletedIsEarned)'
  OBVIOUS
<1>1. ASSUME UNCHANGED <<analysis, deep, working>>
      PROVE  (RowsOwned /\ CompletedIsEarned)'
  BY <1>1 DEF RowsOwned, CompletedIsEarned, RowOf, Level, working
<1>2. CASE UNCHANGED pageVars
  BY <1>1, <1>2 DEF pageVars, storage
<1>3. ASSUME StartDiscovery \/ \E e \in Executions : StartPageAnalysis(e)
      PROVE  (RowsOwned /\ CompletedIsEarned)'
  BY <1>1, <1>3 DEF StartDiscovery, StartPageAnalysis, storage
<1>4. ASSUME NEW k \in Crawlers, Discover(k) PROVE (RowsOwned /\ CompletedIsEarned)'
  <2>1. UNCHANGED <<analysis, deep, working>>
    BY <1>4 DEF Discover, EnterDiscovery, Crawl, CrawlFails, Persist, PersistAborts,
                FinishDiscovery, CrawlerDies, storage
  <2> QED
    BY <1>1, <2>1
<1> QED
  BY <1>2, <1>3, <1>4, OwnedAnalyse, EarnedAnalyse DEF PagesNext

\* An execution of the page analysis that answers completed fetched every page it
\* scheduled itself, and a page it audited has its results stored: overlapping calls of
\* one execution never write the row another one works on, and a row that is completed
\* stays so.
THEOREM CompletionIsEarned == PagesSpec => []CompletedIsEarned
<1>1. PagesInit => RowsOwned /\ CompletedIsEarned
  BY DEF PagesInit, RowsOwned, CompletedIsEarned, Owning, Levels
<1>2. PagesTypeOK /\ Placed /\ RowsOwned /\ CompletedIsEarned /\ [PagesNext]_pageVars
         => (RowsOwned /\ CompletedIsEarned)'
  BY EarnedNext
<1> QED
  BY <1>1, <1>2, PlacesHold, PTL DEF PagesSpec

-----------------------------------------------------------------------------
(* The deliveries of an analysis run.                                      *)

\* Where a delivery is once it has stored its result, and at its end.
AfterInsert == {"interpreting", "interpret", "complete"}
Ended == {"failing", "done", "dead"}

\* No code is stored twice.
UniqueCodes == \A f, g \in findings : f.code = g.code => f = g

\* The findings of the delivery whose result is stored are stored.
ResultWhole ==
    result # Nobody => \A c \in codes[result] : [code |-> c, by |-> result] \in findings

\* Only a delivery past its insert has its result stored, and then there is one.
PastInsert ==
    /\ result # Nobody => pc[result] \in AfterInsert \cup Ended
    /\ \A d \in Deliveries : pc[d] \in AfterInsert => result # Nobody

ReportInv == RunTypeOK /\ UniqueCodes /\ ResultWhole /\ PastInsert

-----------------------------------------------------------------------------
(* Types.                                                                  *)

LEMMA PointsListed ==
    /\ Working = {"validate", "browse", "audit", "measure", "delete", "replace", "insert",
            "interpret", "complete", "preparing", "loading", "collecting", "auditing",
            "scoring", "saving", "interpreting"}
    /\ DOMAIN StageProgress = {"preparing", "loading", "collecting", "auditing",
            "scoring", "saving", "interpreting"}
    /\ \A p \in DOMAIN StageProgress : StageProgress[p] \in 0..100
BY DEF Working, StageProgress

LEMMA NextStage ==
    ASSUME NEW p \in DOMAIN StageProgress
    PROVE  /\ After[p] \in {"loading", "browse", "auditing", "audit", "measure", "delete",
                             "interpret"}
           /\ (After[p] = "interpret") <=> (p = "interpreting")
BY PointsListed DEF After

LEMMA RunTypes ==
    ASSUME RunTypeOK, [RunNext]_runVars
    PROVE  RunTypeOK'
<1> USE DEF RunTypeOK, Goto, At, runVars, row, taken, Statuses
<1>n. /\ MaxAttempts \in Nat \ {0} /\ Nobody \notin Deliveries
      /\ NothingDeleted \in [result: Deliveries \cup {Nobody}, findings: SUBSET Finding]
  BY AnalysisAssumption DEF NothingDeleted
<1>p. /\ {"waiting", "begin", "failing", "done", "dead"} \subseteq Points
      /\ Working \subseteq Points
  BY DEF Points
<1>1. CASE Enqueue \/ EnqueueFails \/ Answer
  BY <1>1 DEF Enqueue, EnqueueFails, Answer
<1>2. ASSUME NEW d \in Deliveries, Enter(d) \/ WebsiteMissing(d) \/ Validate(d)
                \/ Browse(d) \/ Audit(d) \/ Interpret(d)
      PROVE  RunTypeOK'
  BY <1>2, <1>p, PointsListed DEF Enter, WebsiteMissing, Validate, Browse, Audit, Interpret
<1>9. ASSUME NEW d \in Deliveries, Begin(d) \/ Complete(d) \/ MarkFailed(d)
      PROVE  RunTypeOK'
  <2>1. status' \in Statuses /\ error' \in BOOLEAN /\ UNCHANGED <<request, result, findings,
                interpretation, taken>>
    BY <1>9 DEF Begin, Complete, MarkFailed
  <2>2. progress' \in 0..100 /\ pc' \in [Deliveries -> Points]
    BY <1>9, <1>p, PointsListed DEF Begin, Complete, MarkFailed
  <2> QED
    BY <2>1, <2>2
<1>8. ASSUME NEW d \in Deliveries, InsertFails(d) \/ Raise(d) \/ Die(d)
      PROVE  RunTypeOK'
  BY <1>8, <1>n, <1>p DEF InsertFails, Raise, Die
<1>3. ASSUME NEW d \in Deliveries, Stage(d)
      PROVE  RunTypeOK'
  <2>1. After[pc[d]] \in Points
    BY <1>3, <1>p, NextStage, PointsListed DEF Stage
  <2>2. Most(progress, StageProgress[pc[d]]) \in 0..100
    BY <1>3, PointsListed DEF Stage, Most
  <2>3. 1 \in 1..MaxAttempts
    BY <1>n
  <2> QED
    BY <1>3, <2>1, <2>2, <2>3 DEF Stage
<1>4. ASSUME NEW d \in Deliveries, TryAgain(d)
      PROVE  RunTypeOK'
  <2>1. attempt[d] + 1 \in 1..MaxAttempts
    BY <1>4, <1>n DEF TryAgain
  <2> QED
    BY <1>4, <2>1 DEF TryAgain
<1>5. ASSUME NEW d \in Deliveries, Measure(d)
      PROVE  RunTypeOK'
  BY <1>5, <1>p, PointsListed DEF Measure
<1>6. ASSUME NEW d \in Deliveries, DeleteFindings(d) \/ DeleteResult(d)
      PROVE  RunTypeOK'
  BY <1>6, <1>p, PointsListed DEF DeleteFindings, DeleteResult
<1>7. ASSUME NEW d \in Deliveries, Insert(d)
      PROVE  RunTypeOK'
  <2>1. findings' \in SUBSET Finding
    BY <1>7 DEF Insert, Left, Finding
  <2> QED
    BY <1>7, <2>1, <1>n, <1>p, PointsListed DEF Insert
<1> QED
  BY <1>1, <1>2, <1>3, <1>4, <1>5, <1>6, <1>7, <1>8, <1>9 DEF RunNext, Deliver

LEMMA RunTypesInit == RunInit => RunTypeOK
<1> SUFFICES ASSUME RunInit PROVE RunTypeOK
  OBVIOUS
<1>1. /\ 1 \in 1..MaxAttempts /\ "waiting" \in Points /\ {} \in SUBSET Finding
      /\ NothingDeleted \in [result: Deliveries \cup {Nobody}, findings: SUBSET Finding]
  BY AnalysisAssumption DEF NothingDeleted, Points
<1> HIDE DEF NothingDeleted
<1>2. /\ deleted \in [Deliveries -> [result: Deliveries \cup {Nobody}, findings: SUBSET Finding]]
      /\ attempt \in [Deliveries -> 1..MaxAttempts] /\ pc \in [Deliveries -> Points]
      /\ codes \in [Deliveries -> SUBSET FindingCodes]
  BY <1>1 DEF RunInit
<1> QED
  <2>1. status \in Statuses /\ progress \in 0..100 /\ findings \in SUBSET Finding
    BY <1>1 DEF RunInit, Statuses
  <2> QED
    BY <2>1, <1>2, Zenon DEF RunInit, RunTypeOK

\* Every variable of the run keeps its type.
THEOREM RunTypeCorrect == RunSpec => []RunTypeOK
<1>1. RunInit => RunTypeOK
  BY RunTypesInit
<1>2. RunTypeOK /\ [RunNext]_runVars => RunTypeOK'
  BY RunTypes
<1> QED
  BY <1>1, <1>2, PTL DEF RunSpec

-----------------------------------------------------------------------------
(* The report.                                                             *)

\* A step that moves one delivery between points on the same side of its insert, or
\* ends it, and stores nothing.
LEMMA MovesOnly ==
    ASSUME ReportInv, RunTypeOK',
           NEW d \in Deliveries, NEW p \in Points,
           pc' = [pc EXCEPT ![d] = p],
           \/ p \in Ended
           \/ pc[d] \in AfterInsert /\ p \in AfterInsert
           \/ pc[d] \notin AfterInsert \cup Ended /\ p \notin AfterInsert \cup Ended,
           UNCHANGED <<result, findings, codes>>
    PROVE  ReportInv'
BY DEF ReportInv, RunTypeOK, UniqueCodes, ResultWhole, PastInsert, AfterInsert, Ended

LEMMA ReportKept ==
    ASSUME ReportInv, [RunNext]_runVars
    PROVE  ReportInv'
<1>0. RunTypeOK'
  BY RunTypes DEF ReportInv
<1> USE DEF Goto, At, runVars, row, taken
<1>p. {"waiting", "begin", "failing", "done", "dead"} \subseteq Points /\ Working \subseteq Points
  BY DEF Points
<1>1. CASE UNCHANGED runVars \/ Enqueue \/ EnqueueFails \/ Answer
      \/ \E d \in Deliveries : TryAgain(d)
  BY <1>1, <1>0 DEF Enqueue, EnqueueFails, Answer, TryAgain,
     ReportInv, UniqueCodes, ResultWhole, PastInsert
<1>2. ASSUME NEW d \in Deliveries, Enter(d) \/ Begin(d) \/ WebsiteMissing(d) \/ Validate(d)
                \/ Browse(d) \/ Audit(d) \/ InsertFails(d) \/ Interpret(d)
                \/ Complete(d) \/ Raise(d) \/ MarkFailed(d) \/ Die(d)
      PROVE  ReportInv'
  BY <1>0, <1>2, <1>p, MovesOnly, PointsListed DEF Enter, Begin, WebsiteMissing, Validate, Browse,
     Audit, InsertFails, Interpret, Complete, Raise, MarkFailed, Die, AfterInsert, Ended
<1>3. ASSUME NEW d \in Deliveries, Stage(d)
      PROVE  ReportInv'
  <2>1. /\ After[pc[d]] \in Points
        /\ \/ pc[d] \in AfterInsert /\ After[pc[d]] \in AfterInsert
           \/ pc[d] \notin AfterInsert \cup Ended /\ After[pc[d]] \notin AfterInsert \cup Ended
    BY <1>3, <1>p, NextStage, PointsListed DEF Stage, AfterInsert, Ended
  <2> QED
    BY <1>0, <1>3, <2>1, MovesOnly DEF Stage
<1>4. ASSUME NEW d \in Deliveries, DeleteFindings(d) \/ DeleteResult(d)
      PROVE  ReportInv'
  BY <1>0, <1>4, <1>p, MovesOnly, PointsListed DEF DeleteFindings, DeleteResult, AfterInsert, Ended
<1>5. ASSUME NEW d \in Deliveries, Measure(d)
      PROVE  ReportInv'
  <2>1. result # d
    BY <1>5, AnalysisAssumption DEF Measure, ReportInv, PastInsert, AfterInsert, Ended
  <2>2. /\ result # Nobody => codes'[result] = codes[result]
        /\ \A e \in Deliveries : pc'[e] \in AfterInsert => pc[e] \in AfterInsert
        /\ result # Nobody => pc'[result] = pc[result]
    BY <1>5, <2>1 DEF Measure, ReportInv, RunTypeOK, AfterInsert
  <2> QED
    BY <1>0, <1>5, <2>2 DEF Measure, ReportInv, UniqueCodes, ResultWhole, PastInsert
<1>6. ASSUME NEW d \in Deliveries, Insert(d)
      PROVE  ReportInv'
  <2>1. result' = d /\ codes' = codes /\ findings' = Left(d) \cup [code: codes[d], by: {d}]
    BY <1>6 DEF Insert
  <2>2. \A f \in Left(d) : f \in findings /\ f.code \notin codes[d]
    BY <1>6 DEF Insert, Conflict, Left
  <2>3. UniqueCodes'
    <3> SUFFICES ASSUME NEW f \in findings', NEW g \in findings', f.code = g.code
                 PROVE  f = g
      BY DEF UniqueCodes
    <3>1. \A h \in [code: codes[d], by: {d}] : h.code \in codes[d] /\ h = [code |-> h.code, by |-> d]
      OBVIOUS
    <3>2. CASE f \in Left(d) /\ g \in Left(d)
      BY <2>2, <3>2 DEF ReportInv, UniqueCodes
    <3> QED
      BY <2>1, <2>2, <3>1, <3>2
  <2>4. ResultWhole'
    BY <2>1 DEF ResultWhole
  <2>5. PastInsert'
    <3>1. pc'[d] \in AfterInsert
      BY <1>6 DEF Insert, AfterInsert, ReportInv, RunTypeOK
    <3>2. d # Nobody
      BY AnalysisAssumption
    <3> QED
      BY <2>1, <3>1, <3>2 DEF PastInsert
  <2> QED
    BY <1>0, <2>3, <2>4, <2>5 DEF ReportInv
<1> QED
  BY <1>1, <1>2, <1>3, <1>4, <1>5, <1>6 DEF RunNext, Deliver

LEMMA StepsArePromised ==
    ASSUME ReportInv, ReportInv', [RunNext]_runVars
    PROVE  [Promised!Next]_<<status, Report>>
<1> USE DEF Goto, At, runVars, row, taken
<1>r. /\ Report = IF result = Nobody THEN {} ELSE {result}
      /\ Report' = IF result' = Nobody THEN {} ELSE {result'}
  BY DEF ReportInv, UniqueCodes, ResultWhole, Report, Whole
<1>1. CASE /\ result' = result
           /\ status' = status \/ status' \in {"running", "failed"}
  BY <1>1, <1>r DEF Promised!Next, Promised!Work
<1>2. ASSUME NEW d \in Deliveries, Insert(d)
      PROVE  Promised!Next
  <2>1. Report' = {d} /\ status' = status
    BY <1>2, <1>r, AnalysisAssumption DEF Insert
  <2> QED
    BY <2>1 DEF Promised!Next, Promised!Store
<1>3. ASSUME NEW d \in Deliveries, Complete(d)
      PROVE  Promised!Next
  <2>1. result # Nobody /\ result' = result
    BY <1>3 DEF Complete, ReportInv, PastInsert, AfterInsert
  <2> QED
    BY <1>3, <1>r, <2>1 DEF Complete, Promised!Next, Promised!Complete
<1>4. ASSUME Enqueue \/ EnqueueFails \/ Answer \/ UNCHANGED runVars
      PROVE  result' = result /\ (status' = status \/ status' \in {"running", "failed"})
  BY <1>4 DEF Enqueue, EnqueueFails, Answer
<1>5. ASSUME NEW d \in Deliveries, Enter(d) \/ Begin(d) \/ WebsiteMissing(d) \/ Validate(d)
         \/ Stage(d) \/ TryAgain(d) \/ Browse(d) \/ Audit(d) \/ Measure(d)
         \/ DeleteFindings(d) \/ DeleteResult(d) \/ InsertFails(d) \/ Interpret(d)
         \/ Raise(d) \/ MarkFailed(d) \/ Die(d)
      PROVE  result' = result /\ (status' = status \/ status' \in {"running", "failed"})
  BY <1>5 DEF Enter, Begin, WebsiteMissing, Validate, Stage, TryAgain, Browse, Audit, Measure,
     DeleteFindings, DeleteResult, InsertFails, Interpret, Raise, MarkFailed, Die
<1> QED
  BY <1>1, <1>2, <1>3, <1>4, <1>5 DEF RunNext, Deliver

\* However many times the message of an analysis run is delivered, and whoever dies, the
\* run implements ReportStore: the report its readers see is missing or whole, is only
\* replaced by a whole one, and is there when the run is completed.
THEOREM PromiseKept == RunSpec => KeepsPromise
<1>1. RunInit => ReportInv
  <2> SUFFICES ASSUME RunInit PROVE ReportInv
    OBVIOUS
  <2> QED
    BY RunTypesInit, AnalysisAssumption DEF RunInit, ReportInv, UniqueCodes, ResultWhole, PastInsert, AfterInsert
<1>2. ReportInv /\ [RunNext]_runVars => ReportInv'
  BY ReportKept
<1>3. RunInit => Promised!Init
  BY DEF RunInit, Promised!Init, Report
<1>4. ReportInv /\ ReportInv' /\ [RunNext]_runVars => [Promised!Next]_<<status, Report>>
  BY StepsArePromised
<1> QED
  BY <1>1, <1>2, <1>3, <1>4, PTL DEF RunSpec, KeepsPromise, Promised!Spec
=============================================================================
