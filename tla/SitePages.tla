------------------------------ MODULE SitePages ------------------------------
(***************************************************************************)
(* The pages of one website: discovery runs that store what a crawl found   *)
(* (tasks/discovery.py) and executions of the page analysis that schedule,  *)
(* fetch and audit them (tasks/page_analysis.py). Runs of one website may   *)
(* overlap: the rows of website_pages are shared and every run writes them; *)
(* discovery_run_pages and page_analysis_runs belong to a run and an        *)
(* execution. A resumed journey calls either task a second time.            *)
(*                                                                         *)
(* Each commit is a step. persist_pages is one transaction, begun when it   *)
(* looks its pages up and ended by its commit.                              *)
(***************************************************************************)
EXTENDS Integers, FiniteSets

CONSTANTS
    Urls, Rank, HashRank,       \* the orders of normalized_url and of its hash
    Runs,                       \* discovery runs, numbered as they are created
    Crawlers,                   \* calls of run_discovery
    Crawls,                     \* what a crawl may find
    Executions,                 \* of the page analysis
    Analysers,                  \* calls of run_page_analysis
    Webs,                       \* what the addresses may answer when asked
    SameHost, MaxHops,          \* redirects that stay on the host, and their limit
    MaxPages, MaxDeep,
    MaxDeaths,                  \* a bound on the workers that die
    None

Levels    == {1, 2}
RowStates == {"pending", "running", "completed", "failed"}
WebAnswers   == {"html", "document", "error", "unreachable", "unsafe"}
FoundPage == [depth: Nat, eligible: BOOLEAN, critical: BOOLEAN]
PageRow   == [depth: Nat, eligible: BOOLEAN, critical: BOOLEAN, last: Runs,
              level: [Levels -> RowStates]]

ASSUME SitePagesAssumption ==
    /\ Runs = 1..Cardinality(Runs) /\ IsFiniteSet(Runs) /\ IsFiniteSet(Urls)
    /\ Rank \in [Urls -> Nat] /\ HashRank \in [Urls -> Nat]
    /\ \A u, v \in Urls : Rank[u] = Rank[v] \/ HashRank[u] = HashRank[v] => u = v
    /\ None \notin Urls \cup Executions /\ None \notin Runs
    /\ None \notin FoundPage /\ None \notin PageRow
    /\ None \notin {"completed", "partial", "unavailable"}
    /\ Crawls \subseteq [Urls -> FoundPage \cup {None}]
    /\ Webs \subseteq [Urls -> WebAnswers \cup Urls] /\ SameHost \subseteq Urls \X Urls
    /\ MaxHops \in Nat /\ MaxPages \in Nat \ {0} /\ MaxDeep \in Nat /\ MaxDeaths \in Nat

-----------------------------------------------------------------------------
VARIABLES
    deaths,
    created,            \* how many discovery runs exist
    discovery,          \* the status of a discovery run
    page,               \* website_pages
    member,             \* discovery_run_pages: the eligibility it stores
    cpc, run,           \* a call of run_discovery, and the run it was given
    found, known, dropped,
    about,              \* the discovery run of an execution
    analysis, deep,     \* page_analysis_runs, and the analysis runs of level 2
    apc, exec,          \* a call of run_page_analysis, and the execution it was given
    scheduled, todo, current, answer

runs     == <<deaths, created, discovery, about>>
crawling == <<cpc, run, found, known, dropped>>
storage  == <<page, member, analysis, deep>>
working  == <<apc, exec, scheduled, todo, current, answer>>
pageVars     == <<runs, crawling, storage, working>>

Stored(u) == page[u] # None
Members(r) == {u \in Urls : member[r][u] # "absent"}
FoundBy(k) == {u \in Urls : found[k][u] # None}
Eligibility(entry) ==
    IF entry = None THEN "absent" ELSE IF entry.eligible THEN "eligible" ELSE "excluded"

\* A worker dies: its call is gone, and what it committed stays.
Dies ==
    /\ deaths < MaxDeaths
    /\ deaths' = deaths + 1
    /\ UNCHANGED <<created, discovery, about>>

-----------------------------------------------------------------------------
(* Discovery.                                                               *)

\* start_discovery commits the run and sends its message; if the broker refuses the
\* message the run has failed.
StartDiscovery ==
    /\ created < Cardinality(Runs)
    /\ created' = created + 1
    /\ \E s \in {"pending", "failed"} : discovery' = [discovery EXCEPT ![created'] = s]
    /\ UNCHANGED <<deaths, about, crawling, storage, working>>

EnterDiscovery(k) ==
    /\ cpc[k] = "waiting"
    /\ \E r \in 1..created :
          /\ run' = [run EXCEPT ![k] = r]
          /\ discovery' = [discovery EXCEPT ![r] = "running"]
    /\ cpc' = [cpc EXCEPT ![k] = "crawl"]
    /\ UNCHANGED <<deaths, created, about, found, known, dropped, storage, working>>

\* The memberships of a run that another transaction has deleted are locked until it
\* ends.
Deleting(k) ==
    {o \in Crawlers \ {k} : cpc[o] = "persist" /\ run[o] = run[k] /\ dropped[o] # {}}

\* discover_site, then the delete and the lookups of persist_pages. A delete that had
\* to wait for a commit finds the rows it saw gone, and not those inserted since.
Crawl(k) ==
    /\ cpc[k] = "crawl" /\ Deleting(k) = {}
    /\ \E c \in Crawls : found' = [found EXCEPT ![k] = c]
    /\ known' = [known EXCEPT ![k] = {u \in Urls : Stored(u)}]
    /\ \/ dropped' = [dropped EXCEPT ![k] = Members(run[k])]
       \/ /\ \E o \in Crawlers \ {k} : run[o] = run[k] /\ cpc[o] \in {"finish", "done"}
          /\ dropped' = [dropped EXCEPT ![k] = {}]
    /\ cpc' = [cpc EXCEPT ![k] = "persist"]
    /\ UNCHANGED <<runs, run, storage, working>>

CrawlFails(k) ==
    /\ cpc[k] = "crawl"
    /\ discovery' = [discovery EXCEPT ![run[k]] = "failed"]
    /\ cpc' = [cpc EXCEPT ![k] = "done"]
    /\ UNCHANGED <<deaths, created, about, run, found, known, dropped, storage, working>>

\* The transaction ends, and what it saw is forgotten.
EndTransaction(k, p) ==
    /\ cpc' = [cpc EXCEPT ![k] = p]
    /\ known' = [known EXCEPT ![k] = {}] /\ dropped' = [dropped EXCEPT ![k] = {}]

\* A page or a membership another transaction has inserted since.
PageConflict(k) ==
    \E u \in FoundBy(k) :
       \/ Stored(u) /\ u \notin known[k]
       \/ member[run[k]][u] # "absent" /\ u \notin dropped[k]

PageFrom(entry, r, old) ==
    [depth |-> entry.depth, eligible |-> entry.eligible, critical |-> entry.critical,
     last |-> r, level |-> IF old = None THEN [n \in Levels |-> "pending"] ELSE old.level]

StorePages(k) ==
    page' = [u \in Urls |-> IF u \in FoundBy(k)
                            THEN PageFrom(found[k][u], run[k], page[u]) ELSE page[u]]

PersistForWebsite(k) ==                                            \* mutant
    /\ cpc[k] = "persist"
    /\ StorePages(k)
    /\ member' = [r \in Runs |-> [u \in Urls |->
         IF r = run[k] THEN Eligibility(found[k][u])
         ELSE IF u \in FoundBy(k) THEN "absent" ELSE member[r][u]]]
    /\ EndTransaction(k, "finish")
    /\ UNCHANGED <<runs, run, found, analysis, deep, working>>

Persist(k) ==
    /\ cpc[k] = "persist" /\ ~PageConflict(k)
    /\ StorePages(k)
    /\ member' = [member EXCEPT ![run[k]] = [u \in Urls |->
         IF u \in FoundBy(k) THEN Eligibility(found[k][u])
         ELSE IF u \in dropped[k] THEN "absent" ELSE @[u]]]
    /\ EndTransaction(k, "finish")
    /\ UNCHANGED <<runs, run, found, analysis, deep, working>>

\* The transaction is aborted, and with it the handler that would write failed: the
\* run stays running. Two transactions that update the same rows may also deadlock.
PersistAborts(k) ==
    /\ cpc[k] = "persist"
    /\ PageConflict(k) \/ \E other \in Crawlers \ {k} : cpc[other] = "persist"
    /\ EndTransaction(k, "done")
    /\ UNCHANGED <<runs, run, found, storage, working>>

FinishDiscovery(k) ==
    /\ cpc[k] = "finish"
    /\ \E s \in {"completed", "partial"} : discovery' = [discovery EXCEPT ![run[k]] = s]
    /\ cpc' = [cpc EXCEPT ![k] = "done"]
    /\ UNCHANGED <<deaths, created, about, run, found, known, dropped, storage, working>>

CrawlerDies(k) ==
    /\ cpc[k] \in {"crawl", "persist", "finish"}
    /\ Dies
    /\ EndTransaction(k, "done")
    /\ UNCHANGED <<run, found, storage, working>>

-----------------------------------------------------------------------------
(* Which pages are analysed.                                                *)

\* eligible_pages_for_run, with its fallback for runs without membership rows.
EligiblePages(r) ==
    IF Members(r) # {} THEN {u \in Urls : member[r][u] = "eligible"}
    ELSE {u \in Urls : Stored(u) /\ page[u].eligible /\ page[u].last = r}

CrawlBefore(u, v) ==
    \/ page[u].depth < page[v].depth
    \/ page[u].depth = page[v].depth /\ Rank[u] < Rank[v]
HashBefore(u, v) == HashRank[u] < HashRank[v]
TypeBefore(u, v) ==
    \/ page[u].critical /\ ~page[v].critical
    \/ page[u].critical = page[v].critical /\ Rank[u] < Rank[v]

\* The first n members of S in an order.
FirstOf(n, S, Before(_, _)) == {u \in S : Cardinality({v \in S : Before(v, u)}) < n}

\* select_scheduled_pages: every page, or a sample that takes critical pages first.
SelectScheduled(S) ==
    LET critical == FirstOf(MaxPages, {u \in S : page[u].depth = 0 \/ page[u].critical},
                            CrawlBefore)
    IN IF Cardinality(S) <= MaxPages THEN S
       ELSE critical \cup FirstOf(MaxPages - Cardinality(critical), S \ critical, HashBefore)

\* The pages for the second level: of the first pages of the run, those whose shared
\* status is good, critical types first.
SelectDeep(r) ==
    LET good == {u \in FirstOf(MaxPages, EligiblePages(r), CrawlBefore) :
                    page[u].level[1] = "completed"}
    IN FirstOf(MaxDeep, good, TypeBefore)

\* Pages to work through, each with what it is ordered by before its address.
Ordered(S, Key(_)) == {[key |-> Key(u), url |-> u] : u \in S}
First(list) ==
    (CHOOSE t \in list : \A o \in list :
        t.key < o.key \/ (t.key = o.key /\ Rank[t.url] <= Rank[o.url])).url
Without(list, u) == {t \in list : t.url # u}
Depth(u) == page[u].depth
Type(u) == IF page[u].critical THEN 0 ELSE 1

\* Where the redirects of an address lead within the limit: a redirect is followed
\* only on the same host.
Reached(web, u) ==
    LET after[n \in 0..MaxHops] ==
          IF n = 0 THEN u
          ELSE IF <<after[n-1], web[after[n-1]]>> \in SameHost
               THEN web[after[n-1]] ELSE after[n-1]
    IN after[MaxHops]

-----------------------------------------------------------------------------
(* The page analysis.                                                       *)

RunOf(a) == about[exec[a]]
Move(a, p) == apc' = [apc EXCEPT ![a] = p]

\* start_page_analysis takes the latest run, whatever its status.
StartPageAnalysis(e) ==
    /\ about[e] = None /\ created > 0
    /\ about' = [about EXCEPT ![e] = created]
    /\ UNCHANGED <<deaths, created, discovery, crawling, storage, working>>

Schedule(a) ==
    /\ apc[a] = "waiting"
    /\ \E e \in Executions :
          /\ about[e] # None
          /\ exec' = [exec EXCEPT ![a] = e]
          /\ scheduled' = [scheduled EXCEPT ![a] = SelectScheduled(EligiblePages(about[e]))]
    /\ todo' = [todo EXCEPT ![a] = Ordered(scheduled'[a], Depth)]
    /\ Move(a, "level1")
    /\ UNCHANGED <<runs, crawling, storage, current, answer>>

Level(a) == IF apc[a] \in {"level1", "insert1", "fetch"} THEN 1 ELSE 2
RowOf(a, u) == analysis[exec[a]][Level(a)][u]

\* A page that has a row in this execution is left, whatever became of it.
SkipPage(a) ==
    /\ apc[a] \in {"level1", "level2"}
    /\ todo[a] # {} /\ RowOf(a, First(todo[a])) # "none"
    /\ todo' = [todo EXCEPT ![a] = Without(@, First(@))]
    /\ UNCHANGED <<runs, crawling, storage, apc, exec, scheduled, current, answer>>

TakePage(a) ==
    /\ apc[a] \in {"level1", "level2"}
    /\ todo[a] # {} /\ RowOf(a, First(todo[a])) = "none"
    /\ todo' = [todo EXCEPT ![a] = Without(@, First(@))]
    /\ current' = [current EXCEPT ![a] = First(todo[a])]
    /\ Move(a, IF Level(a) = 1 THEN "insert1" ELSE "insert2")
    /\ UNCHANGED <<runs, crawling, storage, exec, scheduled, answer>>

SetRow(a, u, s) == analysis' = [analysis EXCEPT ![exec[a]][Level(a)][u] = s]
Marked(row, n, s, eligible) ==
    [row EXCEPT !.level = [row.level EXCEPT ![n] = s], !.eligible = row.eligible /\ eligible]
SetPage(a, u, s, eligible) == page' = [page EXCEPT ![u] = Marked(@, Level(a), s, eligible)]

InsertRow(a) ==
    /\ apc[a] \in {"insert1", "insert2"} /\ RowOf(a, current[a]) = "none"
    /\ SetRow(a, current[a], "running")
    /\ Move(a, IF Level(a) = 1 THEN "fetch" ELSE "audit")
    /\ UNCHANGED <<runs, crawling, page, member, deep, exec, scheduled, todo, current, answer>>

\* The unique constraint refuses the row, and nothing catches it.
InsertRefused(a) ==
    /\ apc[a] \in {"insert1", "insert2"} /\ RowOf(a, current[a]) # "none"
    /\ Move(a, "raised")
    /\ UNCHANGED <<runs, crawling, storage, exec, scheduled, todo, current, answer>>

\* A page that turns out to be a document is excluded for every run.
FetchPage(a) ==
    /\ apc[a] = "fetch"
    /\ \E web \in Webs :
          LET reached == web[Reached(web, current[a])]
              s == IF reached = "html" THEN "completed" ELSE "failed"
          IN /\ SetRow(a, current[a], s)
             /\ SetPage(a, current[a], s, reached # "document")
    /\ Move(a, "level1")
    /\ current' = [current EXCEPT ![a] = None]
    /\ UNCHANGED <<runs, crawling, member, deep, exec, scheduled, todo, answer>>

EndLevel1(a) ==
    /\ apc[a] = "level1"
    /\ todo' = [todo EXCEPT ![a] = Ordered(SelectDeep(RunOf(a)), Type)]
    /\ Move(a, "level2")
    /\ UNCHANGED <<runs, crawling, storage, exec, scheduled, current, answer>>

\* The analysis run of the page is committed as completed before its results are.
AuditPage(a) ==
    /\ apc[a] = "audit"
    /\ deep' = [deep EXCEPT ![exec[a]][current[a]] = "hollow"]
    /\ Move(a, "results")
    /\ UNCHANGED <<runs, crawling, page, member, analysis, exec, scheduled, todo, current, answer>>

StoreResults(a) ==
    /\ apc[a] = "results"
    /\ deep' = [deep EXCEPT ![exec[a]][current[a]] = "stored"]
    /\ Move(a, "audited")
    /\ UNCHANGED <<runs, crawling, page, member, analysis, exec, scheduled, todo, current, answer>>

EndAudit(a, s) ==
    /\ SetRow(a, current[a], s)
    /\ SetPage(a, current[a], s, TRUE)
    /\ Move(a, "level2")
    /\ current' = [current EXCEPT ![a] = None]
    /\ UNCHANGED <<runs, crawling, member, deep, exec, scheduled, todo, answer>>

AuditCompletes(a) == apc[a] = "audited" /\ EndAudit(a, "completed")
AuditFails(a) == apc[a] \in {"audit", "results", "audited"} /\ EndAudit(a, "failed")

\* A level ends when its pages are done or the deadline has passed.
EndLevel2(a) ==
    /\ apc[a] = "level2"
    /\ Move(a, "tally")
    /\ todo' = [todo EXCEPT ![a] = {}]
    /\ UNCHANGED <<runs, crawling, storage, exec, scheduled, current, answer>>

NoneFailed(a) == {u \in scheduled[a] : analysis[exec[a]][1][u] # "failed"}   \* mutant
Successful(a) == {u \in scheduled[a] : analysis[exec[a]][1][u] = "completed"}

Tally(a) ==
    /\ apc[a] = "tally"
    /\ answer' = [answer EXCEPT ![a] =
         IF scheduled[a] = {} THEN "unavailable"
         ELSE IF Successful(a) = scheduled[a] THEN "completed" ELSE "partial"]
    /\ Move(a, "done")
    /\ UNCHANGED <<runs, crawling, storage, exec, scheduled, todo, current>>

AnalyserDies(a) ==
    /\ apc[a] \notin {"waiting", "done", "raised", "dead"}
    /\ Dies
    /\ Move(a, "dead")
    /\ todo' = [todo EXCEPT ![a] = {}] /\ current' = [current EXCEPT ![a] = None]
    /\ UNCHANGED <<crawling, storage, exec, scheduled, answer>>

-----------------------------------------------------------------------------
PagesInit ==
    /\ deaths = 0 /\ created = 0 /\ discovery = [r \in Runs |-> "pending"]
    /\ page = [u \in Urls |-> None]
    /\ member = [r \in Runs |-> [u \in Urls |-> "absent"]]
    /\ cpc = [k \in Crawlers |-> "waiting"] /\ run = [k \in Crawlers |-> None]
    /\ found = [k \in Crawlers |-> [u \in Urls |-> None]]
    /\ known = [k \in Crawlers |-> {}] /\ dropped = [k \in Crawlers |-> {}]
    /\ about = [e \in Executions |-> None]
    /\ analysis = [e \in Executions |-> [n \in Levels |-> [u \in Urls |-> "none"]]]
    /\ deep = [e \in Executions |-> [u \in Urls |-> "none"]]
    /\ apc = [a \in Analysers |-> "waiting"] /\ exec = [a \in Analysers |-> None]
    /\ scheduled = [a \in Analysers |-> {}]
    /\ todo = [a \in Analysers |-> {}] /\ current = [a \in Analysers |-> None]
    /\ answer = [a \in Analysers |-> None]

Discover(k) ==
    \/ EnterDiscovery(k) \/ Crawl(k) \/ CrawlFails(k) \/ Persist(k) \/ PersistAborts(k)
    \/ FinishDiscovery(k) \/ CrawlerDies(k)

Analyse(a) ==
    \/ Schedule(a) \/ SkipPage(a) \/ TakePage(a) \/ InsertRow(a) \/ InsertRefused(a)
    \/ FetchPage(a) \/ EndLevel1(a) \/ AuditPage(a) \/ StoreResults(a)
    \/ AuditCompletes(a) \/ AuditFails(a) \/ EndLevel2(a) \/ Tally(a) \/ AnalyserDies(a)

PagesNext ==
    \/ StartDiscovery
    \/ \E k \in Crawlers : Discover(k)
    \/ \E e \in Executions : StartPageAnalysis(e)
    \/ \E a \in Analysers : Analyse(a)

PagesSpec == PagesInit /\ [][PagesNext]_pageVars
-----------------------------------------------------------------------------
PagesTypeOK ==
    /\ deaths \in 0..MaxDeaths /\ created \in 0..Cardinality(Runs)
    /\ discovery \in [Runs -> {"pending", "running", "completed", "partial", "failed"}]
    /\ page \in [Urls -> {None} \cup PageRow]
    /\ member \in [Runs -> [Urls -> {"absent", "eligible", "excluded"}]]
    /\ cpc \in [Crawlers -> {"waiting", "crawl", "persist", "finish", "done"}]
    /\ run \in [Crawlers -> Runs \cup {None}]
    /\ found \in [Crawlers -> [Urls -> FoundPage \cup {None}]]
    /\ known \in [Crawlers -> SUBSET Urls] /\ dropped \in [Crawlers -> SUBSET Urls]
    /\ about \in [Executions -> Runs \cup {None}]
    /\ analysis \in [Executions -> [Levels -> [Urls -> RowStates \cup {"none"}]]]
    /\ deep \in [Executions -> [Urls -> {"none", "hollow", "stored"}]]
    /\ apc \in [Analysers -> {"waiting", "level1", "insert1", "fetch", "level2", "insert2",
                              "audit", "results", "audited", "tally", "done", "raised",
                              "dead"}]
    /\ exec \in [Analysers -> Executions \cup {None}]
    /\ scheduled \in [Analysers -> SUBSET Urls] /\ todo \in [Analysers -> SUBSET [key: Nat, url: Urls]]
    /\ current \in [Analysers -> Urls \cup {None}]
    /\ answer \in [Analysers -> {None, "completed", "partial", "unavailable"}]

MembershipOf(k) == [u \in Urls |-> Eligibility(found[k][u])]

\* A discovery run that ended has the pages one of its crawls found, all of them and
\* no others, whatever overlapping runs of the website do to the shared rows.
MembershipWhole ==
    \A r \in Runs : discovery[r] \in {"completed", "partial"} =>
       /\ \E k \in Crawlers : run[k] = r /\ member[r] = MembershipOf(k)
       /\ \A u \in Urls : member[r][u] # "absent" => Stored(u)

\* An execution of the page analysis that answers completed fetched every page it
\* scheduled itself, and a page it audited has its results stored.
CompletedIsEarned ==
    /\ \A a \in Analysers : answer[a] = "completed" =>
          \A u \in scheduled[a] : analysis[exec[a]][1][u] = "completed"
    /\ \A e \in Executions, u \in Urls :
          analysis[e][2][u] = "completed" => deep[e][u] = "stored"
=============================================================================
