---------------------------- MODULE SiteDiscovery ----------------------------
(***************************************************************************)
(* discover_site: the crawl that finds the pages of a website. It reads     *)
(* robots.txt, then the sitemaps, then walks the links breadth first under  *)
(* limits on URLs, pages, depth, variants of a query, sitemaps and time,    *)
(* merges pages into the canonical ones they name, and says whether it      *)
(* reached everything.                                                      *)
(*                                                                         *)
(* A URL stands for what normalize_url returns; Malformed is what it        *)
(* refuses. What the network answers is chosen when it is asked, after the  *)
(* bounded retries.                                                         *)
(***************************************************************************)
EXTENDS Integers, Sequences, FiniteSets

CONSTANTS
    Urls, Malformed,
    Submitted,          \* the address of the website
    Relation,           \* origin_relation of a URL to it
    Unsafe,             \* the URLs destructive_path_reason names
    Assets,             \* the documents and static media, by classify_resource
    Family,             \* the path of a URL that has a query, or "none"
    Sitemaps, RootSitemap, ForeignSitemaps,
    Websites,           \* the websites that may be crawled
    RobotsRules,        \* what their robots.txt may disallow
    MaxUrls, MaxPages, MaxDepth, MaxLinks, MaxVariants,
    MaxSitemaps, MaxSitemapDepth

Relations == {"same_origin", "allowed_subdomain", "same_domain", "external"}
Paths     == {Family[u] : u \in Urls} \ {"none"}
Policies  == {"unread", "not_present", "unknown", "parsed"}
Codes     == {"ROBOTS_FETCH_FAILED", "SITEMAP_FETCH_FAILED", "SITEMAP_LIMIT_REACHED",
              "PAGE_LIMIT_REACHED", "QUERY_VARIANT_LIMIT_REACHED",
              "CRAWL_DEPTH_LIMIT_REACHED", "DISCOVERY_PAGE_FETCH_FAILED",
              "DISCOVERY_DEADLINE_EXCEEDED"}

\* What a website holds: the links and the canonical URL of each page, the
\* links a browser saw on the first page, and its sitemaps, an index naming
\* others and a plain one naming pages.
Website == [links: [Urls -> Seq(Urls \cup {Malformed})],
            canonical: [Urls -> Urls \cup {Malformed, "none"}],
            rendered: Seq(Urls \cup {Malformed}),
            pages: [Sitemaps -> Seq(Urls \cup {Malformed})],
            nested: [Sitemaps -> Seq(Sitemaps \cup {Malformed})]]

ASSUME DiscoveryAssumption ==
    /\ Submitted \in Urls /\ Malformed \notin Urls \cup Sitemaps
    /\ "none" \notin Urls \cup {Malformed}
    /\ Relation \in [Urls -> Relations] /\ Relation[Submitted] = "same_origin"
    /\ RootSitemap \in Sitemaps /\ ForeignSitemaps \subseteq Sitemaps
    /\ Unsafe \subseteq Urls /\ Assets \subseteq Urls /\ DOMAIN Family = Urls
    /\ Websites \subseteq Website /\ RobotsRules \subseteq SUBSET Urls
    /\ \A n \in {MaxUrls, MaxPages, MaxLinks, MaxVariants, MaxSitemaps} : n \in Nat \ {0}
    /\ MaxDepth \in Nat /\ MaxSitemapDepth \in Nat

-----------------------------------------------------------------------------
VARIABLES
    site,               \* the website, chosen once
    pc,
    policy, disallowed, \* robots.txt: its state, and what it disallows
    sitemapQueue, seen, \* seen_sitemaps
    candidates, order,  \* the keys of candidates, and their insertion order
    page,               \* the fields of a candidate
    variants,           \* query_variant_counts
    capHit,             \* url_cap_hit
    errors,             \* the codes of errors
    queue,              \* html_queue
    current,            \* the entry of html_queue being processed
    pending,            \* what the present loop has yet to add
    fetchedAt,          \* the depth at which a page was fetched, or -1
    blocked,            \* depth_blocked_seen
    merging,            \* how much of the merge loop is left
    late,               \* whether the deadline has passed
    outcome,
    refused             \* history: the URLs a limit kept out of the candidates

crawl    == <<site, policy, disallowed>>
maps     == <<sitemapQueue, seen>>
frontier == <<queue, current, fetchedAt, blocked>>
table    == <<candidates, order, page, variants, capHit, refused>>
rest     == <<merging, outcome>>
vars == <<crawl, maps, frontier, table, rest, pc, errors, pending, late>>

Fetched == {u \in Urls : fetchedAt[u] >= 0}
Cut(s, n) == SubSeq(s, 1, IF Len(s) < n THEN Len(s) ELSE n)
Min2(a, b) == IF a < b THEN a ELSE b

-----------------------------------------------------------------------------
(* The candidates.                                                          *)

Exclusions == {"none", "external_url", "subdomain_not_enabled", "unsafe", "asset",
               "robots_disallowed", "unsafe_external_redirect"}
Page == [depth: Nat, robots: {"unknown", "allowed", "disallowed"},
         eligibility: {"eligible", "excluded", "skipped"},
         exclusion: Exclusions, canonical: Urls \cup {"none"}, verified: BOOLEAN]

Exclusion(u) ==
    CASE Relation[u] = "external"    -> "external_url"
      [] Relation[u] = "same_domain" -> "subdomain_not_enabled"
      [] OTHER -> IF u \in Assets THEN "asset" ELSE IF u \in Unsafe THEN "unsafe" ELSE "none"

Fresh(u, depth) ==
    [depth |-> depth, robots |-> "unknown", exclusion |-> Exclusion(u),
     eligibility |-> IF Exclusion(u) = "none" THEN "eligible" ELSE "excluded",
     canonical |-> "none", verified |-> FALSE]

External(u) == Relation[u] = "external"
Eligible(u) == u \in candidates /\ page[u].eligibility = "eligible"

New(u) == u \in Urls \ candidates
TooManyVariants(u) == Family[u] # "none" /\ variants[Family[u]] >= MaxVariants
AtCap == Cardinality(candidates) >= MaxUrls

\* What add returns: the URL is now a candidate, or None.
Kept(u) == u \in candidates \/ (New(u) /\ ~TooManyVariants(u) /\ ~AtCap)

AddMalformed(u) ==
    /\ u = Malformed
    /\ UNCHANGED <<table, errors>>

AddKnown(u, depth) ==
    /\ u \in candidates
    /\ page' = [page EXCEPT ![u].depth = Min2(@, depth)]
    /\ UNCHANGED <<candidates, order, variants, capHit, refused, errors>>

RefuseVariant(u) ==
    /\ New(u) /\ TooManyVariants(u)
    /\ errors' = errors \cup {"QUERY_VARIANT_LIMIT_REACHED"}
    /\ refused' = refused \cup {u}
    /\ UNCHANGED <<candidates, order, page, variants, capHit>>

\* A variant is counted before the limit on URLs is looked at.
CountVariant(u) ==
    variants' = IF Family[u] = "none" THEN variants
                ELSE [variants EXCEPT ![Family[u]] = @ + 1]

RefuseAtCap(u) ==
    /\ New(u) /\ ~TooManyVariants(u) /\ AtCap
    /\ CountVariant(u)
    /\ capHit' = TRUE
    /\ errors' = errors \cup {"PAGE_LIMIT_REACHED"}
    /\ refused' = refused \cup {u}
    /\ UNCHANGED <<candidates, order, page>>

AddNew(u, depth) ==
    /\ New(u) /\ ~TooManyVariants(u) /\ ~AtCap
    /\ CountVariant(u)
    /\ candidates' = candidates \cup {u}
    /\ order' = Append(order, u)
    /\ page' = [page EXCEPT ![u] = Fresh(u, depth)]
    /\ UNCHANGED <<capHit, refused, errors>>

Add(u, depth) ==
    \/ AddMalformed(u)
    \/ AddKnown(u, depth)
    \/ RefuseVariant(u)
    \/ RefuseAtCap(u)
    \/ AddNew(u, depth)

AddSubmitted ==
    /\ pc = "start"
    /\ Add(Submitted, 0)
    /\ pc' = "robots"
    /\ UNCHANGED <<crawl, maps, frontier, rest, pending, late>>

-----------------------------------------------------------------------------
(* robots.txt and the sitemaps.                                             *)

ReadRobots ==
    /\ pc = "robots"
    /\ \E read \in Policies \ {"unread"}, named \in {<<>>} \cup {<<m>> : m \in Sitemaps} :
          /\ policy' = read
          /\ named = <<>> \/ read = "parsed"
          /\ sitemapQueue' = Append([i \in DOMAIN named |-> [map |-> named[i], depth |-> 0]],
                                    [map |-> RootSitemap, depth |-> 0])
          /\ disallowed' \in IF read = "parsed" THEN RobotsRules ELSE {{}}
          /\ \/ errors' = errors
             \/ read = "unknown" /\ errors' = errors \cup {"ROBOTS_FETCH_FAILED"}
    /\ pc' = "sitemaps"
    /\ UNCHANGED <<site, seen, frontier, table, rest, pending, late>>

RobotsStatus(u) ==
    CASE policy = "not_present" -> "allowed"
      [] policy = "parsed"      -> IF u \in disallowed THEN "disallowed" ELSE "allowed"
      [] OTHER                  -> "unknown"

MoreSitemaps == sitemapQueue # <<>> /\ Cardinality(seen) < MaxSitemaps
NextSitemap == Head(sitemapQueue).map
TakeSitemap ==
    /\ pc = "sitemaps" /\ MoreSitemaps /\ ~late
    /\ UNCHANGED <<crawl, frontier, table, rest, late>>

\* An address that normalize_url refuses fails before it is remembered.
SitemapMalformed ==
    /\ TakeSitemap
    /\ NextSitemap = Malformed
    /\ sitemapQueue' = Tail(sitemapQueue)
    /\ errors' = errors \cup {"SITEMAP_FETCH_FAILED"}
    /\ UNCHANGED <<pc, seen, pending>>

SeenStaysQueued ==                                                 \* mutant
    /\ TakeSitemap /\ NextSitemap \in seen
    /\ UNCHANGED <<sitemapQueue, pc, seen, pending, errors>>

SitemapSeen ==
    /\ TakeSitemap
    /\ NextSitemap \in seen
    /\ sitemapQueue' = Tail(sitemapQueue)
    /\ UNCHANGED <<pc, seen, pending, errors>>

\* A foreign sitemap, or one that does not exist.
SitemapIgnored ==
    /\ TakeSitemap
    /\ NextSitemap \in Sitemaps \ seen
    /\ seen' = seen \cup {NextSitemap}
    /\ sitemapQueue' = Tail(sitemapQueue)
    /\ UNCHANGED <<pc, pending, errors>>

SitemapFails ==
    /\ TakeSitemap
    /\ NextSitemap \in Sitemaps \ (seen \cup ForeignSitemaps)
    /\ seen' = seen \cup {NextSitemap}
    /\ sitemapQueue' = Tail(sitemapQueue)
    /\ errors' = errors \cup {"SITEMAP_FETCH_FAILED"}
    /\ UNCHANGED <<pc, pending>>

SitemapRead ==
    /\ TakeSitemap
    /\ NextSitemap \in Sitemaps \ (seen \cup ForeignSitemaps)
    /\ seen' = seen \cup {NextSitemap}
    /\ LET depth  == Head(sitemapQueue).depth
           nested == Cut(site.nested[NextSitemap], MaxUrls)
       IN sitemapQueue' = Tail(sitemapQueue)
             \o IF depth < MaxSitemapDepth
                THEN [i \in DOMAIN nested |-> [map |-> nested[i], depth |-> depth + 1]]
                ELSE <<>>
    /\ pending' = Cut(site.pages[NextSitemap], MaxUrls)
    /\ pc' = "entries"
    /\ UNCHANGED errors

LeaveSitemaps ==
    /\ pc = "sitemaps" /\ (late \/ ~MoreSitemaps)
    /\ errors' = errors
         \cup (IF late /\ MoreSitemaps THEN {"DISCOVERY_DEADLINE_EXCEEDED"} ELSE {})
         \cup (IF sitemapQueue # <<>> THEN {"SITEMAP_LIMIT_REACHED"} ELSE {})
    /\ pending' = Cut(site.rendered, MaxLinks)
    /\ pc' = "rendered"
    /\ UNCHANGED <<crawl, maps, frontier, table, rest, late>>

\* One entry of a sitemap, or one link a browser saw, is added; none of them
\* enters html_queue.
AddEntry ==
    /\ pc \in {"entries", "rendered"} /\ pending # <<>>
    /\ Add(Head(pending), IF pc = "entries" THEN 0 ELSE 1)
    /\ pending' = Tail(pending)
    /\ UNCHANGED <<crawl, maps, frontier, rest, pc, late>>

EntriesAdded ==
    /\ pc \in {"entries", "rendered"} /\ pending = <<>>
    /\ pc' = IF pc = "entries" THEN "sitemaps" ELSE "pages"
    /\ UNCHANGED <<crawl, maps, frontier, table, rest, pending, errors, late>>

-----------------------------------------------------------------------------
(* The pages.                                                               *)

MorePages == queue # <<>> /\ Cardinality(Fetched) < MaxPages
At(u) == Head(queue).url = u
TakePage ==
    /\ pc = "pages" /\ MorePages /\ ~late
    /\ queue' = Tail(queue)
    /\ UNCHANGED <<crawl, maps, rest, pending, fetchedAt, blocked, late>>

SkipEntry ==
    /\ TakePage
    /\ \/ Head(queue).url \in Fetched
       \/ Head(queue).depth > MaxDepth
       \/ ~Eligible(Head(queue).url)
    /\ UNCHANGED <<table, pc, errors, current>>

Visitable(u) ==
    /\ At(u) /\ Eligible(u) /\ u \notin Fetched /\ Head(queue).depth <= MaxDepth

\* The robots status is written first, whatever becomes of the page.
Mark(u, eligibility, exclusion) ==
    page' = [page EXCEPT ![u].robots = RobotsStatus(u),
                         ![u].eligibility = eligibility, ![u].exclusion = exclusion]

PageDisallowed(u) ==
    /\ TakePage /\ Visitable(u) /\ RobotsStatus(u) = "disallowed"
    /\ Mark(u, "excluded", "robots_disallowed")
    /\ UNCHANGED <<candidates, order, variants, capHit, refused, pc, errors, current>>

Asked(u) == TakePage /\ Visitable(u) /\ RobotsStatus(u) # "disallowed"

PageFails(u) ==
    /\ Asked(u)
    /\ Mark(u, "skipped", page[u].exclusion)
    /\ errors' = errors \cup {"DISCOVERY_PAGE_FETCH_FAILED"}
    /\ UNCHANGED <<candidates, order, variants, capHit, refused, pc, current>>

PageRedirectsOutside(u) ==
    /\ Asked(u)
    /\ Mark(u, "excluded", "unsafe_external_redirect")
    /\ UNCHANGED <<candidates, order, variants, capHit, refused, pc, errors, current>>

\* A response that is an error or is not HTML.
PageUnusable(u) ==
    /\ Asked(u)
    /\ Mark(u, "skipped", page[u].exclusion)
    /\ UNCHANGED <<candidates, order, variants, capHit, refused, pc, errors, current>>

PageRead(u) ==
    /\ Asked(u)
    /\ Mark(u, "eligible", page[u].exclusion)
    /\ current' = Head(queue)
    /\ pc' = "canonical"
    /\ UNCHANGED <<candidates, order, variants, capHit, refused, errors>>

Canonical == site.canonical[current.url]
NoCanonical ==
    /\ pc = "canonical" /\ (Canonical = "none" \/ Canonical = Malformed)
    /\ pc' = "visited"
    /\ UNCHANGED <<crawl, maps, frontier, table, rest, pending, errors, late>>

\* A canonical URL of a subdomain becomes eligible: the website vouches for it.
Vouched(p) == [p EXCEPT !.eligibility = "eligible", !.exclusion = "none", !.verified = TRUE]

AddCanonical ==
    /\ pc = "canonical" /\ Canonical \in Urls
    /\ Add(Canonical, current.depth)
    /\ pc' = IF Kept(Canonical) /\ ~External(Canonical) THEN "vouch" ELSE "visited"
    /\ UNCHANGED <<crawl, maps, frontier, rest, pending, late>>

Vouch ==
    /\ pc = "vouch"
    /\ LET named == [page EXCEPT ![current.url].canonical = Canonical]
       IN page' = IF named[Canonical].exclusion = "subdomain_not_enabled"
                  THEN [named EXCEPT ![Canonical] = Vouched(@)] ELSE named
    /\ pc' = "visited"
    /\ UNCHANGED <<crawl, maps, frontier, rest, candidates, order, variants, capHit,
                   refused, pending, errors, late>>

Links(u) == Cut(site.links[u], MaxLinks)
Beyond == {u \in Urls : \E i \in DOMAIN Links(current.url) : Links(current.url)[i] = u}
          \ (candidates \cup blocked \cup {u \in Urls : External(u) \/ u \in Unsafe})

VisitAtLimit ==
    /\ pc = "visited" /\ current.depth >= MaxDepth
    /\ fetchedAt' = [fetchedAt EXCEPT ![current.url] = current.depth]
    /\ blocked' = blocked \cup Beyond
    /\ errors' = IF Beyond = {} THEN errors ELSE errors \cup {"CRAWL_DEPTH_LIMIT_REACHED"}
    /\ pc' = "pages"
    /\ UNCHANGED <<crawl, maps, queue, current, table, rest, pending, late>>

Visit ==
    /\ pc = "visited" /\ current.depth < MaxDepth
    /\ fetchedAt' = [fetchedAt EXCEPT ![current.url] = current.depth]
    /\ pending' = Links(current.url)
    /\ pc' = "links"
    /\ UNCHANGED <<crawl, maps, queue, current, blocked, table, rest, errors, late>>

FollowLast ==                                                      \* mutant
    /\ pc = "links" /\ pending # <<>>
    /\ Add(Head(pending), current.depth + 1)
    /\ queue' = IF Kept(Head(pending)) /\ Head(pending) \notin Fetched
                THEN <<[url |-> Head(pending), depth |-> current.depth + 1]>> \o queue
                ELSE queue
    /\ pending' = Tail(pending)
    /\ UNCHANGED <<crawl, maps, current, fetchedAt, blocked, rest, pc, late>>

FollowLink ==
    /\ pc = "links" /\ pending # <<>>
    /\ Add(Head(pending), current.depth + 1)
    /\ queue' = IF Kept(Head(pending)) /\ Head(pending) \notin Fetched
                THEN Append(queue, [url |-> Head(pending), depth |-> current.depth + 1])
                ELSE queue
    /\ pending' = Tail(pending)
    /\ UNCHANGED <<crawl, maps, current, fetchedAt, blocked, rest, pc, late>>

LinksFollowed ==
    /\ pc = "links" /\ pending = <<>>
    /\ pc' = "pages"
    /\ UNCHANGED <<crawl, maps, frontier, table, rest, pending, errors, late>>

LeavePages ==
    /\ pc = "pages" /\ (late \/ ~MorePages)
    /\ errors' = errors
         \cup (IF late /\ MorePages THEN {"DISCOVERY_DEADLINE_EXCEEDED"} ELSE {})
         \cup (IF queue # <<>> /\ Cardinality(Fetched) >= MaxPages
               THEN {"PAGE_LIMIT_REACHED"} ELSE {})
    /\ pc' = "unvisited"
    /\ UNCHANGED <<crawl, maps, frontier, table, rest, pending, late>>

-----------------------------------------------------------------------------
(* What is reported.                                                        *)

\* The robots status of the eligible candidates that were never visited.
CheckUnvisited ==
    /\ pc = "unvisited"
    /\ page' = [u \in Urls |->
         IF ~Eligible(u) \/ page[u].robots # "unknown" THEN page[u]
         ELSE IF RobotsStatus(u) = "disallowed"
         THEN [page[u] EXCEPT !.robots = "disallowed", !.eligibility = "excluded",
                              !.exclusion = "robots_disallowed"]
         ELSE [page[u] EXCEPT !.robots = RobotsStatus(u)]]
    /\ merging' = order
    /\ pc' = "merge"
    /\ UNCHANGED <<crawl, maps, frontier, candidates, order, variants, capHit, refused,
                   outcome, pending, errors, late>>

AlwaysMergeable(u) == page[u].canonical \notin {"none", u}          \* mutant

Mergeable(u) ==
    /\ page[u].canonical \notin {"none", u}
    /\ page[u].canonical \in candidates

Merge ==
    /\ pc = "merge" /\ merging # <<>> /\ Mergeable(Head(merging))
    /\ LET u == Head(merging)  target == page[u].canonical
       IN /\ page' = [page EXCEPT ![target].depth = Min2(@, page[u].depth),
                                  ![target].canonical = target]
          /\ candidates' = candidates \ {u}
    /\ merging' = Tail(merging)
    /\ UNCHANGED <<crawl, maps, frontier, order, variants, capHit, refused, outcome, pc,
                   pending, errors, late>>

KeepApart ==
    /\ pc = "merge" /\ merging # <<>> /\ ~Mergeable(Head(merging))
    /\ merging' = Tail(merging)
    /\ UNCHANGED <<crawl, maps, frontier, table, outcome, pc, pending, errors, late>>

Queued == {queue[i].url : i \in DOMAIN queue}
Unprocessed == {u \in Queued \ Fetched : Eligible(u)}
QueueForgotten == Cardinality(blocked) + Len(sitemapQueue)          \* mutant
Remaining == Cardinality(Unprocessed) + Cardinality(blocked) + Len(sitemapQueue)

Bound ==
    CASE "DISCOVERY_DEADLINE_EXCEEDED" \in errors -> "job_deadline_seconds"
      [] capHit -> "max_discovered_urls"
      [] queue # <<>> /\ Cardinality(Fetched) >= MaxPages -> "max_html_pages"
      [] blocked # {} -> "max_crawl_depth"
      [] sitemapQueue # <<>> -> "max_sitemap_files"
      [] OTHER -> "none"

Finish ==
    /\ pc = "merge" /\ merging = <<>>
    /\ LET partial == Remaining > 0
           failed  == "DISCOVERY_PAGE_FETCH_FAILED" \in errors
       IN outcome' = [status |-> IF partial \/ failed THEN "partial" ELSE "completed",
                      bound  |-> IF partial THEN Bound ELSE "none",
                      remaining |-> Remaining]
    /\ pc' = "done"
    /\ UNCHANGED <<crawl, maps, frontier, table, merging, pending, errors, late>>

DeadlinePasses ==
    /\ ~late /\ pc \in {"sitemaps", "pages"}
    /\ late' = TRUE
    /\ UNCHANGED <<crawl, maps, frontier, table, rest, pc, pending, errors>>

-----------------------------------------------------------------------------
NoOutcome == [status |-> "running", bound |-> "none", remaining |-> 0]

Init ==
    /\ site \in Websites
    /\ pc = "start" /\ policy = "unread" /\ disallowed = {}
    /\ sitemapQueue = <<>> /\ seen = {}
    /\ candidates = {} /\ order = <<>> /\ page = [u \in Urls |-> Fresh(u, 0)]
    /\ variants = [p \in Paths |-> 0] /\ capHit = FALSE /\ errors = {}
    /\ queue = <<[url |-> Submitted, depth |-> 0]>>
    /\ current = [url |-> Submitted, depth |-> 0]
    /\ pending = <<>> /\ fetchedAt = [u \in Urls |-> -1] /\ blocked = {}
    /\ merging = <<>> /\ late = FALSE /\ outcome = NoOutcome /\ refused = {}

ReadSitemaps ==
    \/ SitemapMalformed \/ SitemapSeen \/ SitemapIgnored \/ SitemapFails
    \/ SitemapRead \/ LeaveSitemaps \/ AddEntry \/ EntriesAdded

VisitPage(u) ==
    \/ PageDisallowed(u) \/ PageFails(u) \/ PageRedirectsOutside(u)
    \/ PageUnusable(u) \/ PageRead(u)

WalkPages ==
    \/ SkipEntry \/ (\E u \in Urls : VisitPage(u))
    \/ NoCanonical \/ AddCanonical \/ Vouch \/ VisitAtLimit \/ Visit
    \/ FollowLink \/ LinksFollowed \/ LeavePages

Report == CheckUnvisited \/ Merge \/ KeepApart \/ Finish

Crawl == AddSubmitted \/ ReadRobots \/ ReadSitemaps \/ WalkPages \/ Report
Next == Crawl \/ DeadlinePasses

Spec == Init /\ [][Next]_vars
\* One thread runs the crawl from its start to its return.
FairSpec == Spec /\ WF_vars(Crawl)

-----------------------------------------------------------------------------
TypeOK ==
    /\ site \in Websites
    /\ pc \in {"start", "robots", "sitemaps", "entries", "rendered", "pages", "canonical",
               "vouch", "visited", "links", "unvisited", "merge", "done"}
    /\ policy \in Policies /\ disallowed \in SUBSET Urls
    /\ sitemapQueue \in Seq([map: Sitemaps \cup {Malformed}, depth: Nat])
    /\ seen \in SUBSET Sitemaps
    /\ candidates \in SUBSET Urls /\ order \in Seq(Urls) /\ page \in [Urls -> Page]
    /\ variants \in [Paths -> Nat] /\ capHit \in BOOLEAN /\ errors \in SUBSET Codes
    /\ queue \in Seq([url: Urls, depth: Nat]) /\ current \in [url: Urls, depth: Nat]
    /\ pending \in Seq(Urls \cup {Malformed}) /\ fetchedAt \in [Urls -> Nat \cup {-1}]
    /\ blocked \in SUBSET Urls /\ merging \in Seq(Urls) /\ late \in BOOLEAN
    /\ refused \in SUBSET Urls
    /\ outcome \in [status: {"running", "partial", "completed"}, remaining: Nat,
                    bound: {"none", "job_deadline_seconds", "max_discovered_urls",
                            "max_html_pages", "max_crawl_depth", "max_sitemap_files"}]

Linked(v, u) == \E i \in DOMAIN Links(v) : Links(v)[i] = u

\* Only pages the crawl may visit are visited: never an external page or one that
\* robots.txt disallows, a page of another subdomain only when a visited page names
\* it as canonical, and of the others neither an asset nor a destructive path.
FetchedInScope ==
    \A u \in Fetched :
       /\ Relation[u] # "external" /\ u \notin disallowed
       /\ IF Relation[u] = "same_domain" THEN \E v \in Fetched : site.canonical[v] = u
          ELSE u \notin Assets \cup Unsafe

\* The frontier is breadth first: a page is visited at one more than the depth of a
\* page that links to it, and no page that links to it is nearer to the start.
BreadthFirst ==
    \A u \in Fetched : Relation[u] # "same_domain" =>
       /\ u # Submitted => \E v \in Fetched : Linked(v, u) /\ fetchedAt[u] = fetchedAt[v] + 1
       /\ \A v \in Fetched : Linked(v, u) => fetchedAt[u] <= fetchedAt[v] + 1

\* What holds of every visit: the types, the scope and the order.
VisitsAreLawful == TypeOK /\ FetchedInScope /\ BreadthFirst

\* A crawl that reports completed followed every link it saw: each goes to a page
\* that was visited, that may not be, that a limit refused, or that became eligible
\* only because a page named it as canonical. At the last depth no link is followed,
\* so there every page in scope was known already.
CompletedIsExhausted ==
    outcome.status = "completed" =>
       \A v \in Fetched, u \in Urls : Linked(v, u) =>
          \/ u \in Fetched \cup refused
          \/ page[u].eligibility # "eligible" \/ page[u].verified
          \/ /\ fetchedAt[v] = MaxDepth
             /\ External(u) \/ u \in Unsafe \/ \E i \in DOMAIN order : order[i] = u

\* No visited page is lost when pages are merged: it is reported itself, or the page
\* it names as canonical is.
MergedIntoSurvivor ==
    pc = "done" => \A u \in Fetched : u \in candidates \/ page[u].canonical \in candidates

\* The crawl ends, whatever links to what.
CrawlEnds == <>(pc = "done")

\* What the reason of a completed crawl says: all unique in-scope candidates were
\* processed. The limit on discovered URLs drops some that nothing counts.
NothingDropped ==
    outcome.status = "completed" => \A u \in refused : Exclusion(u) # "none"
=============================================================================
