-------------------------- MODULE BrowserCompatibility --------------------------
(***************************************************************************)
(* The cross-browser stage of an analysis (browser_compatibility.py and     *)
(* collect_real_browser_compatibility): every selected page is opened in     *)
(* every engine at every viewport, one after the other, by browsers that are *)
(* launched once and kept; the progress is published after each opening; at  *)
(* the end each page has a verdict for each engine and one over all. A       *)
(* report may be made at any time, from what has been published, and says of *)
(* the branded browsers only what the Tier 0 checks of the run have shown.   *)
(***************************************************************************)
EXTENDS Integers, Sequences, FiniteSets

CONSTANTS
    PageLists,          \* the sets of pages the stage may be given
    Address,            \* of a page, the address it ended at
    Excluded, Critical, \* pages by status, by type or depth
    UrlRank, ShaRank,   \* the order of addresses, and that of their hashes
    Driven, Viewports,  \* the engines and the viewports, in order
    Sights,             \* what opening a page may show
    AllPagesLimit, SampleSize, Threshold,   \* the last in percent
    Evidences,          \* what Tier 0 may have shown when the report is made
    Scope,              \* of a branded browser: channel, platforms and engine
    KnownPlatforms,
    Nothing

Range2(s) == {s[i] : i \in DOMAIN s}
AddressesOf(S) == {Address[x] : x \in S}

\* An observation: its state; whether an assertion failed; whether anything else was
\* remarked; how long it took; how many entries the navigation shows, and its toggle.
Unavailable == [state |-> "unavailable", fails |-> FALSE, warns |-> FALSE, ms |-> Nothing,
                items |-> Nothing, toggle |-> Nothing]

ASSUME BrowserCompatibilityAssumption ==
    /\ \A S \in PageLists :
          /\ IsFiniteSet(S) /\ S \subseteq DOMAIN Address
          /\ Cardinality(S \ Excluded) > AllPagesLimit =>
                Cardinality(AddressesOf(S \ Excluded)) = Cardinality(S \ Excluded)
    /\ Nothing \notin Seq(UNION PageLists)
    /\ AllPagesLimit \in Nat /\ SampleSize \in Nat \ {0} /\ Threshold \in Nat
    /\ Driven \in Seq(Range2(Driven)) \ {<< >>} /\ Viewports \in Seq(Range2(Viewports)) \ {<< >>}
    \* To open a page takes time.
    /\ \A S \in PageLists : \A x \in S : \A sight \in Sights[x] :
          /\ DOMAIN sight = DOMAIN Unavailable
          /\ sight.state \in {"tested", "inconclusive", "unavailable"} /\ sight.fails \in BOOLEAN
          /\ sight.ms # Nothing => sight.ms \in Nat \ {0}
    \* A browser's Tier 0 results on known platforms are of those it requires: no job of the
    \* workflow runs it on another.
    /\ DOMAIN Scope # {}
    /\ \A b \in DOMAIN Scope : /\ Scope[b].engine \in Range2(Driven)
                               /\ IsFiniteSet(Scope[b].platforms) /\ Scope[b].platforms # {}
                               /\ Scope[b].platforms \subseteq KnownPlatforms
    /\ \A found \in Evidences :
          /\ IsFiniteSet(DOMAIN found)
          /\ \A r \in DOMAIN found, b \in DOMAIN Scope :
                r.channel = Scope[b].channel /\ r.platform \in KnownPlatforms =>
                   r.platform \in Scope[b].platforms

VARIABLES
    offered,    \* the pages the stage was given
    chosen,     \* the selected ones, in the order they are opened
    browser,    \* of an engine: not launched, launched, or launched and dead
    shown,      \* the observations, in the order they were made
    published,  \* the counters of each engine, as the report reads them
    verdicts,   \* the matrix
    tier0Results    \* the Tier 0 results of the run, by channel, platform and page

compatVars == <<offered, chosen, browser, shown, published, verdicts, tier0Results>>

-----------------------------------------------------------------------------
(* Which pages.                                                             *)

\* The n members of S that come first by their addresses' rank.
Least(n, S, rank) ==
    {x \in S : Cardinality({y \in S : rank[Address[y]] < rank[Address[x]]}) < n}

\* All of them; beyond the limit a sample that takes critical pages first.
Selection(S) ==
    LET eligible == S \ Excluded
        critical == Least(SampleSize, eligible \cap Critical, UrlRank)
    IN IF Cardinality(eligible) <= AllPagesLimit THEN eligible
       ELSE critical \cup Least(SampleSize - Cardinality(critical), eligible \ critical, ShaRank)

InOrder(S, s) ==
    /\ DOMAIN s = 1..Cardinality(S) /\ Range2(s) = S
    /\ \A i, j \in DOMAIN s : i < j => UrlRank[Address[s[i]]] <= UrlRank[Address[s[j]]]

-----------------------------------------------------------------------------
(* Opening them.                                                            *)

\* The place of the next opening: page by page, engine by engine, viewport by viewport.
PerPage == Len(Driven) * Len(Viewports)
NextPage == chosen[1 + (Len(shown) \div PerPage)]
NextEngine == Driven[1 + ((Len(shown) % PerPage) \div Len(Viewports))]
NextViewport == Viewports[1 + (Len(shown) % Len(Viewports))]
Opening == chosen # Nothing /\ Len(shown) < Len(chosen) * PerPage

OfEngine(log, e) == {i \in DOMAIN log : log[i].engine = e}
WasTested(o) == o.state # "unavailable"

\* _browser_engine_progress: before the matrix is there, no page has a verdict.
Counted(log, matrix, e, eligible) ==
    LET mine == OfEngine(log, e)
        attempted == {log[i].url : i \in mine}
        With(v) == Cardinality({i \in DOMAIN matrix : matrix[i].engines[e] = v})
    IN [eligible |-> eligible, attempted |-> Cardinality(attempted),
        queued |-> eligible - Cardinality(attempted),
        tested |-> Cardinality({log[i].url : i \in {i \in mine : WasTested(log[i])}}),
        passed |-> With("compatible"), partial |-> With("partially_compatible"),
        failed |-> With("incompatible"),
        inconclusive |-> With("inconclusive") + With("not_tested"),
        unavailable |-> With("unavailable")]

Select ==
    /\ chosen = Nothing
    /\ \E s \in [1..Cardinality(Selection(offered)) -> Selection(offered)] :
          InOrder(Selection(offered), s) /\ chosen' = s
    /\ published' = [e \in Range2(Driven) |-> Counted(<< >>, << >>, e, Cardinality(offered))]
    /\ UNCHANGED <<offered, browser, shown, verdicts, tier0Results>>

\* What an opening has shown, with where it was.
Shown(sight) ==
    [url |-> Address[NextPage], engine |-> NextEngine, viewport |-> NextViewport,
     state |-> sight.state, fails |-> sight.fails, warns |-> sight.warns, ms |-> sight.ms,
     items |-> sight.items, toggle |-> sight.toggle]

Record(sight) ==
    /\ shown' = Append(shown, Shown(sight))
    /\ published' = [e \in Range2(Driven) |-> Counted(shown', << >>, e, Cardinality(offered))]
    /\ UNCHANGED <<offered, chosen, verdicts, tier0Results>>

\* A browser is launched when first needed, and again if that failed.
LaunchFails ==
    /\ Opening /\ browser[NextEngine] = "none"
    /\ Record(Unavailable) /\ UNCHANGED browser

Open ==
    /\ Opening /\ browser[NextEngine] # "dead"
    /\ browser' = [browser EXCEPT ![NextEngine] = "up"]
    /\ \E sight \in Sights[NextPage] : Record(sight)

BrowserDies ==
    /\ Opening /\ browser[NextEngine] # "dead"
    /\ browser' = [browser EXCEPT ![NextEngine] = "dead"]
    /\ Record(Unavailable)

\* A browser that has died is still the one that is kept.
OpenInDead ==
    /\ Opening /\ browser[NextEngine] = "dead"
    /\ Record(Unavailable) /\ UNCHANGED browser

-----------------------------------------------------------------------------
(* Verdicts. A timeout is an observation that failed and is inconclusive.   *)

Works(o) == o.state = "tested" /\ ~o.fails
Fails(o) == WasTested(o) /\ (o.fails \/ o.state = "inconclusive")

\* "some" are places of the log: those of a page, or of a page in an engine.
Timed(log, some) == {log[i].ms : i \in {i \in some : WasTested(log[i]) /\ log[i].ms # Nothing}}

Varies(log, some) ==
    \E a, b \in Timed(log, some) :
        /\ \A c \in Timed(log, some) : a <= c /\ c <= b
        /\ a > 0 /\ (b - a) * 100 > Threshold * a

Remarked(log, some) ==
    IF Varies(log, some) \/ \E i \in some : WasTested(log[i]) /\ log[i].warns
    THEN "partially_compatible" ELSE "compatible"

AnyFailure(log, some) ==                                           \* mutant
    CASE some = {} -> "not_tested"
      [] \A i \in some : ~WasTested(log[i]) -> "unavailable"
      [] \E i \in some : Fails(log[i]) -> "incompatible"
      [] OTHER -> Remarked(log, some)

Classify(log, some) ==
    IF some = {} THEN "not_tested"
    ELSE IF \A i \in some : ~WasTested(log[i]) THEN "unavailable"
    ELSE IF \E i \in some : log[i].state = "inconclusive" THEN "inconclusive"
    ELSE IF \E i \in some : Fails(log[i])
         THEN IF \E i \in some : Works(log[i]) THEN "incompatible" ELSE "inconclusive"
    ELSE Remarked(log, some)

\* What no engine could be blamed for is an engine's fault if another one works; here an
\* opening that was not possible counts as a failure too.
EngineVerdict(log, some, e) ==
    LET own == Classify(log, {i \in some : log[i].engine = e}) IN
    IF own = "inconclusive" /\ \E i \in some : log[i].engine # e /\ Works(log[i])
    THEN "incompatible" ELSE own

\* Whether the navigation adapts: a toggle on the mobile viewport, or fewer entries.
Adapts(log, some, e) ==
    LET At(v) == {i \in some : log[i].engine = e /\ log[i].viewport = v}
        Last(v) == log[CHOOSE i \in At(v) : \A j \in At(v) : j <= i]
    IN IF \/ At("Desktop") = {} \/ At("Mobile") = {}
          \/ Nothing \in {Last("Desktop").items, Last("Mobile").items, Last("Mobile").toggle}
       THEN Nothing
       ELSE Last("Mobile").toggle \/ Last("Mobile").items < Last("Desktop").items

Log(url) == {i \in DOMAIN shown : shown[i].url = url}
Row(x) ==
    [url |-> Address[x],
     engines |-> [e \in Range2(Driven) |-> EngineVerdict(shown, Log(Address[x]), e)],
     adapts |-> [e \in Range2(Driven) |-> Adapts(shown, Log(Address[x]), e)],
     result |-> Classify(shown, Log(Address[x]))]

Conclude ==
    /\ chosen # Nothing /\ ~Opening /\ verdicts = Nothing
    /\ verdicts' = [i \in DOMAIN chosen |-> Row(chosen[i])]
    /\ published' = [e \in Range2(Driven) |-> Counted(shown, verdicts', e, Len(chosen))]
    /\ UNCHANGED <<offered, chosen, browser, shown, tier0Results>>

-----------------------------------------------------------------------------
(* The branded browsers.                                                    *)

\* The page results of a browser's channel, on the platforms that are known.
Results(b) == {r \in DOMAIN tier0Results : r.channel = Scope[b].channel /\ r.platform \in KnownPlatforms}
Passed(rows) == {r \in rows : tier0Results[r] = "pass"}
OnPlatform(rows, p) == {r \in rows : r.platform = p}

\* What the engines alone say of a branded browser.
UnverifiedRow(b, counters) ==
    LET counter == counters[Scope[b].engine] IN
    [state |-> "NOT_VERIFIED", passed |-> 0, failed |-> 0, untested |-> counter.eligible,
     source |-> IF counter.tested > 0 THEN "engine" ELSE "none"]

BrandedRow(b, counters) ==
    LET rows     == Results(b)
        eligible == counters[Scope[b].engine].eligible
        clean    == {p \in {r.platform : r \in rows} : OnPlatform(rows, p) = Passed(OnPlatform(rows, p))}
    IN IF rows = {} THEN UnverifiedRow(b, counters)
       ELSE [state |-> IF Cardinality(clean) = Cardinality(Scope[b].platforms)
                       THEN "VERIFIED" ELSE "PARTIALLY_VERIFIED",
             passed |-> Cardinality(Passed(rows)), failed |-> Cardinality(rows \ Passed(rows)),
             untested |-> IF Cardinality(rows) > eligible THEN 0 ELSE eligible - Cardinality(rows),
             source |-> "tier0"]

Completion(matrix) ==
    LET With(s) == {b \in DOMAIN matrix : matrix[b].state = s} IN
    IF DOMAIN matrix # {} /\ With("VERIFIED") = DOMAIN matrix THEN "complete"
    ELSE IF With("VERIFIED") \cup With("PARTIALLY_VERIFIED") # {} THEN "partially_verified"
    ELSE "not_verified"

\* What a report says at any moment: it reads what is published.
Branded == [b \in DOMAIN Scope |-> BrandedRow(b, published)]

-----------------------------------------------------------------------------
CompatWith(starts) ==
    /\ \E start \in starts : offered = start.pages /\ tier0Results = start.evidence
    /\ chosen = Nothing /\ browser = [e \in Range2(Driven) |-> "none"] /\ shown = << >>
    /\ published = [e \in Range2(Driven) |-> Counted(<< >>, << >>, e, 0)]
    /\ verdicts = Nothing

CompatInit == CompatWith([pages: PageLists, evidence: Evidences])

CompatNext ==
    Select \/ LaunchFails \/ Open \/ BrowserDies \/ OpenInDead \/ Conclude

CompatSpec == CompatInit /\ [][CompatNext]_compatVars
-----------------------------------------------------------------------------
Distinct == Cardinality(AddressesOf(Range2(chosen))) = Len(chosen)

\* A verdict of the matrix is earned by what was observed: an engine is good only if
\* nothing that could be opened in it failed, incompatible only if something did while
\* the page worked elsewhere or at another viewport, and unavailable only if nothing
\* could be opened; the verdict over all never says better than the engines.
VerdictsAreObserved ==
    verdicts # Nothing => \A i \in DOMAIN verdicts : LET row == verdicts[i] IN
        /\ \A e \in Range2(Driven) :
              LET mine == {j \in Log(row.url) : shown[j].engine = e}  v == row.engines[e] IN
              /\ v \in {"compatible", "partially_compatible"} =>
                    \A j \in mine : WasTested(shown[j]) => Works(shown[j])
              /\ v = "incompatible" => /\ \E j \in mine : Fails(shown[j])
                                       /\ \E j \in Log(row.url) : Works(shown[j])
              /\ v = "unavailable" <=> \A j \in mine : ~WasTested(shown[j])
              /\ row.result \in {"compatible", "partially_compatible"} =>
                    v \in {"compatible", "partially_compatible", "unavailable"}
              /\ row.result = "compatible" => v \in {"compatible", "unavailable"}
        /\ row.result = "incompatible" => \E e \in Range2(Driven) : row.engines[e] = "incompatible"

\* The counters add up at every moment, and at the end count each page once, unless two
\* pages ended at one address or a page was left out after the stage had counted it.
CountersAddUp ==
    \A e \in DOMAIN published : LET c == published[e] IN
        /\ c.attempted + c.queued = c.eligible /\ c.tested <= c.attempted
        /\ verdicts # Nothing =>
              /\ c.passed + c.partial + c.failed + c.inconclusive + c.unavailable = c.eligible
              /\ Distinct => c.queued = 0 /\ c.tested = c.eligible - c.unavailable

\* What engines did never verifies a branded browser: it is verified only by results on
\* every platform it requires, none of which failed, and the whole only with each.
VerifiedIsEarned ==
    LET Verified(b) == Branded[b].state = "VERIFIED" IN
    /\ \A b \in DOMAIN Scope : Verified(b) =>
          \A p \in Scope[b].platforms :
             LET rows == {r \in DOMAIN tier0Results : r.channel = Scope[b].channel /\ r.platform = p}
             IN rows # {} /\ \A r \in rows : tier0Results[r] = "pass"
    /\ Completion(Branded) = "complete" <=> \A b \in DOMAIN Scope : Verified(b)
    /\ DOMAIN tier0Results = {} => Completion(Branded) = "not_verified"

\* Property (browser_compatibility.py:306-400, 402-500, 598-720, real_analysis.py:377-410):
\* what the stage and the report conclude from what browsers showed.
MatrixIsEarned == VerdictsAreObserved /\ CountersAddUp /\ VerifiedIsEarned

\* Not kept by the code: the pages of a branded row add up to the eligible ones. A page is
\* counted once for each platform.
BrandedPagesAddUp ==
    \A b \in DOMAIN Scope : LET row == Branded[b] IN
        row.passed + row.failed + row.untested = published[Scope[b].engine].eligible

\* Not kept by the code: an engine that is not at fault is tried again on the next page. A
\* browser that died is kept, and nothing more is opened in it.
EnginesRecover ==
    \A i, j \in DOMAIN shown :
        /\ i < j /\ shown[i].engine = shown[j].engine /\ shown[i].url # shown[j].url
        /\ browser[shown[i].engine] = "dead"
        => WasTested(shown[j])
=============================================================================
