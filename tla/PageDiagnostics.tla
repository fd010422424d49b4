---------------------------- MODULE PageDiagnostics ----------------------------
(***************************************************************************)
(* What the worker makes of a page it has loaded in Chromium (analysis/      *)
(* diagnostics.py, findings.py, and the failed requests of                   *)
(* playwright_audit.py), and how the results of several pages are summed up. *)
(* The same facts are judged by several functions: two security scores, two  *)
(* header matrices, the findings, the standards check and the viewports. A   *)
(* page is what the browser stored of it; texts, addresses and dates are the *)
(* classes the code distinguishes, rounded percentages are left out.         *)
(***************************************************************************)
EXTENDS Integers, Sequences, FiniteSets
LOCAL INSTANCE SequencesExt
LOCAL INSTANCE FiniteSetsExt
LOCAL INSTANCE TLC

CONSTANTS
    Inspected,  \* the sites, each a sequence of pages
    IssueLimit, \* the setting diagnostic_evidence_limit
    Unseen      \* what a page does not have or nobody has measured

ASSUME ChecksAssumption == IssueLimit \in Nat \ {0}

\* Minimal number of seconds of HSTS, size of a target and the like are in the classes: a
\* header is "absent", "empty", "right" or "wrong" (a short max-age, another word than nosniff).
VARIABLES inspected, checked

checkVars == <<inspected, checked>>

Given(p, h) == p.header[h] \in {"right", "wrong"}
AtMost(s, n) == SubSeq(s, 1, IF Len(s) < n THEN Len(s) ELSE n)
Copies(n, x) == [k \in 1..n |-> x]
When(condition, x) == IF condition THEN <<x>> ELSE << >>
True(flags) == {f \in DOMAIN flags : flags[f]}

\* A score starts at 100 and never falls below 0.
FinalScore(deducted) == IF deducted > 100 THEN 0 ELSE 100 - deducted
Group(status, unavailable, score) == [status |-> status, unavailable |-> unavailable, score |-> score]

-----------------------------------------------------------------------------
(* What is asked of the site besides, while there is time. The time of an    *)
(* analysis is "enough", is "spent" on these questions or was "gone" before. *)

Asked(p) == p.https /\ p.time # "gone"
TlsSeen(p) == Asked(p) /\ p.tls
Redirect(p) == IF Asked(p) THEN p.redirect ELSE Unseen

-----------------------------------------------------------------------------
(* Security: the score of the diagnostics and the score of the risk.        *)

CspControls == {"default-src", "script-src", "style-src"}
CspHardening == {"object-src", "base-uri", "frame-ancestors"}

CspQuality(p) ==
    LET names == p.csp.directives
        broad == \/ p.csp.sources \cap {"wildcard", "eval"} # {}
                 \/ "inline" \in p.csp.sources /\ "nonce" \notin p.csp.sources
        controlled == names \cap CspControls # {}
        risky == p.csp.sources \cap {"wildcard", "inline", "eval"} # {} \/ ~controlled
        whole == \/ "default-src" \in names
                 \/ {"script-src", "style-src"} \subseteq names
    IN IF ~Given(p, "csp") THEN "absent"
       ELSE IF names = {"upgrade-insecure-requests"} THEN "upgrade_only"
       ELSE IF broad THEN "weak"
       ELSE IF whole /\ CspHardening \subseteq names /\ ~risky THEN "strong"
       ELSE IF controlled THEN "moderate" ELSE "weak"

FramedByCsp(p) == Given(p, "csp") /\ "frame-ancestors" \in p.csp.directives
SaysServer(p) == Given(p, "server") \/ Given(p, "powered")

SecurityPoints ==
    [csp_missing |-> 20, csp_weak |-> 10, hsts_missing |-> 15, hsts_short |-> 7, frame |-> 10,
     sniffing |-> 10, mixed |-> 20, server |-> 5]
SecurityDefects(p) ==
    True([csp_missing  |-> ~Given(p, "csp"),
          csp_weak     |-> CspQuality(p) \in {"upgrade_only", "weak"},
          hsts_missing |-> p.https /\ ~Given(p, "hsts"),
          hsts_short   |-> p.https /\ p.header["hsts"] = "wrong",
          frame        |-> ~Given(p, "frame") /\ ~FramedByCsp(p),
          sniffing     |-> p.header["sniff"] # "right",
          mixed        |-> p.mixed > 0,
          server       |-> SaysServer(p)])
SecurityScore(p) == FinalScore(MapThenSumSet(LAMBDA d : SecurityPoints[d], SecurityDefects(p)))

RiskPoints ==
    [https |-> 25, hsts_missing |-> 10, hsts_short |-> 5, redirect |-> 5, csp_missing |-> 15,
     csp_weak |-> 8, frame |-> 8, sniffing |-> 8, referrer |-> 5, permissions |-> 5,
     opener |-> 4, resource |-> 4, mixed |-> 15, server |-> 5]
RiskDefects(p) ==
    True([https        |-> ~p.https,
          hsts_missing |-> ~Given(p, "hsts") /\ p.https,
          hsts_short   |-> p.header["hsts"] = "wrong" /\ p.https,
          redirect     |-> Redirect(p) = "stays" /\ p.https,
          csp_missing  |-> ~Given(p, "csp"),
          csp_weak     |-> Given(p, "csp") /\ CspQuality(p) \in {"weak", "upgrade_only"},
          frame        |-> ~Given(p, "frame") /\ ~FramedByCsp(p),
          sniffing     |-> ~Given(p, "sniff") \/ p.header["sniff"] = "wrong",
          referrer     |-> ~Given(p, "referrer"),
          permissions  |-> ~Given(p, "permissions"),
          opener       |-> ~Given(p, "opener"),
          resource     |-> ~Given(p, "resource"),
          mixed        |-> p.mixed > 0,
          server       |-> SaysServer(p)])
RiskScore(p) == FinalScore(MapThenSumSet(LAMBDA d : RiskPoints[d], RiskDefects(p)))

RiskChecks == 12
ChecksMade(p) ==
    10 + Cardinality({q \in {"redirect"} : Redirect(p) # Unseen})
       + Cardinality({q \in {"server"} : p.header["server"] # "absent" \/ p.header["powered"] # "absent"})

RiskBand(score) ==
    IF score >= 90 THEN "strong" ELSE IF score >= 75 THEN "good"
    ELSE IF score >= 50 THEN "needs_attention" ELSE IF score >= 25 THEN "weak"
    ELSE "high_observable_risk"

GradeBands ==
    << <<100, "A+">>, <<90, "A">>, <<85, "A-">>, <<80, "B+">>, <<70, "B">>, <<65, "B-">>, <<60, "C+">>,
      <<50, "C">>, <<45, "C-">>, <<40, "D+">>, <<30, "D">>, <<25, "D-">>, <<0, "F">> >>
SecurityGrade(score) ==
    GradeBands[Min({k \in DOMAIN GradeBands : score - (score % 5) >= GradeBands[k][1]})][2]

\* Of the scores of a site: the pages that need attention, and twice the median.
RiskSummary ==
    LET scores == SortSeq([i \in DOMAIN inspected |-> RiskScore(inspected[i])], <)
        n == Len(scores)
    IN [attention |-> {i \in DOMAIN inspected : RiskScore(inspected[i]) < 75},
        median |-> scores[(n + 1) \div 2] + scores[n \div 2 + 1],
        weaknesses |-> [d \in DOMAIN RiskPoints |->
                           Cardinality({i \in DOMAIN inspected : d \in RiskDefects(inspected[i])})]]

SecurityGroup(p) ==
    LET unavailable == {q \in {"tls_metadata"} : p.https /\ ~TlsSeen(p)}
    IN Group(IF unavailable = {} THEN "available" ELSE "partial", unavailable, SecurityScore(p))

\* The headers of the matrix. A page is judged alone and, by another function, with others.
MatrixHeaders == {"hsts", "csp", "sniff", "referrer", "permissions", "frame", "opener", "resource"}
FramedElsewhere(p, h) == h = "frame" /\ ~Given(p, h) /\ FramedByCsp(p)

HeaderStatus(p, h) ==
    IF h = "sniff" /\ p.header[h] = "wrong" THEN "malformed"
    ELSE IF FramedElsewhere(p, h) THEN "not_applicable"
    ELSE IF p.header[h] = "absent" THEN "missing" ELSE "present"
\* A page framed by its policy is counted as one without protection.
WithoutPolicy(p, h) == \* mutant
    IF p.header[h] = "absent" THEN "missing"
    ELSE IF h = "sniff" /\ p.header[h] # "right" THEN "malformed" ELSE "present"
ClassifiedHeader(p, h) ==
    IF FramedElsewhere(p, h) THEN "not_applicable"
    ELSE IF p.header[h] = "absent" THEN "missing"
    ELSE IF h = "sniff" /\ p.header[h] # "right" THEN "malformed" ELSE "present"

PagesClassified(h, status) == {i \in DOMAIN inspected : ClassifiedHeader(inspected[i], h) = status}
HeaderConsistency(h) ==
    IF inspected = << >> THEN "insufficient_evidence"
    ELSE IF PagesClassified(h, "malformed") # {} THEN "malformed"
    ELSE IF PagesClassified(h, "present") \cup PagesClassified(h, "not_applicable") = DOMAIN inspected
         THEN "consistent_present"
    ELSE IF PagesClassified(h, "missing") = DOMAIN inspected THEN "consistently_missing"
    ELSE "inconsistent"
HeaderSummary(h) ==
    [present   |-> Cardinality(PagesClassified(h, "present")),
     missing   |-> Cardinality(PagesClassified(h, "missing")),
     malformed |-> Cardinality(PagesClassified(h, "malformed")),
     consistency |-> HeaderConsistency(h)]

-----------------------------------------------------------------------------
(* The document. A browser and a parser read the same one: the browser takes *)
(* the first title, canonical and viewport, and an empty one for none.       *)

FirstDeclared(declared) == IF declared = << >> THEN "absent" ELSE declared[1]
Declares(declared) == FirstDeclared(declared) \notin {"absent", "empty"}
ViewportMeta(p) == Declares(p.dom.viewports)

-----------------------------------------------------------------------------
(* Viewports. One is [name, passed, overflow, taps], a tap [key, spaced].    *)

Failed(views) == SelectSeq(views, LAMBDA v : ~v.passed)
Overflowing(views) == SelectSeq(views, LAMBDA v : v.overflow)
Passing(views) == SelectSeq(views, LAMBDA v : v.passed)

ResponsivePoints(p) ==
    20 * Len(Failed(p.views)) + 10 * Len(Overflowing(Passing(p.views)))
    + (IF ViewportMeta(p) THEN 0 ELSE 15)
ResponsiveGroup(p) ==
    LET unavailable == {v.name : v \in Range(Failed(p.views))}
                       \cup {q \in {"tap_target_measurements"} : p.views = << >>}
    IN Group(IF p.views # << >> /\ Len(Passing(p.views)) = Len(p.views) THEN "available" ELSE "partial",
             unavailable, FinalScore(ResponsivePoints(p)))

\* A small target is judged by the first sample that looks like it in the viewport.
Samples(p) ==
    FlattenSeq([k \in DOMAIN p.views |->
        [t \in DOMAIN p.views[k].taps |->
            [key |-> <<p.views[k].name, p.views[k].taps[t].key>>, spaced |-> p.views[k].taps[t].spaced]]])
FirstSamples(p) ==
    {k \in DOMAIN Samples(p) : \A n \in 1..(k - 1) : Samples(p)[n].key # Samples(p)[k].key}
ConfirmedTaps(p) == {Samples(p)[k].key : k \in {k \in FirstSamples(p) : ~Samples(p)[k].spaced}}
InformationalTaps(p) == {Samples(p)[k].key : k \in {k \in FirstSamples(p) : Samples(p)[k].spaced}}

PageFit(p) ==
    IF p.views = << >> THEN "unavailable"
    ELSE IF Len(Passing(p.views)) = Len(p.views) /\ Overflowing(p.views) = << >> THEN "responsive"
    ELSE IF Len(Failed(p.views)) = Len(p.views) THEN "not_responsive"
    ELSE "partially_responsive"
PagesFit(fit) == {i \in DOMAIN inspected : PageFit(inspected[i]) = fit}
TestedPages == DOMAIN inspected \ PagesFit("unavailable")
SiteFit ==
    IF TestedPages = {} THEN "unavailable"
    ELSE IF PagesFit("responsive") = TestedPages THEN "responsive"
    ELSE IF PagesFit("responsive") # {} THEN "partially_responsive"
    ELSE IF PagesFit("not_responsive") # {} THEN "not_responsive" ELSE "inconclusive"

\* One engine is tested: it loaded the page.
ChromiumResult(p) ==
    IF Overflowing(p.views) # << >> \/ p.scriptErrors THEN "passed_with_warnings" ELSE "passed"

-----------------------------------------------------------------------------
(* Markup: an external validator, and the structural checks of the service.  *)

\* The validator answers with messages, each of a type, or not at all.
ValidatorGroup(p) ==
    LET errors == Len(SelectSeq(p.messages, LAMBDA t : t = "error"))
        warnings == Len(SelectSeq(p.messages, LAMBDA t : t \in {"info", "warning"}))
    IN IF p.time # "enough" THEN Group("unavailable", {"validation_disabled"}, Unseen)
       ELSE IF p.messages = Unseen THEN Group("unavailable", {"validator_unavailable"}, Unseen)
       ELSE Group("available", {}, FinalScore((IF 5 * errors > 75 THEN 75 ELSE 5 * errors)
                                              + (IF warnings > 25 THEN 25 ELSE warnings)))

Issue(code, severity, count) == [code |-> code, severity |-> severity, count |-> count]
Single(code, severity) == Issue(code, severity, 1)

ParserErrors(d) == AtMost(Copies(d.slips, Single("HTML_PARSE_ERROR", "error")), 20)
DuplicateIds(d) ==
    LET twice == SelectSeq(d.ids, LAMBDA n : n > 1)
    IN AtMost([k \in DOMAIN twice |-> Issue("DUPLICATE_ID", "error", twice[k])], 30)
Language(d) ==
    When(d.lang = "absent", Single("MISSING_LANG", "warning"))
    \o When(d.lang = "wrong", Single("INVALID_LANG", "warning"))
Titles(d) ==
    When(d.titles = << >>, Single("MISSING_TITLE", "error"))
    \o When(Len(d.titles) > 1, Single("DUPLICATE_TITLE", "warning"))
    \o When(FirstDeclared(d.titles) = "empty", Single("EMPTY_TITLE", "error"))
HeadingOrder(d) ==
    LET skips == SelectSeq([k \in 1..Len(d.headings) |-> k],
                           LAMBDA k : k > 1 /\ d.headings[k] > d.headings[k - 1] + 1)
    IN AtMost(When(d.headings # << >> /\ d.headings[1] # 1, Single("HEADING_NOT_START_H1", "warning"))
              \o Copies(Len(skips), Single("HEADING_SKIP_LEVEL", "warning")), 10)
Deprecated(d) ==
    AtMost([k \in DOMAIN d.deprecated |-> Issue("DEPRECATED_ELEMENT", "warning", d.deprecated[k])], 20)
Metas(d) ==
    AtMost(Copies(d.blankMetas, Single("META_HTTPEQUIV_NO_CONTENT", "warning"))
           \o Copies(d.twiceMetas, Single("DUPLICATE_META", "warning"))
           \o When(d.charsets > 1, Single("DUPLICATE_CHARSET", "warning")), 15)
CanonicalLinks(d) ==
    When(Len(d.canonicals) > 1, Single("DUPLICATE_CANONICAL", "error"))
    \o When(d.canonicals = <<"empty">>, Single("EMPTY_CANONICAL", "error"))
ViewportDirectives(d) ==
    When(d.viewports = << >>, Single("MISSING_VIEWPORT", "warning"))
    \o When(FirstDeclared(d.viewports) = "empty", Single("EMPTY_VIEWPORT", "error"))
    \o When(FirstDeclared(d.viewports) = "malformed", Single("MALFORMED_VIEWPORT_DIRECTIVE", "warning"))
    \o When(FirstDeclared(d.viewports) = "unknown", Single("UNKNOWN_VIEWPORT_KEY", "warning"))
EmptyLinks(d) ==
    When(d.emptyHrefs > 0, Issue("EMPTY_HREF", "warning", d.emptyHrefs))
    \o When(d.emptySources > 0, Issue("EMPTY_SRC", "warning", d.emptySources))

IssuesOf(d) ==
    ParserErrors(d) \o DuplicateIds(d) \o Language(d) \o Titles(d) \o HeadingOrder(d) \o Deprecated(d)
    \o Metas(d) \o CanonicalLinks(d) \o ViewportDirectives(d) \o EmptyLinks(d)

FixedPoints ==
    [MISSING_TITLE |-> 10, EMPTY_TITLE |-> 10, DUPLICATE_CANONICAL |-> 10, HTML_PARSE_ERROR |-> 3,
     MISSING_LANG |-> 5, MISSING_VIEWPORT |-> 5, HEADING_SKIP_LEVEL |-> 2]
IssuePoints(i) ==
    IF i.code = "DUPLICATE_ID" THEN 5 * i.count
    ELSE IF i.code = "DEPRECATED_ELEMENT" THEN 2 * i.count
    ELSE IF i.code \in DOMAIN FixedPoints THEN FixedPoints[i.code]
    ELSE IF i.severity = "error" THEN 8 ELSE 3

\* The document is a tree, or cannot be parsed, or was not handed over. The list of issues is
\* cut at the limit; what is deducted for them, errors first, is told of all.
Standards(p) ==
    LET all == IF p.markup = "tree" THEN IssuesOf(p.dom) ELSE << >>
        errors == SelectSeq(all, LAMBDA i : i.severity = "error")
        warnings == SelectSeq(all, LAMBDA i : i.severity = "warning")
        deducted == errors \o warnings
        deductions == [n \in DOMAIN deducted |->
                          [code |-> deducted[n].code, points |-> IssuePoints(deducted[n])]]
    IN [status   |-> IF p.markup = "none" THEN "unavailable" ELSE IF p.markup = "broken" THEN "inconclusive"
                     ELSE IF all = << >> THEN "valid" ELSE "issues_found",
        issues   |-> AtMost(all, IssueLimit),
        errors   |-> Len(errors),
        warnings |-> Len(warnings),
        deductions |-> deductions,
        score    |-> IF p.markup # "tree" THEN Unseen
                     ELSE FinalScore(FoldSeq(LAMBDA d, sum : sum + d.points, 0, deductions))]
StandardsGroup(p) ==
    CASE p.markup = "none"   -> Group("unavailable", {"html_content"}, Unseen)
      [] p.markup = "broken" -> Group("partial", {"html_parsing_failed"}, Unseen)
      [] p.markup = "tree"   -> Group("available", {}, Standards(p).score)

StandardsSummary ==
    LET seen == {i \in DOMAIN inspected : Standards(inspected[i]).status # "unavailable"}
        having(status) == Cardinality({i \in seen : Standards(inspected[i]).status = status})
        sum(of(_)) == MapThenSumSet(LAMBDA i : of(Standards(inspected[i])), seen)
    IN [checked |-> Cardinality(seen), valid |-> having("valid"), issues |-> having("issues_found"),
        inconclusive |-> having("inconclusive"),
        errors |-> sum(LAMBDA s : s.errors), warnings |-> sum(LAMBDA s : s.warnings),
        scored |-> {i \in seen : Standards(inspected[i]).score # Unseen}]

-----------------------------------------------------------------------------
(* Caches, policies, the copyright year and analytics.                       *)

\* A response is "bare", "short", "kept" (not stored, whatever its age) or "long".
CachePoints(p) ==
    LET resource(c) == CASE c = "bare" -> <<8>> [] c = "short" -> <<4>> [] OTHER -> << >>
    IN AtMost(When(p.cache.html = "bare", 10)
              \o FlattenSeq([k \in DOMAIN p.cache.sampled |-> resource(p.cache.sampled[k])]), 10)
CacheGroup(p) ==
    LET sampled == Len(p.cache.sampled)
        unavailable == IF sampled = 0 THEN {"static_asset_analysis"}
                       ELSE IF p.cache.candidates > sampled THEN {"remaining_static_assets"} ELSE {}
    IN Group(IF unavailable = {} THEN "available" ELSE "partial", unavailable,
             FinalScore(FoldSeq(LAMBDA x, sum : x + sum, 0, CachePoints(p))))

\* The link to the privacy policy leads to terms or a file, to another site, to nothing, or to
\* a page whose date is the days it is old.
Freshness(p) ==
    IF p.time # "enough" \/ p.privacy.kind # "page" THEN "unavailable"
    ELSE IF p.privacy.age = Unseen THEN "date_not_published"
    ELSE IF p.privacy.age <= 365 THEN "current" ELSE "older_than_one_year"
PolicyGroup(p) ==
    LET unavailable ==
            CASE p.privacy.kind = "absent" -> {"privacy_policy"}
              [] p.privacy.kind = "document" -> {"verified_privacy_policy"}
              [] p.privacy.kind \in {"elsewhere", "unreachable"} -> {"privacy_policy_page"}
              [] p.privacy.kind = "page" ->
                   {q \in {"privacy_policy_explicit_date"} : p.privacy.age = Unseen}
    IN IF p.time # "enough" THEN Group("unavailable", {"diagnostic_deadline"}, Unseen)
       ELSE Group(IF unavailable = {} THEN "available" ELSE "partial", unavailable, Unseen)

\* The years are those told, of which "now" is the current one.
CopyrightResult(p) ==
    IF p.years = {} THEN "unknown" ELSE IF "now" \in p.years THEN "current_year_detected"
    ELSE "possibly_outdated"
CopyrightGroup(p) ==
    IF p.years = {} THEN Group("unavailable", {"visible_copyright_year"}, Unseen)
    ELSE Group("available", {}, Unseen)

\* Ids of measurements and of containers, hosts asked, and whether a button asks for consent.
AnalyticsFindings(p) ==
    True([ANALYTICS_DUPLICATE_INSTALLATION |-> \E s \in {p.measured, p.contained} : Cardinality(s) > 1,
          TRACKER_BEFORE_CONSENT |-> p.consent /\ p.trackers # {}])
AnalyticsGroup(p) ==
    IF p.consent THEN Group("available", {}, Unseen)
    ELSE Group("partial", {"tracker_before_consent_timing"}, Unseen)

-----------------------------------------------------------------------------
(* Requests that failed. One is [url, kind, first, tracker, moving, leaving,  *)
(* aborted, mime]: its kind of resource, whether it is of the page's own     *)
(* host, of a tracker or a film, failed while the browser was closing, was   *)
(* aborted, and is told in the console with its type.                        *)

Seriousness(r) ==
    IF r.tracker THEN "non_critical"
    ELSE IF r.moving THEN IF r.aborted THEN "expected_aborted" ELSE "non_critical"
    ELSE IF r.leaving /\ r.aborted THEN "expected_aborted"
    ELSE IF r.kind = "document" \/ (r.first /\ r.kind \in {"script", "fetch"}) THEN "critical"
    ELSE IF r.first /\ r.kind = "stylesheet" THEN IF r.mime THEN "critical" ELSE "warning"
    ELSE "unknown"

\* Of those with one address and seriousness the first is kept.
NormalizedRequests(p) ==
    LET kept == SelectSeq([k \in DOMAIN p.requests |-> k],
                          LAMBDA k : \A n \in 1..(k - 1) :
                              \/ p.requests[n].url # p.requests[k].url
                              \/ Seriousness(p.requests[n]) # Seriousness(p.requests[k]))
    IN [n \in DOMAIN kept |-> p.requests[kept[n]]]
Addresses(requests) == {requests[k].url : k \in DOMAIN requests}

StylesheetFailures(p) ==
    SelectSeq(NormalizedRequests(p), LAMBDA r : r.kind = "stylesheet" /\ r.first /\ r.mime)
ScriptFailures(p) ==
    SelectSeq(NormalizedRequests(p),
              LAMBDA r : r.kind = "script" /\ r.first /\ Seriousness(r) = "critical")
Matters(r) == Seriousness(r) \in {"critical", "warning", "unknown"}
OtherFailures(p) ==
    LET handled == Addresses(StylesheetFailures(p) \o ScriptFailures(p))
    IN SelectSeq(NormalizedRequests(p), LAMBDA r : Matters(r) /\ r.url \notin handled)

-----------------------------------------------------------------------------
(* The findings of a page.                                                  *)

Title(p) == FirstDeclared(p.dom.titles)
HeadlineCount(p) == Len(SelectSeq(p.dom.headings, LAMBDA n : n = 1))
\* The browser stores neither kind of tag.
SocialTags(p) == {}

DirectFindings(p) ==
    True([MISSING_PAGE_TITLE |-> ~Declares(p.dom.titles),
          TITLE_TOO_SHORT |-> Title(p) = "short", TITLE_TOO_LONG |-> Title(p) = "long",
          MISSING_META_DESCRIPTION |-> p.description = "absent",
          META_DESCRIPTION_TOO_SHORT |-> p.description = "short",
          META_DESCRIPTION_TOO_LONG |-> p.description = "long",
          MISSING_CANONICAL_URL |-> ~Declares(p.dom.canonicals),
          MISSING_HTML_LANGUAGE |-> p.dom.lang = "absent",
          MISSING_H1 |-> HeadlineCount(p) = 0, MULTIPLE_H1 |-> HeadlineCount(p) > 1,
          MISSING_OPEN_GRAPH_TAGS |-> "open_graph" \notin SocialTags(p),
          MISSING_TWITTER_CARD |-> "twitter" \notin SocialTags(p),
          IMAGES_MISSING_ALT |-> p.unlabelled > 0,
          JAVASCRIPT_RUNTIME_ERRORS |-> p.scriptErrors,
          NON_HTTPS_WEBSITE |-> ~p.https])
\* A finding about failed requests tells the first of them.
ToldRequests == 20
FailuresOf(p) ==
    [CSS_MIME_TYPE_FAILURE |-> StylesheetFailures(p),
     FIRST_PARTY_JAVASCRIPT_FAILURE |-> ScriptFailures(p),
     FAILED_NETWORK_REQUESTS |-> OtherFailures(p)]
RequestFindings(p) ==
    LET failures == FailuresOf(p)
    IN [f \in {f \in DOMAIN failures : failures[f] # << >>} |-> AtMost(failures[f], ToldRequests)]

\* Of the measurements of Lighthouse, a shift in hundredths.
ScoreThresholds == [performance |-> 50, accessibility |-> 90, seo |-> 90, best_practices |-> 90]
MetricThresholds == [lcp |-> <<2500, 4000>>, cls |-> <<10, 25>>, tbt |-> <<200, 600>>]
PoorScores(p) ==
    {k \in DOMAIN ScoreThresholds : p.measures[k] # Unseen /\ p.measures[k] < ScoreThresholds[k]}
HighMetrics(p) ==
    {<<k, IF p.measures[k] > MetricThresholds[k][2] THEN "high" ELSE "medium">> :
        k \in {k \in DOMAIN MetricThresholds :
                   p.measures[k] # Unseen /\ p.measures[k] > MetricThresholds[k][1]}}

\* The checks of one page, and of a site.
Checks(p) ==
    [security |-> SecurityDefects(p), risk |-> RiskDefects(p), made |-> ChecksMade(p),
     band |-> RiskBand(RiskScore(p)), grade |-> SecurityGrade(RiskScore(p)),
     matrix |-> [h \in MatrixHeaders |-> HeaderStatus(p, h)],
     fit |-> PageFit(p), chromium |-> ChromiumResult(p), copyright |-> CopyrightResult(p),
     freshness |-> Freshness(p), standards |-> Standards(p), confirmed |-> ConfirmedTaps(p),
     informational |-> InformationalTaps(p), analytics |-> AnalyticsFindings(p),
     direct |-> DirectFindings(p), requests |-> RequestFindings(p),
     poor |-> PoorScores(p), high |-> HighMetrics(p),
     groups |-> [standards_diagnostics |-> ValidatorGroup(p), html_standards |-> StandardsGroup(p),
                 cache |-> CacheGroup(p), policy |-> PolicyGroup(p), copyright |-> CopyrightGroup(p),
                 security |-> SecurityGroup(p), analytics |-> AnalyticsGroup(p),
                 responsive |-> ResponsiveGroup(p)]]
Summary ==
    [headers |-> [h \in MatrixHeaders |-> HeaderSummary(h)], risk |-> RiskSummary, fit |-> SiteFit,
     standards |-> StandardsSummary]

-----------------------------------------------------------------------------
ChecksWith(sites) == inspected \in sites /\ checked = Unseen
ChecksInit == ChecksWith(Inspected)

Check ==
    /\ checked = Unseen
    /\ checked' = [pages |-> [i \in DOMAIN inspected |-> Checks(inspected[i])], site |-> Summary]
    /\ UNCHANGED inspected

ChecksNext == Check

-----------------------------------------------------------------------------
(* Properties, of a site that has been checked.                             *)

\* The two security scores of a page name the same defects, as the comment at the head of
\* diagnostics.py demands (security_diagnostics, page_security_risk_score).
ScoresAgree ==
    \A i \in DOMAIN inspected :
        LET c == checked.pages[i] IN c.security = c.risk \cap DOMAIN SecurityPoints

\* A header said to be present, or to be replaced, lowers no score for its absence, and one
\* said to be missing or malformed lowers the risk score unless the page has no transport to
\* protect. An empty header is another matter, below.
RiskOf ==
    [hsts |-> "hsts_missing", csp |-> "csp_missing", sniff |-> "sniffing", referrer |-> "referrer",
     permissions |-> "permissions", frame |-> "frame", opener |-> "opener", resource |-> "resource"]
MatrixAgrees ==
    \A i \in DOMAIN inspected, h \in MatrixHeaders :
        inspected[i].header[h] # "empty" =>
            LET status == checked.pages[i].matrix[h]
                lowered == RiskOf[h] \in checked.pages[i].risk
            IN /\ status \in {"present", "not_applicable"} => ~lowered
               /\ status \in {"missing", "malformed"} =>
                    lowered \/ (h = "hsts" /\ ~inspected[i].https)

\* The summary of a site counts what the matrices of its pages say.
SummaryAgrees ==
    \A h \in MatrixHeaders :
        (\A i \in DOMAIN inspected : inspected[i].header[h] # "empty") =>
            \A status \in {"present", "missing", "malformed"} :
                checked.site.headers[h][status]
                = Cardinality({i \in DOMAIN inspected : checked.pages[i].matrix[h] = status})

\* What the browser finds missing in a document, the parser finds missing or empty in it: it
\* deducts points for it, whatever the list of issues has room for.
CodesOf(entries) == {entries[n].code : n \in DOMAIN entries}
ListedCodes(i) == CodesOf(checked.pages[i].standards.issues)
DeductedCodes(i) == CodesOf(checked.pages[i].standards.deductions)
Reports(i, codes) == codes \cap DeductedCodes(i) # {}
ViewsAgree ==
    \A i \in DOMAIN inspected :
        LET c == checked.pages[i]
        IN inspected[i].markup = "tree" =>
            /\ "MISSING_PAGE_TITLE" \in c.direct <=> Reports(i, {"MISSING_TITLE", "EMPTY_TITLE"})
            /\ "MISSING_HTML_LANGUAGE" \in c.direct <=> Reports(i, {"MISSING_LANG"})
            /\ ~ViewportMeta(inspected[i]) <=> Reports(i, {"MISSING_VIEWPORT", "EMPTY_VIEWPORT"})
            /\ Reports(i, {"EMPTY_CANONICAL"}) => "MISSING_CANONICAL_URL" \in c.direct
            /\ "MISSING_H1" \in c.direct /\ inspected[i].dom.headings # << >>
                 => Reports(i, {"HEADING_NOT_START_H1"})

\* Each failed request that matters is told, by its address, by a finding of its page, or it
\* belongs to a finding that tells as many as it may.
RequestsAreTold ==
    \A i \in DOMAIN inspected :
        LET failures == FailuresOf(inspected[i])  told == checked.pages[i].requests IN
        \A k \in DOMAIN inspected[i].requests :
            LET r == inspected[i].requests[k] IN
            Matters(r) =>
                \E f \in DOMAIN told :
                    \/ r.url \in Addresses(told[f])
                    \/ r.url \in Addresses(failures[f]) /\ Len(told[f]) = ToldRequests

\* A group is available exactly if nothing that belongs to it is unavailable, and no group
\* that asks others is when time ran out before (build_diagnostics).
AvailableIsWhole ==
    \A i \in DOMAIN inspected : LET groups == checked.pages[i].groups IN
        /\ \A g \in DOMAIN groups : groups[g].status = "available" <=> groups[g].unavailable = {}
        /\ inspected[i].time = "gone" =>
             /\ groups.standards_diagnostics.score = Unseen
             /\ inspected[i].https => groups.security.status = "partial"

\* A document is valid exactly if its score is 100, each issue listed lowered the score, and a
\* list with room left lists each that did; and the summary counts each document once.
CleanIsPerfect ==
    /\ \A i \in DOMAIN inspected : LET s == checked.pages[i].standards IN
          /\ s.status = "valid" <=> s.score = 100
          /\ s.errors + s.warnings = Len(s.deductions)
          /\ ListedCodes(i) \subseteq DeductedCodes(i)
          /\ Len(s.issues) < IssueLimit => ListedCodes(i) = DeductedCodes(i)
    /\ LET s == checked.site.standards
       IN s.checked = s.valid + s.issues + s.inconclusive /\ Cardinality(s.scored) = s.valid + s.issues

\* A page needs attention exactly if its band is below "good", a strong page has an A, and
\* half of the pages score the median or less, half the median or more (_risk_band,
\* _security_grade, aggregate_page_security_scores).
RiskIsRanked ==
    LET total == Len(inspected)
        twice(i) == 2 * RiskScore(inspected[i])
    IN /\ \A i \in DOMAIN inspected : LET c == checked.pages[i] IN
            /\ i \in checked.site.risk.attention <=> c.band \notin {"strong", "good"}
            /\ c.band = "strong" <=> c.grade \in {"A+", "A"}
            /\ c.band = "high_observable_risk" <=> c.grade = "F"
       /\ 2 * Cardinality({i \in DOMAIN inspected : twice(i) <= checked.site.risk.median}) >= total
       /\ 2 * Cardinality({i \in DOMAIN inspected : twice(i) >= checked.site.risk.median}) >= total

\* A site is responsive exactly if some page was tested and none lost points for a viewport.
FitIsEarned ==
    checked.site.fit = "responsive" <=>
        /\ \E i \in DOMAIN inspected : inspected[i].views # << >>
        /\ \A i \in DOMAIN inspected :
             inspected[i].views # << >> =>
                ResponsivePoints(inspected[i]) = (IF ViewportMeta(inspected[i]) THEN 0 ELSE 15)

ChecksAreSound ==
    checked # Unseen =>
        /\ ScoresAgree /\ MatrixAgrees /\ SummaryAgrees /\ ViewsAgree /\ RequestsAreTold
        /\ AvailableIsWhole /\ CleanIsPerfect /\ RiskIsRanked /\ FitIsEarned

\* Not kept by the code. An empty header is present in the matrix of its page and absent for
\* both scores; a validator that only says that it could not check gives the score 100; an
\* engine in which all viewports failed has passed; a script whose address failed before as
\* another request is no failure of a script; a target too close to others is informational
\* if one that looks like it has room; of the failed requests of a finding those after the
\* twentieth are told nowhere; after as many parser errors as the list of issues has room
\* for a missing title is not listed; tags for social networks are reported missing although
\* no browser looks for them; and subresources lower the score of a page without HTTPS, which
\* can have no mixed content.
EmptyIsMissing ==
    checked # Unseen => \A i \in DOMAIN inspected, h \in MatrixHeaders :
        checked.pages[i].matrix[h] = "present" => RiskOf[h] \notin checked.pages[i].risk
FailureIsNoPass ==
    checked # Unseen => \A i \in DOMAIN inspected :
        checked.pages[i].groups.standards_diagnostics.score = 100 =>
            "failure" \notin Range(inspected[i].messages)
PassedWasTested ==
    checked # Unseen => \A i \in DOMAIN inspected :
        checked.pages[i].chromium = "passed" => Failed(inspected[i].views) = << >>
ScriptFailuresAreTold ==
    checked # Unseen => \A i \in DOMAIN inspected : \A k \in DOMAIN inspected[i].requests :
        LET r == inspected[i].requests[k]
        IN r.kind = "script" /\ r.first /\ Seriousness(r) = "critical" =>
             "FIRST_PARTY_JAVASCRIPT_FAILURE" \in DOMAIN checked.pages[i].requests
CrowdedIsConfirmed ==
    checked # Unseen => \A i \in DOMAIN inspected : \A k \in DOMAIN Samples(inspected[i]) :
        ~Samples(inspected[i])[k].spaced => Samples(inspected[i])[k].key \in checked.pages[i].confirmed
EachRequestIsTold ==
    checked # Unseen => \A i \in DOMAIN inspected :
        LET told == checked.pages[i].requests IN
        \A k \in DOMAIN inspected[i].requests :
            Matters(inspected[i].requests[k]) =>
                \E f \in DOMAIN told : inspected[i].requests[k].url \in Addresses(told[f])
MissingIsListed ==
    checked # Unseen => \A i \in DOMAIN inspected :
        inspected[i].markup = "tree" /\ "MISSING_PAGE_TITLE" \in checked.pages[i].direct =>
            ListedCodes(i) \cap {"MISSING_TITLE", "EMPTY_TITLE"} # {}
TagsWereSought ==
    checked # Unseen => \A i \in DOMAIN inspected :
        "MISSING_OPEN_GRAPH_TAGS" \notin checked.pages[i].direct
MixedNeedsHttps ==
    checked # Unseen => \A i \in DOMAIN inspected :
        "mixed" \in checked.pages[i].risk => inspected[i].https
=============================================================================
