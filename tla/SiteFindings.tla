------------------------------ MODULE SiteFindings ------------------------------
(***************************************************************************)
(* What the diagnosis of a site reports (site_diagnostics_service.py): from  *)
(* the evidence other stages have stored of its pages it builds the graph of *)
(* internal links, and reports what is missing, repeated, broken or          *)
(* contradictory across pages. All of it is a function of the evidence.      *)
(***************************************************************************)
EXTENDS Naturals, Sequences, FiniteSets
LOCAL INSTANCE Functions

CONSTANTS
    survey,         \* the stored evidence of a site
    FamilyOf,       \* of a host, the host without its www
    SectionOf,      \* of a path, its first part
    SimilarPercent, \* of shared words, for near duplicates
    SecurityHeaders,
    Absent,         \* what was not observed, or is not there
    Garbled         \* written, but not an address

\* An address is [host, secure, path]; a written link is [at, form], an address and the form
\* it is written in, or Garbled if no address can be read from it.
LinkSources == {"homepage_link", "page_link", "rendered_dom"}
SitemapSources == {"sitemap", "sitemap_index", "robots_sitemap"}

Places == DOMAIN survey.pages
Eligible == {i \in Places : survey.pages[i].eligibility = "eligible"}

-----------------------------------------------------------------------------
(* Which evidence of a page is used.                                        *)

\* Runs of this analysis first, then those that succeeded, then the deeper ones.
Preference(r) ==
    (IF r.mine THEN 0 ELSE 1000) + (IF r.ok THEN 0 ELSE 100) + 10 * (9 - r.level) + r.id

RunOf(i) ==
    LET runs == {r \in survey.pages[i].runs : r.mine \/ r.id \in survey.pages[i].pointers}
    IN IF runs = {} THEN Absent
       ELSE CHOOSE r \in runs : \A q \in runs : Preference(r) <= Preference(q)

HasRun(i) == RunOf(i) # Absent /\ RunOf(i).ok
HasResult(i) == survey.result # Absent /\ survey.pages[i].at \in survey.result.urls

\* What a run has seen or, without one, what the result of this analysis says of the page.
Facts(i) == IF HasRun(i) THEN RunOf(i).facts
            ELSE IF HasResult(i) THEN survey.result.facts ELSE Absent
HasFacts(i) == Facts(i) # Absent

TitleOf(i) == IF HasFacts(i) THEN Facts(i).title ELSE survey.pages[i].title
HasTitle(i) == HasFacts(i) \/ survey.pages[i].title # Absent
HasBase(i) == HasTitle(i)
H1Of(i) == IF HasFacts(i) THEN Facts(i).h1 ELSE Absent
ContentOf(i) == IF HasFacts(i) THEN Facts(i).content ELSE Absent

\* The address a page ended at, from the same evidence.
EndOf(i) == IF HasFacts(i) THEN Facts(i).final ELSE survey.pages[i].final
StatusAt(i) == IF HasFacts(i) THEN Facts(i).http ELSE Absent
HopsOf(i) == IF HasFacts(i) THEN Facts(i).hops ELSE << >>
Directives(i, where) == IF HasFacts(i) THEN Facts(i)[where] ELSE {}

\* The declarations of a canonical address, of the discovery and of the evidence.
Declarations(i) ==
    SelectSeq(<<survey.pages[i].canonical>>
              \o (IF HasRun(i) THEN RunOf(i).facts.canonicals ELSE << >>)
              \o (IF HasResult(i) THEN survey.result.facts.canonicals ELSE << >>),
              LAMBDA c : c # Absent)
Readable(i) == SelectSeq(Declarations(i), LAMBDA c : c # Garbled)
Canonicals(i) ==
    IF i \notin Eligible THEN << >>
    ELSE LET read   == Readable(i)
             firsts == SelectSeq([k \in DOMAIN read |-> k],
                                 LAMBDA k : \A n \in 1..(k - 1) : read[n].at # read[k].at)
         IN [k \in DOMAIN firsts |-> read[firsts[k]].at]

HasLinks(i) == HasResult(i) \/ (HasRun(i) /\ RunOf(i).facts.links # Absent)

-----------------------------------------------------------------------------
(* The graph of internal links.                                             *)

\* A page is known by its address and by the one it ended at; of two, the later one is.
AtAddress(u) ==
    {i \in Places : u = survey.pages[i].at \/ (EndOf(i) # Absent /\ u = EndOf(i).at)}
PageAt(u) ==
    IF AtAddress(u) = {} THEN Absent
    ELSE CHOOSE i \in AtAddress(u) : \A j \in AtAddress(u) : j <= i

\* The page that is stored under an address.
PageOf(u) == LET own == {i \in Places : survey.pages[i].at = u}
             IN IF own = {} THEN Absent ELSE CHOOSE i \in own : TRUE

\* Where the discovery met a page: its evidence, or else the page it came from first.
MetOn(i) ==
    LET found == survey.pages[i].found
        met   == {k \in DOMAIN found : found[k].source \in LinkSources /\ PageOf(found[k].page) # Absent}
    IN {[from |-> PageOf(found[k].page), raw |-> found[k].raw, ref |-> <<"found", i, k>>] : k \in met}
       \cup (IF met = {} /\ survey.pages[i].parent # Absent /\ PageOf(survey.pages[i].parent) # Absent
             THEN {[from |-> PageOf(survey.pages[i].parent), raw |-> survey.pages[i].original,
                    ref |-> <<"parent", i>>]}
             ELSE {})

\* The links the rendered page of this analysis shows.
ShownOn(i) ==
    IF ~HasResult(i) THEN {}
    ELSE {[from |-> i, raw |-> survey.result.links[k], ref |-> <<"link", i, k>>] :
             k \in DOMAIN survey.result.links}

Links == UNION {MetOn(i) \cup ShownOn(i) : i \in Places}
Malformed == {l \in Links : l.raw = Garbled}
Edges == {l \in Links \ Malformed : FamilyOf[l.raw.at.host] = survey.family}

EdgeTarget(e) == PageAt(e.raw.at)
Inbound(i) == {e \in Edges : EdgeTarget(e) = i}
Outbound(i) == {e \in Edges : e.from = i}

-----------------------------------------------------------------------------
(* Findings: a rule, a subtype and the occurrences, each of an eligible      *)
(* page. Occurrences of one finding differ in the page or in what was seen.  *)

ReportOf(rule, subtype, occurrences) ==
    LET own == {o \in occurrences : o.page \in Eligible}
    IN IF own = {} THEN {} ELSE {[rule |-> rule, subtype |-> subtype, seen |-> own]}
Report(rule, name, occurrences) == ReportOf(rule, <<name>>, occurrences)

OnPages(S, what) == {[page |-> i, what |-> <<what>>] : i \in S}
PagesIn(finding) == {o.page : o \in finding.seen}

\* Groups of at least two pages with one value.
SharedBy(values) ==
    {S \in {{j \in DOMAIN values : values[j] = values[i]} : i \in DOMAIN values} : Cardinality(S) >= 2}
Shared(rule, values) ==
    UNION {ReportOf(rule, <<"shared", values[CHOOSE i \in S : TRUE]>>, OnPages(S, "shared")) : S \in SharedBy(values)}

MetadataFindings ==
    LET described == {i \in Eligible : HasFacts(i)}
        titles == [i \in {i \in Eligible : HasTitle(i) /\ TitleOf(i) # Absent} |-> TitleOf(i)]
        texts  == [i \in {i \in described : Facts(i).description # Absent} |-> Facts(i).description]
    IN Report("missing_title", "missing", OnPages({i \in Eligible : HasTitle(i) /\ TitleOf(i) = Absent}, "absent"))
       \cup Shared("duplicate_title_group", titles)
       \cup Report("missing_meta_description", "missing", OnPages(described \ DOMAIN texts, "absent"))
       \cup Shared("duplicate_meta_description_group", texts)
       \cup Report("missing_h1", "count:0", OnPages({i \in described : H1Of(i) = 0}, "0"))
       \cup Report("multiple_h1", "count:multiple",
                   OnPages({i \in described : H1Of(i) # Absent /\ H1Of(i) > 1}, "many"))

\* Pages of one type that declare different languages.
LanguageFindings ==
    LET speaking == {i \in Eligible : HasFacts(i) /\ Facts(i).language # Absent} IN
    UNION {LET cohort == {i \in speaking : survey.pages[i].type = t} IN
           IF Cardinality({Facts(i).language : i \in cohort}) <= 1 THEN {}
           ELSE Report("inconsistent_language_declaration", t, OnPages(cohort, "mixed")) :
           t \in {survey.pages[i].type : i \in speaking}}

\* Words shared by two pages, in percent of all their words.
Similar(i, j) ==
    LET a == ContentOf(i).words  b == ContentOf(j).words
    IN 100 * Cardinality(a \cap b) >= SimilarPercent * Cardinality(a \cup b) /\ a \cup b # {}

\* From each page in turn, the later ones that are similar to all taken so far.
ClusterFrom(seed, pool) ==
    LET taken[j \in 0..Len(survey.pages)] ==
            IF j = 0 THEN {seed}
            ELSE LET before == taken[j - 1]
                 IN IF j \in pool /\ \A i \in before : Similar(i, j) THEN before \cup {j} ELSE before
    IN taken[Len(survey.pages)]
Clusters(candidates) ==
    LET found[j \in 0..Len(survey.pages)] ==
            IF j = 0 THEN {}
            ELSE LET before == found[j - 1]
                     pool   == candidates \ UNION before
                 IN IF j \in pool THEN before \cup {ClusterFrom(j, pool)} ELSE before
    IN found[Len(survey.pages)]

HasText == {i \in Eligible : ContentOf(i) # Absent}
ExactCopies == SharedBy([i \in HasText |-> ContentOf(i).text])
NearCopies == {S \in Clusters(HasText \ UNION ExactCopies) : Cardinality(S) >= 2}
ContentFindings ==
    UNION ({ReportOf("exact_duplicate_content_group", <<"copies", S>>, OnPages(S, "copy")) : S \in ExactCopies}
           \cup {ReportOf("near_duplicate_content_group", <<"similar", S>>, OnPages(S, "near")) : S \in NearCopies})
Unreadable ==
    Report("unavailable_content_signature_evidence", "unavailable", OnPages(Eligible \ HasText, "unavailable"))

\* Each group of pages with one problem, again by what the pages have in common.
PatternOf(S) ==
    LET templates == {IF HasFacts(i) THEN Facts(i).template ELSE Absent : i \in S}
        sections  == {SectionOf[survey.pages[i].at.path] : i \in S}
    IN IF Absent \notin templates /\ Cardinality(templates) = 1 THEN "template_issue_pattern"
       ELSE IF Cardinality(sections) = 1 /\ "/" \notin sections THEN "section_issue_pattern"
       ELSE "repeated_issue_pattern"
Patterns(groups) ==
    UNION {ReportOf(PatternOf(PagesIn(g)), <<g.rule, g.subtype>>, OnPages(PagesIn(g), "pattern")) :
              g \in {g \in groups : Cardinality(PagesIn(g)) >= 2}}

-----------------------------------------------------------------------------
(* What the links say.                                                      *)

OnLinks(links) == {[page |-> l.from, what |-> <<"link", l.ref>>] : l \in links}

Barred(i) ==
    \/ survey.pages[i].eligibility \in {"excluded", "skipped"}
    \/ survey.pages[i].robots = "disallowed"
    \/ "noindex" \in Directives(i, "meta") \cup Directives(i, "header")
Refused(i) == StatusAt(i) # Absent /\ StatusAt(i) >= 400

\* A link is judged by the page it leads to.
Meets(e, S) == EdgeTarget(e) # Absent /\ EdgeTarget(e) \in S
Moved == {i \in Places : HopsOf(i) # << >>}
GoesRound(e) == LET hops == HopsOf(EdgeTarget(e)) IN ~IsInjective(hops) \/ e.raw.at \in Range(hops)
Alternative(i, at) ==
    LET declared == Declarations(i)
    IN declared # << >> /\ declared[1] # Garbled /\ declared[1].at # at

\* The forms in which a page writes one address.
FormsOf(e) == {f.raw.form : f \in {f \in Outbound(e.from) : f.raw.at = e.raw.at}}

LinkFindings ==
    LET among(S) == {e \in Edges : Meets(e, S)}
        varied   == {e \in Edges : Cardinality(FormsOf(e)) > 1}
        refused  == among({i \in Places : Refused(i)})
    IN Report("broken_internal_link", "broken_internal_link", OnLinks(refused))
       \cup Report("broken_internal_link", "malformed_internal_url", OnLinks(Malformed))
       \cup Report("internal_redirect_link", "redirected_internal_link", OnLinks(among(Moved)))
       \cup Report("internal_redirect_link", "internal_redirect_chain",
                   OnLinks(among({i \in Moved : Len(HopsOf(i)) > 1})))
       \cup Report("internal_redirect_link", "internal_redirect_loop",
                   OnLinks({e \in among(Moved) : GoesRound(e)}))
       \cup Report("indexability_signal_conflict", "link_to_non_indexable_page",
                   OnLinks(among({i \in Places : Barred(i)})))
       \cup Report("indexability_signal_conflict", "link_to_canonical_alternative",
                   OnLinks({e \in among(Places) : Alternative(EdgeTarget(e), e.raw.at)}))
       \cup Report("inconsistent_url_protocol", "internal_link_protocol_inconsistency",
                   OnLinks({e \in Edges : e.raw.at.secure # survey.pages[e.from].at.secure}))
       \cup Report("inconsistent_preferred_host", "internal_link_host_inconsistency",
                   OnLinks({e \in Edges : e.raw.at.host # survey.pages[e.from].at.host}))
       \cup Report("repeated_issue_pattern", "duplicate_normalized_internal_target", OnLinks(varied))
       \cup Report("inconsistent_trailing_slash", "internal_link_trailing_slash_inconsistency",
                   OnLinks({e \in varied : "slash" \in FormsOf(e)}))

\* The first page of the survey by address decides which address is the home page.
Home == [survey.pages[CHOOSE i \in Eligible : \A j \in Eligible : i <= j].at EXCEPT !.path = "/"]
Unlinked == IF ~survey.complete THEN {}
            ELSE {i \in Eligible : survey.pages[i].at # Home /\ Inbound(i) = {}}
LinkCount(i) == IF HasFacts(i) THEN Facts(i).links ELSE Absent
DeadEnds == {i \in Eligible : HasLinks(i) /\ (LinkCount(i) = 0 \/ (LinkCount(i) = Absent /\ Outbound(i) = {}))}

Listed == {i \in Unlinked : survey.pages[i].source \in SitemapSources \cup {"submitted_url"}}
ReachFindings ==
    Report("orphan_page", "orphan_page", OnPages(Listed, "unlinked"))
    \cup Report("orphan_page", "no_inbound_link_page", OnPages(Unlinked \ Listed, "unlinked"))
    \cup Report("dead_end_page", "dead_end_page", OnPages(DeadEnds, "dead_end"))
    \cup Report("excessive_click_depth", "excessive_click_depth",
                OnPages({i \in Eligible : survey.pages[i].depth > survey.depthLimit}, "deep"))

-----------------------------------------------------------------------------
(* What the canonical declarations and the directives say.                   *)

SiteFamilies == {FamilyOf[survey.pages[i].at.host] : i \in Places}
HasCanonicalEvidence(i) == HasFacts(i) \/ survey.pages[i].final # Absent

Declared(Fits(_, _)) ==
    UNION {{[page |-> i, what |-> <<"declared", c>>] : c \in {c \in Range(Readable(i)) : Fits(i, c.at)}} :
              i \in Eligible}
External(i, at) == FamilyOf[at.host] \notin SiteFamilies

DeclarationFindings ==
    Report("missing_canonical", "missing_canonical",
           OnPages({i \in Eligible : HasCanonicalEvidence(i) /\ Declarations(i) = << >>}, "none"))
    \cup Report("invalid_canonical", "invalid_canonical",
                OnPages({i \in Eligible : Len(Readable(i)) < Len(Declarations(i))}, "unreadable"))
    \cup Report("conflicting_canonical", "conflicting_canonical",
                OnPages({i \in Eligible : Len(Canonicals(i)) > 1}, "conflict"))
    \cup Report("indexability_signal_conflict", "external_canonical", Declared(External))
    \cup Report("inconsistent_url_protocol", "canonical_protocol_mismatch",
                Declared(LAMBDA i, at : ~External(i, at) /\ at.secure # survey.pages[i].at.secure))
    \cup Report("inconsistent_preferred_host", "canonical_host_mismatch",
                Declared(LAMBDA i, at : at.host # survey.pages[i].at.host))

\* The page a single canonical leads to, and the walk along such declarations.
LeadsTo(i) == IF Len(Canonicals(i)) # 1 THEN Absent ELSE PageAt(Canonicals(i)[1])
Pointing == {i \in Eligible : LeadsTo(i) # Absent /\ Canonicals(i)[1] # survey.pages[i].at}
Walk(i) ==
    LET walk[n \in 0..Len(survey.pages) + 1] ==
            IF n = 0 THEN i ELSE IF walk[n - 1] = Absent THEN Absent ELSE LeadsTo(walk[n - 1])
    IN walk
ComesBack(i) == Walk(i)[2] = i                                     \* mutant
Circular(i) ==
    \E n \in 1..Len(survey.pages) + 1 :
        Walk(i)[n] # Absent /\ Walk(i)[n] \in {Walk(i)[m] : m \in 0..n - 1}
Chained(i) == LET further == Canonicals(LeadsTo(i))
              IN further # << >> /\ further[1] # Canonicals(i)[1]

CanonicalFindings ==
    Report("canonical_chain", "canonical_chain", OnPages({i \in Pointing : Chained(i)}, "chain"))
    \cup Report("canonical_chain", "canonical_loop", OnPages({i \in Pointing : Circular(i)}, "loop"))
    \cup Report("canonical_to_non_indexable", "canonical_to_redirect_error_or_non_indexable_target",
                OnPages({i \in Pointing : LET t == LeadsTo(i)
                                          IN Barred(t) \/ Refused(t) \/ t \in Moved}, "barred"))

\* Directives that contradict each other, and a sitemap that lists what may not be indexed.
Contradictions(i) ==
    LET meta == Directives(i, "meta")  header == Directives(i, "header")
        both == {"index", "noindex"}
    IN {k \in {"meta", "header"} : both \subseteq Directives(i, k)}
       \cup (IF ("noindex" \in meta /\ "index" \in header) \/ ("index" \in meta /\ "noindex" \in header)
             THEN {"between"} ELSE {})
InSitemap(i) == \E k \in DOMAIN survey.pages[i].found : survey.pages[i].found[k].source \in SitemapSources
NotIndexed(i) ==
    \/ survey.pages[i].robots = "disallowed" \/ Refused(i)
    \/ "noindex" \in Directives(i, "meta") \cup Directives(i, "header")
SignalFindings ==
    Report("indexability_signal_conflict", "robots_or_x_robots_conflict",
           UNION {{[page |-> i, what |-> <<k>>] : k \in Contradictions(i)} : i \in Eligible})
    \cup Report("indexability_signal_conflict", "sitemap_indexability_disagreement",
                OnPages({i \in Eligible : InSitemap(i) /\ NotIndexed(i)}, "listed"))

\* Pages known by several written forms of what is one path of the site.
PathOf(at) == <<FamilyOf[at.host], at.path>>
IdentitiesOf(i) ==
    {PathOf(survey.pages[i].original.at)}
    \cup (IF EndOf(i) # Absent /\ EndOf(i).at # survey.pages[i].at THEN {PathOf(EndOf(i).at)} ELSE {})
IdentityFindings ==
    LET known(d) == {i \in Eligible : d \in IdentitiesOf(i)}
        forms(S) == {survey.pages[i].original : i \in S} \cup ({EndOf(i) : i \in S} \ {Absent})
    IN Report("indexability_signal_conflict", "duplicate_normalized_url",
              UNION {{[page |-> i, what |-> <<"known", d>>] : i \in known(d)} :
                        d \in {d \in UNION {IdentitiesOf(i) : i \in Eligible} :
                                                      Cardinality(forms(known(d))) > 1}})

-----------------------------------------------------------------------------
(* What many pages have in common.                                          *)

Absences(header) ==
    {i \in Eligible : /\ HasFacts(i) /\ Facts(i).security # Absent
                      /\ Facts(i).security[header] = Absent}
\* Only the result of the analysis counts mixed content and tells of the errors of a page.
TechnicalFindings ==
    Report("inconsistent_url_protocol", "mixed_protocol_resources",
           OnPages({i \in Eligible : HasResult(i) /\ survey.result.mixed > 0}, "mixed"))
    \cup UNION {Report("missing_security_header", h, OnPages(Absences(h), h)) :
                   h \in {h \in SecurityHeaders : Cardinality(Absences(h)) >= 2}}

\* Pages of one type that answer differently.
Signals == {"http", "media", "cache", "structured"} \cup SecurityHeaders
Signal(i, signal) ==
    IF ~HasFacts(i) THEN Absent
    ELSE IF signal \notin SecurityHeaders THEN Facts(i)[signal]
    ELSE IF Facts(i).security = Absent THEN Absent ELSE Facts(i).security[signal]
RuleOf(signal) ==
    IF signal = "structured" THEN "inconsistent_structured_data"
    ELSE IF signal \in SecurityHeaders THEN "inconsistent_security_header_policy"
    ELSE "repeated_issue_pattern"
Mixed(t, signal) ==
    LET cohort == {i \in Eligible : survey.pages[i].type = t /\ Signal(i, signal) # Absent}
        values == {Signal(i, signal) : i \in cohort}
    IN IF Cardinality(values) <= 1 THEN {}
       ELSE ReportOf(RuleOf(signal), <<signal, t>>,
                     {[page |-> i, what |-> <<signal, Signal(i, signal)>>] : i \in cohort})
CohortFindings ==
    UNION {Mixed(t, signal) : t \in {survey.pages[i].type : i \in Eligible}, signal \in Signals}

\* One error, resource or measurement on at least two pages.
Errors(i) == IF i \in Eligible /\ HasResult(i) THEN survey.result.errors ELSE << >>
Met(error) == {i \in Eligible : error \in Range(Errors(i))}
RepeatedErrors ==
    {error \in UNION {Range(Errors(i)) : i \in Eligible} : Cardinality(Met(error)) >= 2}
Measured(name) == {m \in survey.measured : m.name = name /\ \E i \in Eligible : survey.pages[i].at = m.at}
ReportedAs(name) ==
    IF Cardinality({m.at : m \in Measured(name)}) < 2 THEN {}
    ELSE ReportOf("repeated_issue_pattern", <<"measured", name>>,
                  {[page |-> PageOf(m.at), what |-> <<"measured", m>>] : m \in Measured(name)})
RepeatedFindings ==
    UNION ({ReportOf("repeated_issue_pattern", <<"error", error>>, OnPages(Met(error), error)) :
               error \in RepeatedErrors}
           \cup {ReportedAs(name) : name \in {m.name : m \in survey.measured}})

\* What could not be judged.
Missing == {i \in Eligible : ~HasBase(i)}
AvailabilityFindings ==
    Report("insufficient_page_evidence", "unavailable_canonical_or_technical_evidence",
           OnPages({i \in Eligible : ~HasFacts(i)}, "unavailable"))
    \cup Report("unavailable_link_graph_evidence", "unavailable_link_graph_evidence",
                OnPages({i \in Eligible : ~HasLinks(i)}, "unavailable"))
    \cup (IF Missing = {} /\ survey.complete THEN {}
          ELSE Report("partial_diagnostic_coverage", "partial_diagnostic_coverage",
                      OnPages(Eligible, "partial")))

Grouped == MetadataFindings \cup ContentFindings
Findings ==
    Grouped \cup LanguageFindings \cup Unreadable \cup Patterns(Grouped)
    \cup LinkFindings \cup ReachFindings
    \cup DeclarationFindings \cup CanonicalFindings \cup SignalFindings \cup IdentityFindings
    \cup TechnicalFindings \cup CohortFindings \cup RepeatedFindings \cup AvailabilityFindings

\* Two equal occurrences: one error told twice on a page, where it is repeated on another.
Clash == \E error \in RepeatedErrors :
             \E i \in Met(error) : Cardinality({k \in DOMAIN Errors(i) : Errors(i)[k] = error}) > 1

Completeness ==
    IF Missing = Eligible THEN "unavailable"
    ELSE IF Missing # {} \/ HasText # Eligible THEN "partial"
    ELSE "completed"

-----------------------------------------------------------------------------
(* What holds of the findings of a site.                                    *)

Told(rule, findings) == UNION {PagesIn(f) : f \in {f \in findings : f.rule = rule}}
ToldAs(subtype, findings) == UNION {PagesIn(f) : f \in {f \in findings : f.subtype = <<subtype>>}}

\* No page is reported for lacking something when the same diagnosis says that there is no
\* evidence of it (the gates on evidence, _normalize_page_evidence and _availability_findings).
AbsenceIsObserved(findings) ==
    /\ (Told("missing_title", findings) \cup Told("missing_h1", findings) \cup Told("missing_meta_description", findings)
        \cup Told("missing_security_header", findings)) \cap Told("insufficient_page_evidence", findings) = {}
    /\ Told("dead_end_page", findings) \cap Told("unavailable_link_graph_evidence", findings) = {}
    /\ Told("orphan_page", findings) # {} => survey.complete

\* No page ends at the address of another one.
EndsApart ==
    \A i, j \in Places : i # j /\ EndOf(i) # Absent => EndOf(i).at # survey.pages[j].at

\* Nor do two pages end at one address.
EndsOnce ==
    \A i, j \in Places :
        i # j /\ EndOf(i) # Absent /\ EndOf(j) # Absent => EndOf(i).at # EndOf(j).at

\* The pages reported without a link are the ones, but the home page, that no page links to,
\* by whatever address they are known (_build_link_graph, _link_graph_findings).
OrphansAreUnlinked(findings) ==
    EndsApart /\ EndsOnce /\ survey.complete =>
        Told("orphan_page", findings) =
            {i \in Eligible :
                /\ survey.pages[i].at # Home
                /\ \A l \in Links \ Malformed :
                     \/ FamilyOf[l.raw.at.host] # survey.family
                     \/ l.raw.at # survey.pages[i].at /\ (EndOf(i) = Absent \/ l.raw.at # EndOf(i).at)}

\* A circle of pages that declare each other canonical is reported on each of its pages, and
\* a chain on no page of one whose target is its own canonical (_canonical_indexability_findings).
SingleTarget(i) == {j \in Places : Len(Canonicals(i)) = 1 /\ Canonicals(i)[1] = survey.pages[j].at}
CirclesAreReported(findings) ==
    EndsApart =>
        /\ \A S \in SUBSET Eligible :
             (/\ Cardinality(S) >= 2
              /\ \A i \in S : SingleTarget(i) # {} /\ SingleTarget(i) \subseteq S \ {i}
              /\ UNION {SingleTarget(i) : i \in S} = S)
             => S \subseteq ToldAs("canonical_loop", findings)
        /\ \A i \in Eligible, j \in Eligible :
             SingleTarget(i) = {j} /\ SingleTarget(j) = {j} => i \notin ToldAs("canonical_chain", findings)

\* Near copies are similar two by two, no page is in two groups of copies, and no page left
\* over is similar to all pages of a group (_content_findings, _near_duplicate_clusters).
CopiesAreGrouped(findings) ==
    LET near  == {PagesIn(f) : f \in {f \in findings : f.rule = "near_duplicate_content_group"}}
        exact == {PagesIn(f) : f \in {f \in findings : f.rule = "exact_duplicate_content_group"}}
        single == HasText \ UNION (near \cup exact)
    IN /\ \A S \in near : \A i, j \in S : i # j => Similar(i, j)
       /\ \A S, T \in near \cup exact : S = T \/ S \cap T = {}
       /\ \A i \in single : \A S \in near : \E j \in S : ~Similar(i, j)

\* A pattern speaks of pages that share the problem of a finding of the same diagnosis, and of
\* one template or section only if no page of it is outside (_pattern_findings).
PatternsAreShared(findings) ==
    \A f \in findings :
        f.rule \in {"template_issue_pattern", "section_issue_pattern"} =>
            /\ \E g \in findings : <<g.rule, g.subtype>> = f.subtype /\ PagesIn(g) = PagesIn(f)
            /\ \A i, j \in PagesIn(f) :
                 IF f.rule = "section_issue_pattern"
                 THEN SectionOf[survey.pages[i].at.path] = SectionOf[survey.pages[j].at.path]
                 ELSE Facts(i).template = Facts(j).template

AreSound(findings) ==
    /\ AbsenceIsObserved(findings) /\ OrphansAreUnlinked(findings) /\ CirclesAreReported(findings)
    /\ CopiesAreGrouped(findings) /\ PatternsAreShared(findings)
=============================================================================
