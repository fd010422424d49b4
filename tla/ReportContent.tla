------------------------------ MODULE ReportContent ------------------------------
(***************************************************************************)
(* What the report of an execution contains (services/report_delivery.py):  *)
(* the findings of five sources merged into one register, the actions it    *)
(* ranks and the state of its sections. Wording, times and layout are left  *)
(* out; within one severity findings keep the order of their sources where  *)
(* the code sorts by category and random ids.                               *)
(***************************************************************************)
EXTENDS ReportCoverage, TLC
LOCAL INSTANCE SequencesExt
LOCAL INSTANCE FiniteSetsExt

SectionKeys == <<"executive_summary", "scores", "performance", "accessibility", "site_diagnostics",
                 "internal_link_graph", "canonical_indexability", "security_technical", "content_seo",
                 "page_level_findings", "repeated_template_problems", "priority_action_plan",
                 "remediation", "coverage_confidence", "multi_agent_execution", "methodology_limitations">>

SeverityOrder == [critical |-> 0, high |-> 1, medium |-> 2, low |-> 3, informational |-> 4]
SeverityRank(s) == IF s \in DOMAIN SeverityOrder THEN SeverityOrder[s] ELSE 5

-----------------------------------------------------------------------------
(* What the sources found, in the words of the report. A detail has an id    *)
(* that tells its source apart, and happens at places: on a page, at an       *)
(* element, a resource, a location or nowhere in particular, in engines.      *)

Place(page, spot, observed, engines) ==
    [page |-> page, spot |-> spot, observed |-> observed, engines |-> engines]
Detail(kind, id, code, rule, title, category, scope, severity, places) ==
    [id |-> <<kind>> \o id, kind |-> kind, code |-> code, rule |-> rule, title |-> title,
     category |-> category, scope |-> scope, severity |-> severity, places |-> places]

AnalysisDetail(f) ==
    Detail("page_analysis", <<f.id>>, f.code, f.code, <<f.title>>, f.category, "page", f.severity,
           {Place(f.page, f.spot, f.observed, {})})

\* The rule a repeated pattern stands for, if anything says so.
Signature(f) == Head(f.cited \o f.context \o f.subtypes \o <<f.rule>>)
DiagnosticDetail(f) ==
    Detail("site_diagnostic", <<f.id>>, f.rule, Signature(f),
           IF f.rule = "repeated_issue_pattern" THEN <<Signature(f), "repeated">> ELSE <<f.title>>,
           f.category, f.scope, f.severity,
           {Place(IF None(p.page) THEN "unavailable" ELSE p.page, p.spot, p.observed, {}) : p \in f.places})

AuditDetails(audit) ==
    [k \in DOMAIN audit.findings |->
        LET f == audit.findings[k]
        IN Detail("accessibility", <<f.id>>, f.rule, f.rule, <<f.rule>>, "accessibility", "page", f.severity,
                  IF f.nodes = {} THEN {Place(audit.page, "page", <<f.rule>>, {})}
                  ELSE {Place(audit.page, "element", n, {}) : n \in f.nodes})]

Differing == {"incompatible", "partially_compatible"}
Differs(e, row) ==
    row.result \in Differing
    /\ \E g \in DOMAIN row.engines : row.engines[g] \in Differing /\ ~Broken(e.browsers, g)
BrowserDetail(row) ==
    Detail("browser_compatibility", <<row.page>>, "browser_engine_compatibility", "browser_engine_compatibility",
           <<"differs", row.page>>, "browser_compatibility", "page",
           IF row.result = "incompatible" THEN "high" ELSE "medium",
           {Place(row.page, "location", <<"states", row.engines>>,
                  {g \in DOMAIN row.engines : row.engines[g] \in Differing})})

\* Of a page each problem once, in the first of the viewports that shows it.
Tier0Severity == [overflow |-> "high", clipped |-> "high", overlapping |-> "medium", taps |-> "medium"]
Tier0Details(result) ==
    LET Shown(k) == Range(result.viewports[k])
        New(k) == SelectSeq(result.viewports[k], LAMBDA c : \A j \in 1..(k - 1) : c \notin Shown(j))
        InViewport(k) == [n \in DOMAIN New(k) |->
            LET c == New(k)[n]
            IN Detail("browser_uat_tier0", <<result.page, c>>, c, c, <<c>>,
                      IF c = "taps" THEN "accessibility" ELSE "responsive_design", "page", Tier0Severity[c],
                      {Place(result.page, "location", <<"viewport", k>>, {})})]
    IN FlattenSeq([k \in DOMAIN result.viewports |-> InViewport(k)])

AnalysisDetails(e) == [k \in DOMAIN e.analysis |-> AnalysisDetail(e.analysis[k])]
DiagnosticDetails(e) ==
    IF None(e.diagnostics) THEN << >>
    ELSE [k \in DOMAIN e.diagnostics.findings |-> DiagnosticDetail(e.diagnostics.findings[k])]
AccessibilityDetails(e) == FlattenSeq([k \in DOMAIN e.audits |-> AuditDetails(e.audits[k])])
BrowserDetails(e) ==
    LET rows == IF e.artifact THEN SelectSeq(e.matrix, LAMBDA row : Differs(e, row)) ELSE << >>
    IN [k \in DOMAIN rows |-> BrowserDetail(rows[k])]
Details(e) ==
    AnalysisDetails(e) \o DiagnosticDetails(e) \o AccessibilityDetails(e) \o BrowserDetails(e)
    \o FlattenSeq([k \in DOMAIN e.tier0 |-> Tier0Details(e.tier0[k])])

-----------------------------------------------------------------------------
(* The register: details of one rule become one entry. Some rules are the    *)
(* same problem on every page, whatever was observed there.                  *)

MergedRules == {"browser_engine_compatibility", "lcp"} \cup DOMAIN Tier0Severity
MergesAcrossPages(d) == d.code \in MergedRules \/ d.kind = "accessibility"

MergeKey(d) ==
    LET across == MergesAcrossPages(d)
        places == d.places
    IN <<d.rule, IF across THEN << >> ELSE d.title, d.category, d.scope,
         IF across THEN {} ELSE {p.observed : p \in {q \in places : ~None(q.observed)}},
         UNION {p.engines : p \in places}, {p.spot : p \in places}>>

AsTheFirst(details) == \* mutant
    LET places == UNION {details[k].places : k \in DOMAIN details}
    IN [details[1] EXCEPT !.places = places]
       @@ [members |-> {details[k].id : k \in DOMAIN details}, pages |-> {p.page : p \in places}]
\* The first detail of an entry gives it its name, the worst one its severity.
Entry(details) ==
    LET places == UNION {details[k].places : k \in DOMAIN details}
        pages == {p.page : p \in places}
        lead == details[1]
        worst == Min({SeverityRank(details[k].severity) : k \in DOMAIN details})
    IN [lead EXCEPT
          !.places = places,
          !.severity = SelectSeq(details, LAMBDA d : SeverityRank(d.severity) = worst)[1].severity,
          !.title = IF lead.code = "browser_engine_compatibility" /\ Cardinality(pages) > 1
                    THEN <<"differ", Cardinality(pages), UNION {p.engines : p \in places}>> ELSE @]
       @@ [members |-> {details[k].id : k \in DOMAIN details}, pages |-> pages]

Entries(details) ==
    LET keys == [k \in DOMAIN details |-> MergeKey(details[k])]
        firsts == SelectSeq([k \in DOMAIN details |-> k], LAMBDA k : \A j \in 1..(k - 1) : keys[j] # keys[k])
        With(key) == SelectSeq(details, LAMBDA d : MergeKey(d) = key)
    IN [n \in DOMAIN firsts |-> Entry(With(keys[firsts[n]]))]
ByRank(entries) ==
    FlattenSeq([r \in 1..6 |-> SelectSeq(entries, LAMBDA g : SeverityRank(g.severity) = r - 1)])
Register(e) == ByRank(Entries(Details(e)))

Foremost(s, n) == SubSeq(s, 1, Min({n, Len(s)}))
Serious(register) == Foremost(SelectSeq(register, LAMBDA g : g.severity \in {"critical", "high"}), 5)

-----------------------------------------------------------------------------
(* Actions: those of the website's latest plan, each title once; without one,*)
(* the findings that have a title of their own.                              *)

OncePerTitle(s) ==
    LET once == SelectSeq([k \in DOMAIN s |-> k], LAMBDA k : \A j \in 1..(k - 1) : s[j].title # s[k].title)
    IN [n \in DOMAIN once |-> s[once[n]]]

EffortOf(severity) ==
    CASE SeverityRank(severity) < 2 -> "high"
      [] SeverityRank(severity) \in {3, 4} -> "low"
      [] OTHER -> "medium"
FromFindings(register) ==
    LET kept == Foremost(OncePerTitle(register), 20)
    IN [k \in DOMAIN kept |-> [rank |-> k, title |-> kept[k].title, effort |-> EffortOf(kept[k].severity),
                               related |-> {kept[k].id}]]
FromPlan(e, register) ==
    LET kept == IF None(e.plan) THEN << >> ELSE OncePerTitle(e.plan)
        Related(a) == {g.id : g \in {h \in Range(register) : a.identity \in {<<h.id[2]>>, <<h.code>>, h.id}}}
    IN [k \in DOMAIN kept |-> [rank |-> k, title |-> kept[k].title, effort |-> kept[k].effort,
                               related |-> Related(kept[k])]]
RankedActions(e, register) ==
    IF FromPlan(e, register) # << >> THEN FromPlan(e, register) ELSE FromFindings(register)
Quick(actions) == Foremost(SelectSeq(actions, LAMBDA a : a.effort \in {"low", "small", "quick"}), 5)
Strategic(actions) == Foremost(SelectSeq(actions, LAMBDA a : a.effort \notin {"low", "small", "quick"}), 5)

-----------------------------------------------------------------------------
(* Sections.                                                                 *)

Available(there) == IF there THEN "available" ELSE "unavailable"
Diagnosed(e) == ~None(e.diagnostics)
SectionStatus(e, register) ==
    LET actions == RankedActions(e, register)
        plan == ~None(e.plan)
    IN [executive_summary |-> Available(e.result \/ ~None(e.score) \/ e.analysis # << >>),
        scores |-> Available(~None(e.score)), performance |-> Available(e.result \/ e.artifact),
        accessibility |-> Available(e.audits # << >>),
        site_diagnostics |-> IF Diagnosed(e) /\ e.diagnostics.status # "completed" THEN "incomplete"
                             ELSE Available(Diagnosed(e)),
        internal_link_graph |-> Available(Diagnosed(e)),
        canonical_indexability |-> Available(Diagnosed(e)),
        security_technical |-> Available(e.result \/ Diagnosed(e)),
        content_seo |-> Available(e.result \/ Diagnosed(e)),
        page_level_findings |-> Available(register # << >>),
        repeated_template_problems |-> Available(Diagnosed(e)),
        priority_action_plan |-> Available(actions # << >> \/ plan),
        remediation |-> Available(actions # << >>),
        coverage_confidence |-> "available",
        multi_agent_execution |->
            CASE e.status = "partial" -> "incomplete" [] e.status = "failed" -> "failed" [] OTHER -> "available",
        methodology_limitations |-> "available"]
UnavailableSections(e, register) ==
    {s \in Range(SectionKeys) : SectionStatus(e, register)[s] = "unavailable"}

\* The findings each section lists, as its source told them.
InCategory(details, categories) == SelectSeq(details, LAMBDA d : d.category \in categories)
SectionFindings(e) ==
    LET analysis == AnalysisDetails(e)
        diagnostic == DiagnosticDetails(e)
    IN [performance |-> InCategory(analysis, {"performance"}),
        accessibility |-> AccessibilityDetails(e), site_diagnostics |-> diagnostic,
        internal_link_graph |->
            SelectSeq(diagnostic, LAMBDA d : \/ d.category = "internal_link_graph"
                                             \/ d.code = "unavailable_link_graph_evidence"),
        canonical_indexability |-> InCategory(diagnostic, {"canonical_indexability"}),
        security_technical |->
            InCategory(analysis, {"security", "best_practices", "technical", "performance"})
            \o InCategory(diagnostic, {"security"}) \o BrowserDetails(e),
        content_seo |-> InCategory(analysis, {"seo", "content", "metadata"})
                        \o InCategory(diagnostic, {"metadata_content", "near_duplicate"}),
        repeated_template_problems |->
            SelectSeq(diagnostic, LAMBDA d : /\ d.category # "security"
                                             /\ \/ d.category = "repeated_pattern"
                                                \/ d.scope \in {"section", "template", "site"})]

\* The agents a section rests on, and how they fared.
SectionAgents(key) ==
    LET both == {"evidence_validation_agent", "report_agent"}
        site == both \cup {"site_diagnostics_agent"}
    IN CASE key \in {"performance", "security_technical"} -> both \cup {"performance_agent"}
         [] key = "accessibility" -> both \cup {"accessibility_agent"}
         [] key = "internal_link_graph" -> site \cup {"discovery_agent"}
         [] key \in {"site_diagnostics", "canonical_indexability", "content_seo",
                     "repeated_template_problems"} -> site
         [] key = "page_level_findings" -> site \cup {"performance_agent", "accessibility_agent"}
         [] key = "priority_action_plan" -> both \cup {"remediation_agent"}
         [] key = "remediation" -> {"repository_intelligence_agent", "remediation_agent", "report_agent"}
         [] key = "multi_agent_execution" -> Range(WorkflowAgents)
         [] OTHER -> both
AttributedStatus(e, a) ==
    IF a = "repository_intelligence_agent" /\ ~e.repository THEN "not_applicable"
    ELSE IF None(LastStatus(e, a)) THEN "execution_status_not_recorded" ELSE LastStatus(e, a)
Attribution(e, key) ==
    LET statuses == {AttributedStatus(e, a) : a \in SectionAgents(key)}
    IN IF "failed" \in statuses THEN "failed"
       ELSE IF statuses \cap {"partial", "unavailable", "execution_status_not_recorded"} # {}
            THEN "partial" ELSE "completed"
\* Committing the report is the end of the agent that generates it.
SummaryStatus(e, a) ==
    IF a = "report_agent" /\ AttributedStatus(e, a) \in {"running", "pending"} THEN "completed"
    ELSE AttributedStatus(e, a)

\* Scored categories, the best and the worst three, and whether a section of its own bears a score out.
Scored(e) ==
    IF None(e.score) THEN {} ELSE {c \in e.score.categories : c.included /\ ~None(c.score)}
Strongest(e) ==
    {c \in Scored(e) : Cardinality({d \in Scored(e) : d.score > c.score \/ (d.score = c.score /\ d.order < c.order)}) < 3}
Weakest(e) ==
    {c \in Scored(e) : Cardinality({d \in Scored(e) : d.score < c.score \/ (d.score = c.score /\ d.order < c.order)}) < 3}
HasDedicatedAudit(e, category) ==
    CASE category = "performance" -> e.result
      [] category = "accessibility" -> e.audits # << >>
      [] OTHER -> Diagnosed(e)
ScoreLimited(e) == {c.id : c \in {d \in Scored(e) : ~HasDedicatedAudit(e, d.id)}}
=============================================================================
