------------------------------ MODULE ReportDelivery ------------------------------
(***************************************************************************)
(* The report of an execution as a whole (services/report_delivery.py): how *)
(* complete it is and how far it can be trusted, why it is limited, and what *)
(* its documents show of it, beside what the progress screen shows of the    *)
(* same execution. Nothing is written while either is made.                  *)
(***************************************************************************)
EXTENDS ReportContent
LOCAL INSTANCE SequencesExt
LOCAL INSTANCE FiniteSetsExt

CONSTANT KnownExecutions  \* what may be retained of an execution

VARIABLES
    retained,  \* what is retained of one
    screen,    \* what its screen shows
    report     \* what its report says

reportVars == <<retained, screen, report>>

-----------------------------------------------------------------------------
(* Pages of the inventory.                                                   *)

AddressOf(e, i) == e.pages[i].url
EligibleAddresses(e) == {AddressOf(e, i) : i \in EligibleOf(e, ReportedPages(e))}

\* Every section's list counts, the register's merged entries too.
Listed(e, register) ==
    register \o FlattenSeq([k \in DOMAIN SectionKeys |->
                               IF SectionKeys[k] \in DOMAIN SectionFindings(e)
                               THEN SectionFindings(e)[SectionKeys[k]] ELSE << >>])
ListedAt(e, register, i) ==
    {d \in Range(Listed(e, register)) : \E p \in d.places : p.page = AddressOf(e, i)}

InventoryRow(e, register, i) ==
    LET ran == i \in Ran(e)
        eligible == ClassAt(e, i) = "page"
        listed == ListedAt(e, register, i)
        Worst == Min({SeverityRank(d.severity) : d \in listed})
    IN [result |-> InventoryResult(e, i), scheduled |-> i \in ScheduledOf(e, ReportedPages(e)),
        visited |-> eligible /\ ran /\ RunAt(e, i).started,
        analysed |-> eligible /\ ran /\ Reached(RunAt(e, i)),
        engines |-> {g \in e.engines : AddressOf(e, i) \in TestedIn(BrowserBlock(e), g)},
        issues |-> Cardinality({d.id : d \in listed}),
        worst |-> IF listed = {} THEN Untold ELSE Worst,
        evidence |-> IF eligible /\ ran /\ Reached(RunAt(e, i)) THEN 100
                     ELSE IF ran /\ RunAt(e, i).status = "partial" THEN 50 ELSE 0]
Inventory(e, register) == [i \in ReportedPages(e) |-> InventoryRow(e, register, i)]

-----------------------------------------------------------------------------
(* Totals of the register.                                                   *)

SeveritiesOf(register) == {g.severity : g \in Range(register)}
TotalsOf(e, register) ==
    LET pages == UNION {g.pages : g \in Range(register)}
    IN [unique |-> Len(register), top |-> Len(Serious(register)),
        occurrences |-> MapThenSumSet(LAMBDA k : Cardinality(register[k].places), DOMAIN register),
        affected |-> Cardinality(pages \cap EligibleAddresses(e)), affectedAll |-> Cardinality(pages),
        bySeverity |-> [s \in SeveritiesOf(register) |-> Len(SelectSeq(register, LAMBDA g : g.severity = s))]]

-----------------------------------------------------------------------------
(* Trust. The report is as sure as the least sure of what it rests on.       *)

FormulaConfidence(e) ==
    IF ~None(e.score) THEN e.score.confidence ELSE IF None(e.homeScore) THEN Untold ELSE e.homeScore.confidence
SectionCoverage(e, register) ==
    Percent(Len(SectionKeys) - Cardinality(UnavailableSections(e, register)), Len(SectionKeys))
DiscoveryConfidence(e) ==
    CASE DiscoveryResult(e) = "complete" -> 100
      [] DiscoveryResult(e) = "partial" -> 50
      [] DiscoveryResult(e) = "failed" -> 0
      [] OTHER -> Untold
BrowserConfidence(e) ==
    LET working == {g \in e.engines : ReportEngine(e, g).available}
    IN Percent(MapThenSumSet(LAMBDA g : ReportEngine(e, g).tested, working),
               ReportFigures(e).scheduled * Cardinality(working))

ConfidenceComponents(e, register) ==
    [formula |-> FormulaConfidence(e), sections |-> SectionCoverage(e, register),
     pages |-> ReportFigures(e).coverage, discovery |-> DiscoveryConfidence(e),
     browsers |-> BrowserConfidence(e)]
Confidence(e, register) ==
    LET components == ConfidenceComponents(e, register)
    IN Min({components[k] : k \in DOMAIN components} \ {Untold})

Quality(e, register) ==
    LET available == Len(SectionKeys) - Cardinality(UnavailableSections(e, register))
    IN IF DiscoveryResult(e) = "failed" THEN "FAILED"
       ELSE IF /\ 10 * available >= 9 * Len(SectionKeys) /\ Confidence(e, register) >= 50
               /\ ~None(e.score) /\ ~None(e.score.overall) THEN "COMPLETE"
       ELSE IF 10 * available >= 4 * Len(SectionKeys) \/ (~None(e.score) /\ ~None(e.score.overall))
            THEN "PARTIAL" ELSE "INCONCLUSIVE"

Since(holds, code, of) == IF holds THEN {[code |-> code, of |-> of]} ELSE {}
Short(percent) == ~None(percent) /\ percent < 100
\* Reasons that make required evidence limited, and those that do not.
RequiredReasons(e, register) ==
    Since(Short(FormulaConfidence(e)), "SCORE_CONFIDENCE_REDUCED", "scoring")
    \cup Since(Short(ReportFigures(e).coverage), "PAGE_COVERAGE_INCOMPLETE", "page_analysis")
    \cup Since(DiscoveryResult(e) \notin {Untold, "complete"}, "DISCOVERY_NOT_COMPLETE", "discovery")
    \cup {[code |-> "REPORT_SECTION_UNAVAILABLE", of |-> s] : s \in UnavailableSections(e, register)}
OtherReasons(e) ==
    Since(Short(DeepCoverage(e)), "DEEP_EVIDENCE_COVERAGE_LIMITED", "depth")
    \cup {[code |-> "BROWSER_ENGINE_UNAVAILABLE", of |-> g] :
            g \in {h \in e.engines : ~ReportEngine(e, h).available}}
    \cup Since(e.uat # "complete", "BRANDED_UAT_ENVIRONMENT_UNAVAILABLE", "browser_uat")
    \cup Since(TRUE, "NARRATIVE_DETERMINISTIC_FALLBACK", "narrative")
    \cup Since(~e.repository, "REPOSITORY_NOT_APPLICABLE", "repository")

AnalysisStatus(quality) ==
    CASE quality = "COMPLETE" -> "complete" [] quality = "PARTIAL" -> "completed_with_limitations"
      [] quality = "FAILED" -> "failed" [] OTHER -> "inconclusive"

FullPageCoverage(e) ==
    LET told == ReportFigures(e)
    IN DiscoveryResult(e) = "complete" /\ told.eligible > 0 /\ told.successful = told.eligible
ReportStatus(e, register) ==
    IF FullPageCoverage(e) /\ UnavailableSections(e, register) = {} THEN "completed" ELSE "partial"

\* The limitations of the summary name what the sections' own do not.
Limitations(e, register) ==
    {x \in {"discovery", "page_coverage", "evidence", "methodology"} :
        \/ x = "discovery" /\ DiscoveryResult(e) # "complete"
        \/ x = "page_coverage" /\ ReportFigures(e).eligible > ReportFigures(e).scheduled
        \/ x = "evidence" /\ UnavailableSections(e, register) \ {"executive_summary", "page_level_findings"} # {}
        \/ x = "methodology"}

-----------------------------------------------------------------------------
(* Documents. All are made from the stored report; the HTML and PDF rank     *)
(* severities by a table of their own, which knows "info" but not            *)
(* "informational".                                                          *)

ClientRank(severity) == IF SeverityRank(severity) < 4 THEN SeverityRank(severity) ELSE 5
RegisterRows(register) ==
    FlattenSeq([r \in 1..6 |-> SelectSeq(register, LAMBDA g : ClientRank(g.severity) = r - 1)])
Priorities(register) ==
    IF Serious(register) # << >> THEN Serious(register) ELSE Foremost(register, 5)
SampledPages(e) ==
    LET eligible == EligibleOf(e, ReportedPages(e))
    IN {i \in eligible : Cardinality({j \in eligible : j < i}) < 20}
Appendix(e, register) ==
    [findings |-> [k \in DOMAIN register |-> <<register[k].id, register[k].places>>],
     pages |-> EligibleOf(e, ReportedPages(e)),
     matrix |-> IF e.artifact THEN Foremost(e.matrix, 50) ELSE << >>,
     agents |-> [a \in Range(WorkflowAgents) |-> SummaryStatus(e, a)]]
Slides(e, register) ==
    LET actions == RankedActions(e, register)
        findings == SectionFindings(e)
        Bullets(key) == LET shown == Foremost(findings[key], 8) IN [k \in DOMAIN shown |-> shown[k].id]
        Ids(n) == LET shown == Foremost(register, n) IN [k \in DOMAIN shown |-> shown[k].id]
    IN [summary |-> Ids(5), topTen |-> Ids(10), pageLevel |-> Ids(10),
        performance |-> Bullets("performance"), accessibility |-> Bullets("accessibility"),
        content |-> Bullets("content_seo"), security |-> Bullets("security_technical"),
        actions |-> Foremost(actions, 10)]

Composed(e) ==
    LET register == Register(e)
        actions == RankedActions(e, register)
        quality == Quality(e, register)
    IN [register |-> register, actions |-> actions, figures |-> ReportFigures(e),
        skipped |-> ReportSkipped(e), deep |-> DeepCoverage(e), engines |-> ReportEngines(e),
        inventory |-> Inventory(e, register), totals |-> TotalsOf(e, register),
        sections |-> SectionStatus(e, register), findings |-> SectionFindings(e),
        attribution |-> [s \in Range(SectionKeys) |-> Attribution(e, s)],
        quick |-> Quick(actions), strategic |-> Strategic(actions),
        strongest |-> Strongest(e), weakest |-> Weakest(e), limited |-> ScoreLimited(e),
        components |-> ConfidenceComponents(e, register), confidence |-> Confidence(e, register),
        quality |-> quality, analysis |-> AnalysisStatus(quality), status |-> ReportStatus(e, register),
        required |-> RequiredReasons(e, register), other |-> OtherReasons(e),
        limitations |-> Limitations(e, register), rows |-> RegisterRows(register),
        priorities |-> Priorities(register), sampled |-> SampledPages(e),
        appendix |-> Appendix(e, register), slides |-> Slides(e, register)]

-----------------------------------------------------------------------------
ReportsWith(set) == retained \in set /\ screen = Untold /\ report = Untold
ReportsInit == ReportsWith(KnownExecutions)

ReadScreen ==
    /\ None(screen)
    /\ screen' = Screen(retained)
    /\ UNCHANGED <<retained, report>>
Generate ==
    /\ None(report)
    /\ report' = Composed(retained)
    /\ UNCHANGED <<retained, screen>>
ReportsNext == ReadScreen \/ Generate

-----------------------------------------------------------------------------
(* What a reader may rely on.                                                *)

\* Every finding of a source is in exactly one entry of the register, of its rule and as bad as the
\* worst of its findings; the failures of one accessibility rule at elements are one entry; the appendix tells all places where they were found, the documents list
\* every entry, and the totals add up (_group_detailed_findings, _finding_totals; "All unique
\* findings appear in the findings register; every retained occurrence appears in the
\* Technical Appendix").
FindingsAreTold ==
    LET found == Range(Details(retained))
        entries == report.register
        Of(d) == {k \in DOMAIN entries : d.id \in entries[k].members}
    IN /\ \A d \in found :
            /\ Cardinality(Of(d)) = 1
            /\ \A k \in Of(d) :
                 /\ SeverityRank(entries[k].severity) <= SeverityRank(d.severity)
                 /\ d.places \subseteq report.appendix.findings[k][2]
       /\ \A c, d \in found : Of(c) = Of(d) => c.rule = d.rule /\ c.category = d.category
       /\ \A c, d \in found :
            /\ c.kind = "accessibility" /\ d.kind = "accessibility" /\ c.rule = d.rule
            /\ {p.spot : p \in c.places} = {p.spot : p \in d.places}
            => Of(c) = Of(d)
       /\ Range(report.rows) = Range(entries) /\ Len(report.rows) = Len(entries)
       /\ report.totals.unique = MapThenSumSet(LAMBDA s : report.totals.bySeverity[s], SeveritiesOf(entries))
       /\ report.totals.affected <= Min({report.totals.affectedAll, report.figures.eligible})
       /\ \A k \in DOMAIN entries : Cardinality(entries[k].pages) <= Cardinality(entries[k].places)

\* The findings shown first are the worst, and the actions are ranked without a gap and without
\* two of one title (ranked_actions, _deterministic_actions_from_findings).
WorstComeFirst ==
    LET entries == report.register
        Shown == {g.id : g \in Range(report.priorities)}
    IN /\ \A g, h \in Range(entries) :
            g.id \in Shown /\ h.id \notin Shown => SeverityRank(g.severity) <= SeverityRank(h.severity)
       /\ \A k \in DOMAIN report.actions : report.actions[k].rank = k
       /\ \A j, k \in DOMAIN report.actions : report.actions[j].title = report.actions[k].title => j = k
       /\ entries # << >> => report.actions # << >>

\* The pages add up, in the figures and in the inventory, which tells of each page nothing
\* milder than any finding on it (_real_evidence_summary).
FiguresAddUp ==
    LET f == report.figures
        rows == report.inventory
        With(Test(_)) == Cardinality({i \in DOMAIN rows : Test(rows[i])})
    IN /\ f.successful <= f.visited /\ f.visited <= f.scheduled /\ f.scheduled <= f.eligible
       /\ f.successful + f.failed + f.incomplete + report.skipped = f.scheduled
       /\ With(LAMBDA r : r.result = "not_scheduled") = f.eligible - f.scheduled
       /\ With(LAMBDA r : r.scheduled /\ r.analysed) = f.successful
       /\ With(LAMBDA r : r.result = "failed") = f.failed
       /\ \A i \in DOMAIN rows : \A d \in Range(Details(retained)) :
            (\E p \in d.places : p.page = AddressOf(retained, i)) =>
                ~None(rows[i].worst) /\ rows[i].worst <= SeverityRank(d.severity)

\* The screen and the report tell the same of the pages a discovery found, and the screen never
\* more pages tested than scheduled (workflow_progress, _real_evidence_summary).
ScreenAgrees ==
    /\ ~None(retained.discovery) => screen.figures = report.figures
    /\ \A g \in retained.engines :
         /\ screen.engines[g].tested <= screen.engines[g].eligible
         /\ screen.engines[g].available /\ screen.figures = report.figures => report.engines[g].available

\* An execution that stalled is shown failed, at a stage; all of it is done exactly if every stage
\* has ended or the execution has, and a stage that is shown next has not (workflow_progress).
ScreenIsHonest ==
    LET ended == {s \in Range(StageIds) :
                    screen.stages[s] \in {"completed", "partial", "unavailable", "not_applicable"}}
    IN /\ retained.stale => screen.status = "failed" /\ \E s \in Range(StageIds) : screen.stages[s] = "failed"
       /\ screen.progress = 200 <=> \/ ended = Range(StageIds)
                                    \/ retained.status \in {"completed", "partial", "unavailable"}
       /\ screen.progress <= 200
       /\ screen.current \notin ended
       /\ screen.pending \cap screen.failed = {}

\* A report is not surer than what it rests on; it is failed exactly if the discovery is, and
\* completed only if no required evidence but the score's is limited; a category whose own
\* section is unavailable is not scored without saying so (generate_report,
\* _completion_semantics, check_invariants).
TrustIsEarned ==
    LET sectionOf == [performance |-> "performance", accessibility |-> "accessibility", seo |-> "content_seo",
                      best_practices |-> "site_diagnostics", technical_quality |-> "site_diagnostics"]
    IN /\ \A k \in DOMAIN report.components :
            ~None(report.components[k]) => report.confidence <= report.components[k]
       /\ report.analysis = "failed" <=> retained.discovery = "failed"
       /\ report.analysis = "complete" => ~None(retained.score) /\ report.confidence >= 50
       /\ report.status = "completed" => \A r \in report.required : r.code = "SCORE_CONFIDENCE_REDUCED"
       /\ \A c \in Scored(retained) :
            report.sections[sectionOf[c.id]] = "unavailable" => c.id \in report.limited

ReportIsSound ==
    /\ ~None(report) => FindingsAreTold /\ WorstComeFirst /\ FiguresAddUp /\ TrustIsEarned
    /\ ~None(screen) => ScreenIsHonest
    /\ ~None(screen) /\ ~None(report) => ScreenAgrees

\* Not kept by the code. One accessibility rule has two entries when a page tells no element;
\* a report is called complete although required evidence is limited; and an engine that did
\* not start is available with no page tested, which makes the report sure of nothing.
OneEntryPerRule ==
    ~None(report) => \A g, h \in Range(report.register) :
        MergesAcrossPages(g) /\ g.rule = h.rule /\ g.category = h.category => g.id = h.id
CompleteIsUnlimited == ~None(report) /\ report.analysis = "complete" => report.required = {}
StartedWasTested ==
    ~None(report) => \A g \in retained.engines :
        retained.browsers.status = "failed_to_start" => ~report.engines[g].available
=============================================================================
