----------------------------- MODULE ReportCoverage -----------------------------
(***************************************************************************)
(* How much of a website an execution has seen. It is told twice from the   *)
(* same rows: by the progress screen (routes/report_delivery.py), while the *)
(* execution works, and by the report (services/report_delivery.py). What   *)
(* is retained of an execution is given; nothing here writes it. Rounded    *)
(* percentages are rounded down, times and addresses are left out.          *)
(***************************************************************************)
EXTENDS Integers, Sequences, FiniteSets
LOCAL INSTANCE SequencesExt
LOCAL INSTANCE FiniteSetsExt

CONSTANTS
    WorkflowAgents,  \* the agents of the workflow, in their order
    MaxAttempts,     \* attempts after which no retry is offered
    Untold           \* what is not retained

None(x) == x = Untold
AtLeastZero(n) == IF n < 0 THEN 0 ELSE n
Percent(n, of) == IF of = 0 THEN Untold ELSE (100 * n) \div of

-----------------------------------------------------------------------------
(* Pages. A page belongs to the discovery ("member"), to other rows of the   *)
(* website, or only to a run of this execution. Its run may have shown that  *)
(* its address leads to something else than a page.                          *)

DiscoveryResult(e) ==
    CASE e.discovery = "completed" -> "complete"
      [] e.discovery \in {"partial", "failed"} -> e.discovery
      [] OTHER -> Untold

RunAt(e, i) == IF None(e.discovery) THEN Untold ELSE e.pages[i].run
Ran(e) == {i \in DOMAIN e.pages : ~None(RunAt(e, i))}
ClassAt(e, i) == IF i \in Ran(e) THEN e.pages[i].ended ELSE e.pages[i].class

ReportedPages(e) == {i \in DOMAIN e.pages : None(e.discovery) \/ e.pages[i].member \/ i \in Ran(e)}
ScreenPages(e) == {i \in DOMAIN e.pages : ~None(e.discovery) /\ (e.pages[i].member \/ i \in Ran(e))}

EligibleOf(e, pages) == {i \in pages : ClassAt(e, i) = "page"}

\* Without a selection and without runs, as many as the limit allows; which does not matter here.
Sampled(e, eligible) ==
    {i \in eligible : None(e.limit) \/ Cardinality({j \in eligible : j < i}) < e.limit}
Chosen(e) == IF e.selected # {} THEN e.selected ELSE Ran(e)
ScheduledOf(e, pages) ==
    LET eligible == EligibleOf(e, pages)
    IN IF Chosen(e) # {} THEN eligible \cap Chosen(e) ELSE Sampled(e, eligible)

Reached(run) == run.status = "completed" /\ run.answered
Unfinished(run) ==
    \/ run.status \in {"pending", "running", "partial"}
    \/ run.status = "completed" /\ ~run.answered

\* What both tell of the pages they take into account.
Tally(e, pages) ==
    LET eligible == EligibleOf(e, pages)
        scheduled == ScheduledOf(e, pages)
        Runs(Test(_)) == Cardinality({i \in scheduled \cap Ran(e) : Test(RunAt(e, i))})
        successful == Runs(Reached)
        coverage == Percent(successful, Cardinality(eligible))
    IN [eligible |-> Cardinality(eligible), scheduled |-> Cardinality(scheduled),
        visited |-> Runs(LAMBDA r : r.started), successful |-> successful,
        failed |-> Runs(LAMBDA r : r.status = "failed"), incomplete |-> Runs(Unfinished),
        coverage |-> coverage,
        fullSite |-> IF DiscoveryResult(e) = "complete" THEN coverage ELSE Untold]

-----------------------------------------------------------------------------
(* The report's figures.                                                     *)

ReportFigures(e) == Tally(e, ReportedPages(e))

ReportSkipped(e) ==
    LET scheduled == ScheduledOf(e, ReportedPages(e))
    IN Cardinality({i \in scheduled \cap Ran(e) : RunAt(e, i).status = "skipped"})
       + Cardinality(scheduled \ Ran(e))

DeepCoverage(e) == Percent(e.deep, ReportFigures(e).eligible)

InventoryResult(e, i) ==
    IF ClassAt(e, i) # "page" THEN ClassAt(e, i)
    ELSE IF i \notin ScheduledOf(e, ReportedPages(e)) THEN "not_scheduled"
    ELSE IF i \in Ran(e) THEN RunAt(e, i).status ELSE "skipped"

\* The artifact of a finished browser stage, else what the stage has told so far.
NoBrowsers == [status |-> "unavailable", rows |-> << >>, sights |-> {}]
BrowserBlock(e) == IF e.artifact \/ e.browsers.rows # << >> THEN e.browsers ELSE NoBrowsers

RowOf(block, g) == IF g \in DOMAIN block.rows THEN block.rows[g] ELSE [tested |-> 0, attempted |-> 0]
SightsIn(block, g) == IF block.status = "running" THEN {} ELSE {s \in block.sights : s.engine = g}
TestedIn(block, g) == {s.page : s \in {t \in SightsIn(block, g) : t.state \notin {"not_tested", "unavailable"}}}
Broken(block, g) == \E s \in SightsIn(block, g) : s.state = "unavailable"

ReportEngine(e, g) ==
    LET block == BrowserBlock(e)
        tested == Max({Cardinality(TestedIn(block, g)), RowOf(block, g).tested})
    IN [eligible |-> ReportFigures(e).scheduled, tested |-> tested,
        queued |-> AtLeastZero(ReportFigures(e).scheduled - RowOf(block, g).attempted),
        available |-> ~(block.status = "unavailable" \/ (Broken(block, g) /\ tested = 0))]
ReportEngines(e) == [g \in e.engines |-> ReportEngine(e, g)]

-----------------------------------------------------------------------------
(* The screen's figures.                                                     *)

TerminalWorkflow == {"completed", "partial", "failed", "cancelled", "unavailable"}
PagesEnded(e) == e.pagesDone \/ e.status \in TerminalWorkflow

ScreenFigures(e) == Tally(e, ScreenPages(e))
ScreenSkipped(e) ==
    IF PagesEnded(e) THEN AtLeastZero(ScreenFigures(e).scheduled - ScreenFigures(e).visited) ELSE 0

BrowserStages == {"browser_compatibility", "browser_engine_analysis"}
BrowserStatus(e) ==
    LET told == e.browsers.status
    IN IF e.stale /\ e.stage \in BrowserStages THEN "timed_out"
       ELSE IF e.stage \in BrowserStages /\ e.journey = "running" /\ told = "not_started"
            THEN "running" ELSE told

ScreenEngine(e, g) ==
    LET eligible == ScreenFigures(e).scheduled
        seen == Cardinality(TestedIn(e.browsers, g))
        row == RowOf(e.browsers, g)
        attempted == IF row.attempted > 0 THEN row.attempted ELSE row.tested
        Capped(n) == IF n < eligible THEN n ELSE eligible
    IN [eligible |-> eligible, tested |-> Capped(Max({seen, row.tested})),
        attempted |-> Capped(attempted),
        queued |-> IF BrowserStatus(e) = "timed_out" THEN 0 ELSE AtLeastZero(eligible - attempted),
        available |-> ~(\/ BrowserStatus(e) \in {"unavailable", "timed_out"}
                        \/ Broken(e.browsers, g) /\ seen = 0)]

-----------------------------------------------------------------------------
(* The stages on the screen.                                                 *)

LastStatus(e, a) == IF e.agents[a] = << >> THEN Untold ELSE Last(e.agents[a])
AgentStatus(e, a) == IF None(LastStatus(e, a)) THEN "queued" ELSE LastStatus(e, a)

ActiveAgents(e) ==
    {a \in Range(WorkflowAgents) : a # "repository_intelligence_agent" \/ e.repository}
AgentsThat(e, statuses) == {a \in ActiveAgents(e) : LastStatus(e, a) \in statuses}
PendingAgents(e) == {a \in ActiveAgents(e) : LastStatus(e, a) \in {Untold, "pending", "running"}}

AgentState(e, a) ==
    IF LastStatus(e, a) = "pending" THEN "queued"
    ELSE IF ~None(LastStatus(e, a)) THEN LastStatus(e, a)
    ELSE IF a = "discovery_agent" /\ e.stage = "website_discovery" /\ e.journey = "running" THEN "running"
    ELSE IF a = "discovery_agent" /\ ~None(e.discovery) THEN e.discovery
    ELSE IF e.status \in {"failed", "cancelled", "unavailable"} THEN "unavailable" ELSE "queued"

StageWeights ==
    [setup |-> 5, website_discovery |-> 15, page_analysis |-> 20, browser_compatibility |-> 20,
     evidence_validation |-> 10, diagnostics_scoring |-> 15, remediation |-> 7, report_generation |-> 8]
StageIds == <<"setup", "website_discovery", "page_analysis", "browser_compatibility",
              "evidence_validation", "diagnostics_scoring", "remediation", "report_generation">>

StageOf(stage) ==
    CASE stage \in {"website_discovery", "page_analysis"} -> stage
      [] stage = "primary_page_analysis" -> "diagnostics_scoring"
      [] stage \in BrowserStages -> "browser_compatibility"
      [] stage = "multi_agent_analysis" -> "evidence_validation"
      [] OTHER -> "setup"
FailedStage(e) ==
    IF e.stale THEN StageOf(e.stage)
    ELSE IF e.status # "failed" THEN Untold
    ELSE IF ~None(e.failedStage) THEN e.failedStage ELSE StageOf(e.stage)

Specialists == {"performance_agent", "accessibility_agent", "site_diagnostics_agent"}

DiscoveryStage(e) ==
    IF e.stage = "website_discovery" /\ e.journey = "running" THEN "running"
    ELSE IF None(e.discovery) THEN "queued" ELSE e.discovery
PageStage(e) ==
    LET told == ScreenFigures(e)
    IN IF PagesEnded(e) /\ told.scheduled > 0 /\ told.successful = told.scheduled THEN "completed"
       ELSE IF PagesEnded(e) /\ told.visited > 0 THEN "partial"
       ELSE IF e.stage \in {"page_analysis", "primary_page_analysis"} THEN "running" ELSE "queued"
BrowserStage(e) ==
    CASE BrowserStatus(e) = "failed_to_start" -> "failed"
      [] BrowserStatus(e) = "not_started" -> "queued"
      [] OTHER -> BrowserStatus(e)
ScoringStage(e) ==
    LET statuses == {AgentStatus(e, a) : a \in Specialists}
    IN IF e.stage = "primary_page_analysis" THEN "running"
       ELSE IF ~None(e.score) /\ statuses = {"completed"} THEN "completed"
       ELSE IF statuses \subseteq TerminalWorkflow THEN "partial"
       ELSE IF "running" \in statuses THEN "running" ELSE "queued"

StageStatus(e, s) ==
    LET told == CASE s = "setup" -> "completed"
                  [] s = "website_discovery" -> DiscoveryStage(e)
                  [] s = "page_analysis" -> PageStage(e)
                  [] s = "browser_compatibility" -> BrowserStage(e)
                  [] s = "evidence_validation" -> AgentStatus(e, "evidence_validation_agent")
                  [] s = "diagnostics_scoring" -> ScoringStage(e)
                  [] s = "remediation" -> AgentStatus(e, "remediation_agent")
                  [] s = "report_generation" -> AgentStatus(e, "report_agent")
    IN IF s = FailedStage(e) THEN "failed" ELSE IF told = "pending" THEN "queued" ELSE told

StagesIn(e, statuses) == {s \in Range(StageIds) : StageStatus(e, s) \in statuses}
EndedStages(e) == StagesIn(e, {"completed", "partial", "unavailable", "not_applicable"})

\* Twice the percentage: a stage that runs counts half.
Progress(e) ==
    IF e.status \in {"completed", "partial", "unavailable"} THEN 200
    ELSE 2 * MapThenSumSet(LAMBDA s : StageWeights[s], EndedStages(e))
         + MapThenSumSet(LAMBDA s : StageWeights[s], StagesIn(e, {"running"}))

FirstStage(stages) == IF stages = {} THEN Untold ELSE StageIds[Min({k \in DOMAIN StageIds : StageIds[k] \in stages})]
CurrentStage(e) ==
    LET running == FirstStage(StagesIn(e, {"running"}))
        open == FirstStage(Range(StageIds) \ EndedStages(e))
    IN IF ~None(FailedStage(e)) THEN FailedStage(e)
       ELSE IF ~None(running) THEN running
       ELSE IF None(open) THEN "workflow_complete" ELSE open

DisplayStatus(e) ==
    IF e.stale THEN "failed" ELSE IF e.status = "pending" /\ ~None(e.journey) THEN e.journey ELSE e.status
DiscoveryRecoverable(e) == DiscoveryResult(e) \in {"partial", "failed"} /\ e.recoverable
RetryAvailable(e) ==
    /\ e.attempt < MaxAttempts
    /\ \/ DiscoveryRecoverable(e) \/ e.stale
       \/ DisplayStatus(e) \in {"failed", "cancelled"} /\ e.transient
ReportOffered(e) == e.reported \/ AgentStatus(e, "report_agent") \in {"completed", "partial", "unavailable"}

\* What the screen shows of an execution of a website.
Screen(e) ==
    [figures |-> ScreenFigures(e), skipped |-> ScreenSkipped(e),
     engines |-> [g \in e.engines |-> ScreenEngine(e, g)],
     stages |-> [s \in Range(StageIds) |-> StageStatus(e, s)], progress |-> Progress(e),
     agents |-> [a \in ActiveAgents(e) |-> AgentState(e, a)], pending |-> PendingAgents(e),
     failed |-> AgentsThat(e, {"failed"}), current |-> CurrentStage(e), status |-> DisplayStatus(e),
     retry |-> RetryAvailable(e), offered |-> ReportOffered(e)]
=============================================================================
