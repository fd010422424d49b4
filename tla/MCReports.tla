------------------------------- MODULE MCReports -------------------------------
(* Executions that differ from a finished one in what one part of the report is about. *)
EXTENDS ReportDelivery

MCAgents == <<"discovery_agent", "performance_agent", "accessibility_agent", "site_diagnostics_agent",
              "evidence_validation_agent", "repository_intelligence_agent", "remediation_agent",
              "report_agent">>
EachAgent(statuses) == [a \in {MCAgents[k] : k \in DOMAIN MCAgents} |-> statuses]

PageRun(status, started, answered) == [status |-> status, started |-> started, answered |-> answered]
Whole == PageRun("completed", TRUE, TRUE)
SitePage(url, member, class, ended, run) ==
    [url |-> url, member |-> member, class |-> class, ended |-> ended, run |-> run]
Page(url, run) == SitePage(url, TRUE, "page", "page", run)

EngineRow(tested, attempted) == [tested |-> tested, attempted |-> attempted]
SightAt(engine, page, state) == [engine |-> engine, page |-> page, state |-> state]
Browsers(status, rows, sights) == [status |-> status, rows |-> rows, sights |-> sights]
TestedBrowsers ==
    Browsers("completed", [g \in {"chromium", "webkit"} |-> EngineRow(2, 2)],
             {SightAt(g, u, "compatible") : g \in {"chromium", "webkit"}, u \in {"home", "about"}})

Category(id, order, score) == [id |-> id, order |-> order, score |-> score, included |-> TRUE]
GoodScore ==
    [overall |-> 80, confidence |-> 100,
     categories |-> {Category("performance", 4, 90), Category("accessibility", 1, 70),
                     Category("best_practices", 2, 90), Category("seo", 5, Untold)}]
Diagnostics(status, findings) == [status |-> status, findings |-> findings]
Lcp(id, page, severity, observed) ==
    [id |-> id, code |-> "lcp", title |-> "slow", category |-> "performance", severity |-> severity,
     page |-> page, spot |-> "page", observed |-> observed]

Exemplar ==
    [discovery |-> "completed", recoverable |-> FALSE, pages |-> <<Page("home", Whole), Page("about", Whole)>>,
     limit |-> Untold, selected |-> {1, 2}, deep |-> 1, artifact |-> TRUE, browsers |-> TestedBrowsers,
     engines |-> {"chromium", "webkit"}, status |-> "completed", stage |-> "multi_agent_analysis",
     journey |-> "completed", pagesDone |-> TRUE, stale |-> FALSE, attempt |-> 1, transient |-> FALSE,
     failedStage |-> Untold, agents |-> EachAgent(<<"completed">>), repository |-> FALSE,
     reported |-> TRUE, result |-> TRUE, score |-> GoodScore, homeScore |-> [confidence |-> 90],
     plan |-> Untold, analysis |-> <<Lcp("f1", "home", "high", <<"3s">>)>>,
     diagnostics |-> Diagnostics("partial", << >>), audits |-> <<[page |-> "home", findings |-> << >>]>>,
     matrix |-> << >>, tier0 |-> << >>, uat |-> "partial"]

\* Pages and the discovery they come from.
Runs == {Untold, Whole, PageRun("completed", TRUE, FALSE), PageRun("failed", TRUE, FALSE),
         PageRun("running", TRUE, FALSE), PageRun("pending", FALSE, FALSE), PageRun("skipped", FALSE, FALSE)}
SeenSites ==
    {[Exemplar EXCEPT !.discovery = discovery, !.pages = <<one, other, Page("more", Untold)>>,
                      !.selected = selected, !.limit = limit, !.pagesDone = ~None(limit), !.status = status] :
        discovery \in {Untold, "running", "completed", "partial", "failed"},
        one \in {SitePage("home", TRUE, "page", ended, run) : ended \in {"page", "document_asset"}, run \in Runs},
        other \in {Page("about", Whole), SitePage("about", FALSE, "page", "page", Untold),
                    SitePage("about", FALSE, "page", "page", PageRun("failed", TRUE, FALSE))},
        selected \in {{}, {1, 2}}, limit \in {Untold, 1}, status \in {"pending", "partial"}}

\* Browser stages: not begun, going on, ended, and an engine that never worked.
Driving ==
    {[Exemplar EXCEPT !.artifact = FALSE, !.browsers = b, !.stage = stage, !.journey = journey, !.stale = stale,
                      !.status = "pending"] :
        b \in {Browsers(status, [g \in Exemplar.engines |-> EngineRow(0, 0)], {}) : status \in {"not_started", "failed_to_start"}}
              \cup {Browsers("running", "chromium" :> EngineRow(n, n) @@ "webkit" :> EngineRow(0, n), {}) : n \in 0..2},
        stage \in {"page_analysis", "browser_compatibility", "browser_engine_analysis"},
        journey \in {"running", "completed"}, stale \in BOOLEAN}
    \cup {[Exemplar EXCEPT !.browsers = Browsers(status, "chromium" :> EngineRow(n, 2) @@ "webkit" :> EngineRow(0, 2),
                             {SightAt("chromium", "home", s), SightAt("webkit", "home", "unavailable")})] :
            status \in {"completed", "partial", "unavailable"}, n \in 0..2,
            s \in {"compatible", "not_tested", "unavailable"}}

\* Stages and agents.
Staged ==
    {[Exemplar EXCEPT !.status = status, !.stage = stage, !.journey = journey, !.stale = stale,
                      !.failedStage = failedStage, !.agents = agents, !.attempt = attempt,
                      !.transient = (attempt = 1), !.recoverable = (attempt = 1),
                      !.discovery = IF stage = "website_discovery" THEN "running" ELSE "completed"] :
        status \in {"pending", "running", "failed", "cancelled", "completed"},
        stage \in {"website_discovery", "primary_page_analysis", "multi_agent_analysis"},
        journey \in {"running", "completed"}, stale \in BOOLEAN, failedStage \in {Untold, "page_analysis"},
        agents \in {EachAgent(<< >>), EachAgent(<<"failed", "completed">>),
                    [EachAgent(<<"partial">>) EXCEPT !["remediation_agent"] = <<"running">>],
                    [EachAgent(<<"completed">>) EXCEPT !["report_agent"] = <<"failed">>,
                                                       !["performance_agent"] = <<"running">>]},
        attempt \in {1, 3}}

\* Findings of every source, alone and together.
Unsevere(id, rule, category, scope, severity, places) ==
    [id |-> id, rule |-> rule, category |-> category, scope |-> scope, severity |-> severity,
     title |-> rule, cited |-> << >>, context |-> << >>, subtypes |-> << >>, places |-> places]
PlaceOn(page, observed) == [page |-> page, spot |-> "page", observed |-> observed]
AnalysisLists ==
    {<< >>, <<Lcp("f1", "home", "medium", <<"3s">>), Lcp("f2", "about", "high", <<"9s">>)>>,
     <<Lcp("f1", "home", "high", <<"3s">>), [Lcp("f2", "home", "low", Untold) EXCEPT !.code = "seo", !.category = "seo"],
       [Lcp("f3", "about", "critical", <<"x">>) EXCEPT !.code = "seo", !.category = "seo"]>>}
DiagnosticLists ==
    {<< >>,
     <<Unsevere("d1", "thin", "near_duplicate", "site", "informational", {PlaceOn("home", Untold), PlaceOn("about", Untold)}),
       [Unsevere("d2", "repeated_issue_pattern", "repeated_pattern", "template", "medium",
                 {PlaceOn(Untold, <<"x">>)}) EXCEPT !.subtypes = <<"lcp">>],
       Unsevere("d3", "headers", "security", "site", "low", {PlaceOn("elsewhere", Untold)})>>}
Audit(page, severity, nodes) == [page |-> page, findings |-> <<[id |-> page, rule |-> "alt", severity |-> severity, nodes |-> nodes]>>]
AuditLists ==
    {<< >>, <<Audit("home", "serious", {<<"img">>}), Audit("about", "low", {<<"img">>, <<"a">>})>>,
     <<Audit("home", "critical", {}), Audit("about", "minor", {<<"img">>})>>}
MatrixRow(page, result, chromium, webkit) ==
    [page |-> page, result |-> result, engines |-> [chromium |-> chromium, webkit |-> webkit]]
MatrixLists ==
    {<< >>, <<MatrixRow("home", "incompatible", "compatible", "incompatible"),
              MatrixRow("about", "partially_compatible", "compatible", "partially_compatible")>>}
Tier0Lists ==
    {<< >>, <<[page |-> "home", viewports |-> << <<"overflow", "taps">>, <<"overflow", "clipped">> >>],
              [page |-> "about", viewports |-> << <<"taps">>, << >> >>]>>}
Action(title, identity, effort) == [title |-> title, identity |-> identity, effort |-> effort]
Plans == {Untold, << >>, <<Action(<<"slow">>, <<"lcp">>, "low"), Action(<<"slow">>, <<"f2">>, "low"),
                           Action(<<"alt">>, <<"alt">>, "high")>>}
Finding0 ==
    {[Exemplar EXCEPT !.analysis = a, !.diagnostics = Diagnostics("completed", d), !.audits = u, !.matrix = m,
                      !.tier0 = t, !.plan = p] :
        a \in AnalysisLists, d \in DiagnosticLists, u \in AuditLists, m \in MatrixLists, t \in Tier0Lists,
        p \in Plans}

\* Evidence there or missing.
Evidenced ==
    {[Exemplar EXCEPT !.result = result, !.score = score, !.homeScore = home, !.diagnostics = d, !.audits = audits,
                      !.artifact = artifact, !.status = status, !.analysis = analysis, !.repository = ~result,
                      !.uat = IF result THEN "complete" ELSE "partial", !.deep = IF artifact THEN 2 ELSE 0] :
        result \in BOOLEAN, artifact \in BOOLEAN, status \in {"completed", "partial", "failed"},
        score \in {Untold, GoodScore, [GoodScore EXCEPT !.confidence = 60, !.overall = Untold]},
        home \in {Untold, [confidence |-> 40]}, d \in {Untold, Diagnostics("partial", << >>), Diagnostics("completed", << >>)},
        audits \in {<< >>, Exemplar.audits}, analysis \in {<< >>, Exemplar.analysis}}

MCRetained == SeenSites \cup Driving \cup Staged \cup Finding0 \cup Evidenced
ReportsIdle == ReportsWith({Untold})
=============================================================================
