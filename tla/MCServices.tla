------------------------------ MODULE MCServices ------------------------------
(***************************************************************************)
(* Bounded instances of the services behind the routes. They share no state *)
(* at this level, so each is explored by itself: "part" says which one a    *)
(* behaviour is about, the others stay in one initial state.                *)
(***************************************************************************)
EXTENDS ExecutionStart, Documents, ActionPlan, Comparison, MCRepository, MCBrowsers, MCDiagnosis, MCChecks,
    MCReports, MCScores, MCLimits

CONSTANTS key, older

VARIABLE part

serviceVars ==
    <<part, startVars, docVars, planVars, compareVars, repoVars, compatVars, diagnosisVars, checkVars,
      reportVars, scoreVars, limitVars>>

\* The routes start executions of the website w0, or of an address of its own, under one key.
Ask(route, url, project, site, base, settings) ==
    [route |-> route, key |-> "k", url |-> url, project |-> project, site |-> site,
     baseline |-> base, settings |-> settings]
MCAsks ==
    {Ask("real", "u0", NoId, NoId, NoId, "s"), Ask("real", "u1", NoId, NoId, NoId, "s"),
     Ask("journey", NoId, "p0", "w0", NoId, "s"), Ask("reanalysis", NoId, NoId, NoId, "b0", "s"),
     Ask("generic", NoId, "p0", "w0", NoId, "s"), Ask("generic", NoId, "p1", "w0", NoId, "s")}
MCSites == "w0" :> [project |-> "p0", url |-> "u0", since |-> 0]
MCRuns == "b0" :> [site |-> "w0", status |-> "completed"]

\* Pairs of calls for documents of the run r2 under one key, of which one may be a source of
\* the other; a report of r1 and a score of r2 are there.
For(by, kind) ==
    [by |-> by, kind |-> kind, run |-> "r2", base |-> IF kind = "comparison" THEN "r1" ELSE NoDoc,
     key |-> key]
MCErrands == {For("route", kind) : kind \in Kinds}
             \cup {For("tool", kind) : kind \in Kinds \ {"comparison"}}
Paired(e, f) ==
    \/ e = f /\ e.by = "route"
    \/ e.kind = f.kind /\ e.by # f.by
    \/ e = For("tool", "report") /\ f \in {For("route", "diagnostics"), For("route", "score")}
    \/ e = For("route", "report") /\ f = For("tool", "score")
    \/ e = For("route", "comparison") /\ f = For("route", "report")
OldDoc(kind, run) ==
    [identity |-> <<kind, run, NoDoc, older>>, since |-> 0, whole |-> TRUE,
     evidence |-> [results |-> 0, progress |-> << >>, from |-> {}]]
MCDocs == <<older, 1>> :> OldDoc("report", "r1") @@ <<older, 2>> :> OldDoc("score", "r2")
          @@ <<older, 3>> :> OldDoc("plan", "r1")

\* Two findings of one code on a page and one without evidence, a failed page, a page twice
\* and an address without a page, and a fault of eleven pages.
Fault(code, percent, evidence) == [code |-> code, percent |-> percent, evidence |-> evidence]
PageResult(page, deep, observed) == [page |-> page, deep |-> deep, observed |-> observed]
\* 15% of the impact of lcp is a half; that of h1 takes a priority over its limit.
MCMapping ==
    [lcp |-> [severity |-> "high", impact |-> 30, effort |-> "low", business |-> "major"],
     h1  |-> [severity |-> "critical", impact |-> 100, effort |-> "low", business |-> "critical"]]
MCSurveys ==
    {<<PageResult("g1", <<Fault("lcp", 60, TRUE), Fault("lcp", 95, TRUE)>>, <<"h1">>),
       PageResult("g2", <<Fault("lcp", 95, FALSE)>>, <<"h1", "failure">>)>>,
     <<PageResult("g1", <<Fault("h1", 100, TRUE)>>, << >>),
       PageResult("g1", <<Fault("h1", 100, TRUE)>>, << >>),
       PageResult(NoPage, <<Fault("h1", 100, TRUE)>>, << >>)>>,
     [i \in 1..11 |-> PageResult(ToString(i), <<Fault("h1", 100, TRUE)>>, << >>)]}
FirstAction == <<1, <<"h1", "g1">>>>
OtherAction == <<1, <<"h1", "g2">>>>
Wish(bulk, of, to) == [bulk |-> bulk, actions |-> of, to |-> to]
MCWishes ==
    {Wish(TRUE, <<FirstAction, OtherAction, FirstAction>>, "ignored"),
     Wish(FALSE, <<FirstAction>>, "in_progress"), Wish(FALSE, <<FirstAction>>, "resolved"),
     Wish(TRUE, <<OtherAction, FirstAction>>, "reopened"),
     Wish(FALSE, <<OtherAction>>, "acknowledged")}

\* Analyses of the pages p and q in one engine.
Found(rule, mark, engines, pages, severity) ==
    [rule |-> rule, mark |-> mark, engines |-> engines, pages |-> pages, severity |-> severity]
FindingSets ==
    {{}, {Found("z", "a", {}, {}, 1)}, {Found("x", "a", {}, {"p"}, 1)},
     {Found("x", "a", {}, {"p"}, 2)}, {Found("x", "b", {}, {"p"}, 1)},
     {Found("x", "a", {}, {"p"}, 1), Found("x", "a", {}, {"q"}, 1)},
     {Found("y", "a", {"ff"}, {"p"}, 1), Found("x", "a", {}, {"q"}, 3)},
     {Found("y", "a", {"ff"}, {"p", "q"}, 1)}}
Matrices ==
    {<< >>, <<"p", "ff">> :> "compatible",
     <<"p", "ff">> :> "incompatible" @@ <<"q", "ff">> :> "compatible",
     <<"p", "ff">> :> "compatible" @@ <<"q", "ff">> :> "unavailable"}
Snapshot(analysed, findings, matrix, formula, score, actions) ==
    [analysed |-> analysed, findings |-> findings, matrix |-> matrix, formula |-> formula,
     scores |-> [overall |-> score], actions |-> actions]
MCSnapshots ==
    {Snapshot(analysed, findings, matrix, "v1", 50, {}) :
        analysed \in SUBSET {"p", "q"}, findings \in FindingSets, matrix \in Matrices}
    \cup {Snapshot(analysed, {Found("x", "a", {}, {"p"}, 1)}, << >>, "v1", 50, {[title |-> "x", page |-> "p"]}) :
             analysed \in SUBSET {"p", "q"}}
    \cup {Snapshot({"p"}, {}, << >>, formula, score, {}) :
             formula \in {"v1", "v2", NoScore}, score \in {60, NoScore}}

Idle(actors, what) == {[a \in actors |-> what]}
StartsIdle == StartWith(Idle(Starts, Ask("generic", NoId, "p0", "w0", NoId, "s")))
DocsIdle == DocsWith(Idle(Calls, For("route", "plan")))
PlanIdle == PlanWith(Idle(Changes, Wish(FALSE, <<OtherAction>>, "acknowledged")))
CompareIdle == LET empty == Snapshot({"p"}, {}, << >>, "v1", 60, {})
               IN CompareWith({empty}, {empty})

RepoIdle == RepoWith(Idle(RepoCalls, Agent), {NoConnection})

Parts ==
    {"starts", "documents", "plan", "comparison", "repository", "browsers", "diagnosis", "checks",
     "reports", "scores", "limits"}

MCInit ==
    /\ part \in Parts
    /\ IF part = "starts" THEN StartInit ELSE StartsIdle
    /\ IF part = "documents"
       THEN DocsWith({e \in [Calls -> Errands] : \E c, d \in Calls : c # d /\ Paired(e[c], e[d])})
       ELSE DocsIdle
    /\ IF part = "plan" THEN PlanInit ELSE PlanIdle
    /\ IF part = "comparison" THEN CompareInit ELSE CompareIdle
    /\ IF part = "repository" THEN MCRepoInit ELSE RepoIdle
    /\ IF part = "browsers" THEN MCCompatInit ELSE CompatIdle
    /\ IF part = "diagnosis" THEN DiagnosisInit ELSE DiagnosisIdle
    /\ IF part = "checks" THEN ChecksInit ELSE ChecksIdle
    /\ IF part = "reports" THEN ReportsInit ELSE ReportsIdle
    /\ IF part = "scores" THEN ScoresInit ELSE ScoresIdle
    /\ LimitsInit

MCNext ==
    /\ part' = part
    /\ \/ part = "starts" /\ StartNext
          /\ UNCHANGED <<docVars, planVars, compareVars, repoVars, compatVars, diagnosisVars, checkVars, reportVars, scoreVars, limitVars>>
       \/ part = "documents" /\ DocsNext
          /\ UNCHANGED <<startVars, planVars, compareVars, repoVars, compatVars, diagnosisVars, checkVars, reportVars, scoreVars, limitVars>>
       \/ part = "plan" /\ PlanNext
          /\ UNCHANGED <<startVars, docVars, compareVars, repoVars, compatVars, diagnosisVars, checkVars, reportVars, scoreVars, limitVars>>
       \/ part = "comparison" /\ CompareNext
          /\ UNCHANGED <<startVars, docVars, planVars, repoVars, compatVars, diagnosisVars, checkVars, reportVars, scoreVars, limitVars>>
       \/ part = "repository" /\ RepoNext
          /\ UNCHANGED <<startVars, docVars, planVars, compareVars, compatVars, diagnosisVars, checkVars, reportVars, scoreVars, limitVars>>
       \/ part = "browsers" /\ CompatNext
          /\ UNCHANGED <<startVars, docVars, planVars, compareVars, repoVars, diagnosisVars, checkVars, reportVars, scoreVars, limitVars>>
       \/ part = "diagnosis" /\ DiagnosisNext
          /\ UNCHANGED <<startVars, docVars, planVars, compareVars, repoVars, compatVars, checkVars, reportVars, scoreVars, limitVars>>
       \/ part = "checks" /\ ChecksNext
          /\ UNCHANGED <<startVars, docVars, planVars, compareVars, repoVars, compatVars, diagnosisVars, reportVars, scoreVars, limitVars>>
       \/ part = "reports" /\ ReportsNext
          /\ UNCHANGED <<startVars, docVars, planVars, compareVars, repoVars, compatVars, diagnosisVars, checkVars,
                       scoreVars, limitVars>>
       \/ part = "scores" /\ ScoresNext
          /\ UNCHANGED <<startVars, docVars, planVars, compareVars, repoVars, compatVars, diagnosisVars, checkVars, reportVars, limitVars>>
       \/ part = "limits" /\ LimitsNext
          /\ UNCHANGED <<startVars, docVars, planVars, compareVars, repoVars, compatVars, diagnosisVars, checkVars, reportVars, scoreVars>>

\* The same three requests start executions, use the repository and are counted, and two of the
\* clients have the names of the two calls.
Interchangeable == Permutations(Starts) \cup Permutations(Calls)

MCSpec == MCInit /\ [][MCNext]_serviceVars

=============================================================================
