------------------------------ MODULE Comparison ------------------------------
(***************************************************************************)
(* What analysis_comparison.py concludes from the report snapshots of two   *)
(* analyses of a website: which findings are resolved, persistent or new,   *)
(* how scores, coverage and browser results moved, and what became of the   *)
(* actions. A comparison is a function of the two snapshots; the only step  *)
(* makes it.                                                                *)
(***************************************************************************)
EXTENDS Integers, FiniteSets

CONSTANTS
    Snapshots,      \* the report snapshots compared
    Engines,
    NoScore, NoComparison

\* A snapshot: the pages analysed; the findings, each with a rule, a selector or observed
\* value that is part of its identity, the engines it was seen in, its pages and its
\* severity; the browser states of pages in engines; the scores and the version of their
\* formula, a category with no score being excluded; the actions, each with a title and a
\* page. The title of an action is the rule of its finding. A severity is its rank, and the
\* categories that are scored are always the same.

ASSUME ComparisonAssumption ==
    /\ NoScore \notin Int
    /\ \A s \in Snapshots :
          /\ IsFiniteSet(s.analysed) /\ IsFiniteSet(s.findings)
          /\ \A f \in s.findings : f.severity \in Int
          /\ \A c \in DOMAIN s.scores : s.scores[c] \in Int \cup {NoScore}
    /\ \A s, o \in Snapshots : DOMAIN s.scores = DOMAIN o.scores

VARIABLES baseline, current, comparison

compareVars == <<baseline, current, comparison>>

-----------------------------------------------------------------------------
\* Findings with the same identity are merged: the pages of all, the severity of one.
KeyOf(f) == [rule |-> f.rule, mark |-> f.mark, engines |-> f.engines]
FindingKeys(s) == {KeyOf(f) : f \in s.findings}
Finding(s, key) ==
    LET same == {f \in s.findings : KeyOf(f) = key} IN
    [pages |-> UNION {f.pages : f \in same},
     severity |-> (CHOOSE f \in same : TRUE).severity]

\* The pairs of page and engine with a result; the matrix states only tested ones.
Untested == {"not_tested", "unavailable"}
BrowserPairs(s) == {pair \in DOMAIN s.matrix : s.matrix[pair] \notin Untested}

ComparableOldByPage(before, after, key) ==  \* mutant
    Finding(before, key).pages \subseteq after.analysed

\* Absence counts as resolution only where everything the finding was seen on has been
\* looked at again.
ComparableOld(before, after, key) ==
    LET pages == Finding(before, key).pages IN
    /\ pages # {} /\ pages \subseteq after.analysed
    /\ Cardinality(after.analysed) >= Cardinality(before.analysed)
    /\ pages \X key.engines \subseteq BrowserPairs(after)

ComparableNew(before, after, key) ==
    LET pages == Finding(after, key).pages IN pages # {} /\ pages \subseteq before.analysed

Gone(before, after) == FindingKeys(before) \ FindingKeys(after)
Resolved(before, after) ==
    {key \in Gone(before, after) : ComparableOld(before, after, key)}

Movement(from, to) ==
    IF from = NoScore \/ to = NoScore THEN "Not comparable"
    ELSE IF from = to THEN "Unchanged" ELSE IF to > from THEN "Improved" ELSE "Regressed"

CompareFindings(before, after) ==
    LET both == FindingKeys(before) \cap FindingKeys(after)
        came == FindingKeys(after) \ FindingKeys(before)
        new  == {key \in came : ComparableNew(before, after, key)}
        resolved == Resolved(before, after)
        direction(key) == Movement(Finding(after, key).severity, Finding(before, key).severity)
    IN [resolved     |-> resolved,
        persistent   |-> both,
        improved     |-> {key \in both : direction(key) = "Improved"},
        new          |-> new,
        regressions  |-> new \cup {key \in both : direction(key) = "Regressed"},
        inconclusive |-> (Gone(before, after) \ resolved) \cup (came \ new)]

-----------------------------------------------------------------------------
Difference(from, to) == IF from = NoScore \/ to = NoScore THEN NoScore ELSE to - from

CompareScores(before, after) ==
    LET same == before.formula # NoScore /\ before.formula = after.formula
        was == before.scores  is == after.scores
    IN [delta |-> [c \in DOMAIN was |-> IF same THEN Difference(was[c], is[c]) ELSE NoScore],
        direction |-> [c \in DOMAIN was |-> IF same THEN Movement(was[c], is[c])
                                            ELSE "Not comparable"]]

CompareCoverage(before, after) ==
    [comparable |-> before.analysed = after.analysed /\ before.analysed # {},
     missing    |-> before.analysed \ after.analysed,
     added      |-> after.analysed \ before.analysed]

Tested(s, engine) == {pair \in BrowserPairs(s) : pair[2] = engine}
CompareEngine(before, after, engine) ==
    LET common  == Tested(before, engine) \cap Tested(after, engine)
        missing == Tested(before, engine) \ Tested(after, engine)
        fails(s) == {pair \in common : s.matrix[pair] = "incompatible"}
        fewer   == Cardinality(Tested(after, engine)) < Cardinality(Tested(before, engine))
    IN [broken |-> fails(after) \ fails(before), mended |-> fails(before) \ fails(after),
        untested |-> missing,
        direction |-> IF fewer \/ missing # {} THEN "Inconclusive"
                      ELSE IF fails(after) \ fails(before) # {} THEN "Regressed"
                      ELSE IF fails(before) \ fails(after) # {} THEN "Improved"
                      ELSE IF common # {} THEN "Unchanged" ELSE "Not comparable"]

\* Actions are matched by title and page, and judged by the findings of their title.
CompareActions(before, after, findings) ==
    LET Titled(keys, a) == \E key \in keys : key.rule = a.title IN
    [a \in before.actions \cup after.actions |->
        IF a \in before.actions \cap after.actions
        THEN IF Titled(findings.improved, a) THEN "Partially improved" ELSE "Still required"
        ELSE IF a \in before.actions
        THEN IF Titled(findings.resolved, a) THEN "Likely resolved" ELSE "Unable to verify"
        ELSE "New action"]

BuildComparison(before, after) ==
    LET findings == CompareFindings(before, after)  scores == CompareScores(before, after)
        coverage == CompareCoverage(before, after)
        engines  == [e \in Engines |-> CompareEngine(before, after, e)]
    IN [findings |-> findings, scores |-> scores, coverage |-> coverage, engines |-> engines,
        actions |-> CompareActions(before, after, findings),
        status |-> IF \/ scores.direction["overall"] = "Not comparable" \/ ~coverage.comparable
                      \/ \E e \in Engines :
                            engines[e].direction \in {"Inconclusive", "Not comparable"}
                   THEN "partial" ELSE "completed"]

-----------------------------------------------------------------------------
CompareWith(before, after) ==
    /\ baseline \in before /\ current \in after
    /\ comparison = NoComparison

CompareInit == CompareWith(Snapshots, Snapshots)

Compare ==
    /\ comparison = NoComparison
    /\ comparison' = BuildComparison(baseline, current)
    /\ UNCHANGED <<baseline, current>>

CompareNext == Compare
CompareSpec == CompareInit /\ [][CompareNext]_compareVars

-----------------------------------------------------------------------------
Compared == comparison # NoComparison
Opposite(direction) ==
    CASE direction = "Improved" -> "Regressed" [] direction = "Regressed" -> "Improved"
      [] OTHER -> direction

\* Every finding of either analysis is given one verdict.
OneVerdictEach ==
    Compared => LET f == comparison.findings
                    verdicts == {f.resolved, f.persistent, f.new, f.inconclusive} IN
        /\ UNION verdicts = FindingKeys(baseline) \cup FindingKeys(current)
        /\ Cardinality(f.resolved) + Cardinality(f.persistent) + Cardinality(f.new)
             + Cardinality(f.inconclusive) = Cardinality(UNION verdicts)
        /\ f.regressions \cap (f.resolved \cup f.inconclusive \cup f.improved) = {}

\* A finding is resolved only if each page and engine it was seen on was tested again and
\* did not show it, and no fewer pages were analysed; an engine improved only if nothing it
\* was tested on went untested or broke.
ResolvedIsEarned ==
    Compared =>
        /\ \A f \in baseline.findings : KeyOf(f) \in comparison.findings.resolved =>
              /\ \A page \in f.pages : page \in current.analysed
                    /\ \A e \in f.engines : /\ <<page, e>> \in DOMAIN current.matrix
                                            /\ current.matrix[<<page, e>>] \notin Untested
              /\ \A g \in current.findings : KeyOf(g) # KeyOf(f)
              /\ Cardinality(baseline.analysed \ current.analysed)
                   <= Cardinality(current.analysed \ baseline.analysed)
        /\ \A e \in Engines : comparison.engines[e].direction = "Improved" =>
              \A pair \in DOMAIN baseline.matrix :
                  pair[2] = e /\ baseline.matrix[pair] \notin Untested =>
                      /\ pair \in DOMAIN current.matrix /\ current.matrix[pair] \notin Untested
                      /\ current.matrix[pair] = "incompatible"
                           => baseline.matrix[pair] = "incompatible"

\* Compared the other way round, what was resolved is new, scores move the other way, and
\* what persists persists; an analysis compared with itself has nothing new or resolved.
SwapIsSymmetric ==
    Compared => LET back == BuildComparison(current, baseline) IN
        /\ comparison.findings.resolved \subseteq back.findings.new
        /\ comparison.findings.persistent = back.findings.persistent
        /\ comparison.findings.improved = back.findings.regressions \cap back.findings.persistent
        /\ \A c \in DOMAIN baseline.scores :
              comparison.scores.direction[c] = Opposite(back.scores.direction[c])
        /\ comparison.status = "completed" =>
              \A e \in Engines : comparison.engines[e].mended = back.engines[e].broken
        /\ baseline = current => comparison.findings.regressions = {}
              /\ comparison.findings.resolved = {} /\ comparison.findings.inconclusive = {}

\* Property (analysis_comparison.py:140-765): the verdicts of a comparison, against what the
\* two analyses looked at.
VerdictsAreEarned == OneVerdictEach /\ ResolvedIsEarned /\ SwapIsSymmetric

\* Not kept by the code: a rule is not both resolved and still found on a page it was found
\* on. A finding that loses one of its selectors becomes another finding.
ResolvedIsAbsent ==
    Compared => \A f \in baseline.findings, g \in current.findings :
        KeyOf(f) \in comparison.findings.resolved /\ g.rule = f.rule => f.pages \cap g.pages = {}

\* Not kept by the code: a new finding was looked for before in the engines it is seen in
\* (analysis_comparison.py:737). Only its pages are required.
NewWasLookedFor ==
    Compared => \A key \in comparison.findings.new :
        Finding(current, key).pages \X key.engines \subseteq BrowserPairs(baseline)

\* Not kept by the code: an action likely resolved has no finding of its title left on its
\* page.
ActionIsDone ==
    Compared => \A a \in DOMAIN comparison.actions : comparison.actions[a] = "Likely resolved" =>
        \A g \in current.findings : g.rule = a.title => a.page \notin g.pages
=============================================================================
