------------------------------ MODULE PageScores ------------------------------
(***************************************************************************)
(* The score of a page (scoring_formula.py), the score executions made of   *)
(* the pages of a website and their trend (scoring_intelligence.py). How an *)
(* execution is kept under its key is in Documents. Scores are integers, and *)
(* a mean is rounded as the code rounds it; "created_at" is the place in    *)
(* the sequence. The worker scores pages it has loaded; a stored score may  *)
(* lack any category.                                                       *)
(***************************************************************************)
EXTENDS Integers, Sequences, FiniteSets
LOCAL INSTANCE SequencesExt
LOCAL INSTANCE FiniteSetsExt

CONSTANTS
    Histories,  \* what was measured for the executions of a website, oldest first
    Unrated     \* a score nobody could measure

VARIABLES measured, rated

scoreVars == <<measured, rated>>

WeightOf ==
    [performance |-> 25, accessibility |-> 20, best_practices |-> 15, seo |-> 20,
     technical_quality |-> 20]
Categories == DOMAIN WeightOf
LighthouseCategories == Categories \ {"technical_quality"}

Deduction == [critical |-> 25, high |-> 15, medium |-> 8, low |-> 3, informational |-> 0]
-----------------------------------------------------------------------------
\* Half of a unit is rounded up.
Rounded(numerator, denominator) == (2 * numerator + denominator) \div (2 * denominator)

\* The first finding of each code that a browser or the response gave rise to.
EachDeducted(findings) ==  \* mutant
    {k \in DOMAIN findings : findings[k].source \in {"playwright", "http"}}
Deducted(findings) ==
    LET own == {k \in DOMAIN findings : findings[k].source \in {"playwright", "http"}}
    IN {k \in own : \A j \in own : findings[j].code = findings[k].code => k <= j}

TechnicalQuality(findings) ==
    LET lost == MapThenSumSet(LAMBDA k : Deduction[findings[k].severity], Deducted(findings))
    IN IF lost > 100 THEN 0 ELSE 100 - lost

CategoryScores(m) ==
    [c \in Categories |->
        IF c # "technical_quality" THEN m.lighthouse[c]
        ELSE IF m.loaded THEN TechnicalQuality(m.findings) ELSE Unrated]

Rated(scores) == {c \in Categories : scores[c] # Unrated}

Overall(scores) ==
    IF Rated(scores) = {} THEN Unrated
    ELSE Rounded(MapThenSumSet(LAMBDA c : scores[c] * WeightOf[c], Rated(scores)),
                 MapThenSumSet(LAMBDA c : WeightOf[c], Rated(scores)))

\* The browser measures all of a page it has loaded, or nothing.
ScoreConfidence(m) ==
    15 * Cardinality({c \in LighthouseCategories : m.lighthouse[c] # Unrated})
    + (IF m.loaded THEN 25 ELSE 0) + (IF m.succeeded THEN 10 ELSE 0)
    + (IF m.completed THEN 5 ELSE 0)

ConfidenceClass(percent) ==
    CASE percent >= 90 -> "high" [] percent >= 70 -> "medium" [] percent >= 1 -> "low"
      [] OTHER -> "unavailable"

\* Every registered profile has the thresholds 50 and 90; the outer bands halve what is left.
Band(score) ==
    CASE score = Unrated -> "unavailable"
      [] score < 25 -> "critical" [] score < 50 -> "poor" [] score < 90 -> "needs_improvement"
      [] score < 95 -> "good" [] OTHER -> "excellent"

-----------------------------------------------------------------------------
Execution(m) ==
    LET scores == CategoryScores(m) IN
    [formula |-> m.formula, profile |-> m.profile, overall |-> Overall(scores), scores |-> scores,
     status  |-> IF Overall(scores) = Unrated THEN "unavailable" ELSE "completed",
     confidence |-> ScoreConfidence(m), class |-> ConfidenceClass(ScoreConfidence(m)),
     bands |-> [c \in Categories |-> Band(scores[c])],
     covered |-> Cardinality(Rated(scores))]

Delta(new, old) == IF Unrated \in {new, old} THEN Unrated ELSE new - old

\* The newest execution before this one that has a score, of whatever formula and profile.
Predecessor(executions, k) ==
    Max({0} \cup {j \in 1..(k - 1) : executions[j].status = "completed"})

NoTrend(state) == [state |-> state, delta |-> Unrated, deltas |-> << >>, coverage |-> Unrated]

Trend(executions, k) ==
    LET p == Predecessor(executions, k)  new == executions[k]  old == executions[p]
        delta == Delta(new.overall, old.overall)
    IN IF p = 0 THEN NoTrend("unavailable")
       ELSE IF <<old.formula, old.profile>> # <<new.formula, new.profile>>
            THEN NoTrend("incompatible")
       ELSE [state |-> CASE delta = Unrated -> "unavailable" [] delta > 0 -> "improved"
                         [] delta < 0 -> "declined" [] OTHER -> "unchanged",
             delta |-> delta,
             deltas |-> [c \in Categories |-> Delta(new.scores[c], old.scores[c])],
             coverage |-> new.covered - old.covered]

ScoreAll ==
    /\ rated = Unrated
    /\ LET executions == [k \in DOMAIN measured |-> Execution(measured[k])] IN
       rated' = [k \in DOMAIN measured |->
                    [execution |-> executions[k], trend |-> Trend(executions, k)]]
    /\ UNCHANGED measured

-----------------------------------------------------------------------------
ScoresWith(histories) == measured \in histories /\ rated = Unrated
ScoresInit == ScoresWith(Histories)
ScoresNext == ScoreAll
ScoresSpec == ScoresInit /\ [][ScoresNext]_scoreVars

-----------------------------------------------------------------------------
\* What the scores of a website say is true of what was measured.

\* A category draws the score of a page towards its own, however much is missing: one that
\* could not be measured counts neither as nothing nor as perfect. Nothing but the rounding is
\* lost.
CategoriesPull ==
    \A k \in DOMAIN rated : LET e == rated[k].execution IN
        /\ e.overall = Unrated <=> Rated(e.scores) = {}
        /\ e.overall # Unrated =>
             LET weight == MapThenSumSet(LAMBDA c : WeightOf[c], Rated(e.scores))
                 off == MapThenSumSet(LAMBDA c : (e.overall - e.scores[c]) * WeightOf[c], Rated(e.scores))
             IN 2 * off <= weight /\ 2 * off >= -weight
        /\ \A c \in Rated(e.scores) :
             LET rest == Overall([e.scores EXCEPT ![c] = Unrated])
             IN rest # Unrated =>
                /\ e.scores[c] >= rest => e.overall >= rest /\ e.overall <= e.scores[c]
                /\ e.scores[c] <= rest => e.overall <= rest /\ e.overall >= e.scores[c]

\* What is found again on a page costs nothing, what is found besides gives nothing back, and
\* nothing costs more than its severity.
FindingsCostOnce ==
    \A k \in DOMAIN measured : LET findings == measured[k].findings IN
        \A n \in DOMAIN findings :
            LET before == TechnicalQuality(SubSeq(findings, 1, n - 1))
                after  == TechnicalQuality(SubSeq(findings, 1, n))
                again  == \E j \in 1..(n - 1) : /\ findings[j].code = findings[n].code
                                                /\ findings[j].source # "lighthouse"
            IN /\ after <= before /\ before - after <= Deduction[findings[n].severity]
               /\ again \/ findings[n].source = "lighthouse" => after = before

\* Full confidence is for a page of which everything was measured, high confidence for one with
\* all categories, and an execution without any has nothing to show.
ConfidenceIsEarned ==
    \A k \in DOMAIN rated : LET m == measured[k]  e == rated[k].execution IN
        /\ e.confidence = 100 <=>
             e.covered = Cardinality(Categories) /\ m.succeeded /\ m.completed
        /\ e.class = "high" => e.covered = Cardinality(Categories)
        /\ e.class = "unavailable" => e.overall = Unrated

\* A worse category is in no better band.
BandsAreRanked ==
    \A j, k \in DOMAIN rated, c, d \in Categories :
        LET x == rated[j].execution  y == rated[k].execution
            order == <<"critical", "poor", "needs_improvement", "good", "excellent">>
        IN Unrated \notin {x.scores[c], y.scores[d]} /\ x.scores[c] <= y.scores[d] =>
            \E a, b \in DOMAIN order : a <= b /\ x.bands[c] = order[a] /\ y.bands[d] = order[b]

\* The trend of an execution is towards the last one that has a score: the differences told
\* along a history add up, unless one was told to be incompatible. A page that is better or
\* worse with the same categories is so in one of them.
TrendOf(k) == rated[k].trend
TrendsAddUp ==
    \A j, k \in DOMAIN rated : j < k /\ {rated[j].execution.status, rated[k].execution.status} = {"completed"} =>
        LET between == {n \in (j + 1)..k : rated[n].execution.status = "completed"} IN
        (\A n \in between : TrendOf(n).state # "incompatible") =>
            rated[k].execution.overall - rated[j].execution.overall
                = MapThenSumSet(LAMBDA n : TrendOf(n).delta, between)
ChangesHaveCauses ==
    \A k \in DOMAIN rated : TrendOf(k).state \in {"improved", "declined"} =>
        \/ \E c \in Categories : /\ TrendOf(k).deltas[c] # Unrated
                                 /\ TrendOf(k).deltas[c] # 0
                                 /\ TrendOf(k).deltas[c] > 0 <=> TrendOf(k).state = "improved"
        \/ \E c \in Categories : /\ TrendOf(k).deltas[c] = Unrated
                                 /\ \E j \in 1..k : rated[j].execution.scores[c] # Unrated

ScoresAreSound ==
    rated # Unrated =>
        /\ CategoriesPull /\ FindingsCostOnce /\ ConfidenceIsEarned /\ BandsAreRanked
        /\ TrendsAddUp /\ ChangesHaveCauses

\* Not kept by the code. A page improves when its worst category can no longer be measured; a
\* finding that is reported twice costs what its first report says, whatever the second.
ImprovementIsMeasured ==
    rated # Unrated => \A k \in DOMAIN rated :
        TrendOf(k).state = "improved" => \E c \in Categories :
            TrendOf(k).deltas[c] # Unrated /\ TrendOf(k).deltas[c] > 0
WorstReportCounts ==
    rated # Unrated => \A k \in DOMAIN measured : \A n \in DOMAIN measured[k].findings :
        LET f == measured[k].findings[n]
        IN f.source # "lighthouse" =>
              TechnicalQuality(measured[k].findings) <= 100 - Deduction[f.severity]
=============================================================================
