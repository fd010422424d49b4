------------------------------- MODULE MCScores -------------------------------
(***************************************************************************)
(* Scores at the edges of the bands and of the rounding, findings that come *)
(* again, and websites of three executions.                                 *)
(***************************************************************************)
EXTENDS PageScores

Graded(scores, findings) ==
    [lighthouse |-> scores, findings |-> findings, loaded |-> TRUE, succeeded |-> TRUE,
     completed |-> scores # [c \in LighthouseCategories |-> Unrated], formula |-> "v1",
     profile |-> "general"]
Alike(score) == [c \in LighthouseCategories |-> score]
Note(code, source, severity) == [code |-> code, source |-> source, severity |-> severity]
Notes ==
    {Note("console", "playwright", "critical"), Note("console", "http", "low"),
     Note("title", "playwright", "high"), Note("status", "http", "informational"),
     Note("lcp", "lighthouse", "critical")}
Heavy == [n \in 1..6 |-> Note(<<"code", n>>, "playwright", "critical")]

ScoredOnce ==
    {<<Graded(scores, << >>)>> :
        scores \in [LighthouseCategories -> {Unrated, 0, 24, 25, 49, 50, 89, 90, 95, 100}]}
    \cup {<<Graded(Alike(80), findings)>> :
             findings \in {<<f, g, h>> : f, g, h \in Notes} \cup {Heavy}}
    \cup {<<[Graded(Alike(score), << >>) EXCEPT !.loaded = loaded, !.succeeded = good]>> :
             score \in {Unrated, 90}, loaded \in BOOLEAN, good \in BOOLEAN}

Repeated ==
    {Graded(Alike(score), << >>) : score \in {Unrated, 40}}
    \cup {Graded([Alike(60) EXCEPT !.seo = score], << >>) : score \in {Unrated, 10}}
    \cup {[Graded(Alike(Unrated), << >>) EXCEPT !.loaded = FALSE],
          [Graded(Alike(50), <<Note("title", "playwright", "high")>>) EXCEPT !.profile = "strict"],
          [Graded(Alike(50), << >>) EXCEPT !.formula = "v0"]}

MCHistories == ScoredOnce \cup [1..3 -> Repeated]
ScoresIdle == ScoresWith({<< >>})
=============================================================================
