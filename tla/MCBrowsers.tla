------------------------------ MODULE MCBrowsers ------------------------------
(* The cross-browser stage on small sites, two engines and two viewports.    *)
EXTENDS BrowserCompatibility, TLC

Sight(state, fails, warns, ms, items, toggle) ==
    [state |-> state, fails |-> fails, warns |-> warns, ms |-> ms, items |-> items,
     toggle |-> toggle]

\* A site beyond the limit, one where two pages end at one address and one is left out
\* after it was counted, and a single page.
MCPageLists == {{"home", "p", "q"}, {"home", "twin", "x"}, {"p"}}
MCAddress == "home" :> "u1" @@ "p" :> "u2" @@ "q" :> "u3" @@ "twin" :> "u1" @@ "x" :> "u4"
MCUrlRank == "u1" :> 4 @@ "u2" :> 2 @@ "u3" :> 3 @@ "u4" :> 1
MCShaRank == "u1" :> 1 @@ "u2" :> 3 @@ "u3" :> 2 @@ "u4" :> 4

\* Good, slow with remarks, broken, and timed out.
Good == Sight("tested", FALSE, FALSE, 10, 3, FALSE)
MCSights ==
    [x \in DOMAIN MCAddress |->
        IF x # "home" THEN {Good}
        ELSE {Good, Sight("tested", FALSE, TRUE, 14, 1, TRUE),
              Sight("tested", TRUE, FALSE, 10, Nothing, Nothing),
              Sight("inconclusive", FALSE, FALSE, 99, Nothing, Nothing)}]

MCScope == "Chrome" :> [channel |-> "chrome", platforms |-> {"windows", "macos"},
                        engine |-> "chromium"]
           @@ "Edge" :> [channel |-> "msedge", platforms |-> {"windows"}, engine |-> "chromium"]
Tier0Row(c, p, u) == [channel |-> c, platform |-> p, page |-> u]
MCEvidences ==
    {<< >>,
     Tier0Row("chrome", "windows", "u1") :> "pass" @@ Tier0Row("chrome", "windows", "u2") :> "fail",
     Tier0Row("chrome", "windows", "u1") :> "pass" @@ Tier0Row("chrome", "macos", "u1") :> "pass"
        @@ Tier0Row("msedge", "windows", "u1") :> "pass",
     Tier0Row("chrome", "macos", "u1") :> "pass" @@ Tier0Row("chrome", "macos", "u2") :> "fail"
        @@ Tier0Row("chrome", "windows", "u2") :> "pass",
     Tier0Row("msedge", "beos", "u1") :> "fail"}
MCDriven == <<"chromium", "webkit">>
MCViewports == <<"Desktop", "Mobile">>

\* Tier 0 has an effect on the report alone, so it goes with the smallest site.
MCCompatInit ==
    CompatWith([pages: MCPageLists, evidence: {<< >>}] \cup [pages: {{"p"}}, evidence: MCEvidences])
CompatIdle == CompatWith([pages: {{"p"}}, evidence: {<< >>}])
=============================================================================
