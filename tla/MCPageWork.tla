----------------------------- MODULE MCPageWork -----------------------------
(* The tasks that work on the pages of a website, and the deliveries of one *)
(* analysis run. They write different rows and are explored one at a time.  *)
EXTENDS SitePages, AnalysisRun, TLC

VARIABLE part
allVars == <<part, pageVars, runVars>>

Init == part \in {"pages", "run"} /\ PagesInit /\ RunInit
Next ==
    \/ part = "pages" /\ PagesNext /\ UNCHANGED <<part, runVars>>
    \/ part = "run" /\ RunNext /\ UNCHANGED <<part, pageVars>>
Spec == Init /\ [][Next]_allVars

\* Three pages, of which a crawl finds two or three, one of them excluded; one is a
\* document, one redirects to the first.
Found(depth, eligible, critical) ==
    [depth |-> depth, eligible |-> eligible, critical |-> critical]
Crawls0 == {[u \in Urls |-> CASE u = "home" -> Found(0, TRUE, TRUE)
                              [] u = "a"    -> Found(1, TRUE, FALSE)
                              [] OTHER      -> None],
            [u \in Urls |-> CASE u = "home" -> Found(0, TRUE, TRUE)
                              [] u = "a"    -> Found(1, FALSE, FALSE)
                              [] OTHER      -> Found(1, TRUE, FALSE)]}
Webs0 == {[u \in Urls |-> CASE u = "a" -> "home" [] u = "b" -> "document" [] OTHER -> "html"]}
SameHost0 == {<<"a", "home">>}
Rank0 == "home" :> 1 @@ "a" :> 2 @@ "b" :> 3
HashRank0 == "home" :> 3 @@ "a" :> 2 @@ "b" :> 1
Interchangeable == Permutations(Crawlers) \cup Permutations(Analysers) \cup Permutations(Deliveries)
=============================================================================
