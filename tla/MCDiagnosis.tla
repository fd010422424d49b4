------------------------------ MODULE MCDiagnosis ------------------------------
(* Small sites, each varied in what one family of findings is about.         *)
EXTENDS SiteDiagnosis, TLC

At(host, secure, path) == [host |-> host, secure |-> secure, path |-> path]
Home0 == At("s", TRUE, "/")
InSite(path) == At("s", TRUE, path)
Written(at) == [at |-> at, form |-> "plain"]
WithSlash(at) == [at |-> at, form |-> "slash"]
MCFamilyOf == "s" :> "s" @@ "www.s" :> "s" @@ "x" :> "x"
MCSectionOf == "/" :> "/" @@ "/a" :> "a" @@ "/b" :> "b" @@ "/a/c" :> "a"

\* What the first level stores of a page, and what the second one leaves out.
Seen0(at) ==
    [title |-> "t", description |-> "d", h1 |-> 1, language |-> "en", content |-> Absent,
     template |-> Absent, final |-> Written(at), http |-> 200, hops |-> << >>, meta |-> {},
     header |-> {}, canonicals |-> << >>, links |-> 1, media |-> "html", cache |-> Absent,
     structured |-> TRUE, security |-> [h \in SecurityHeaders |-> Absent]]
Deep0(at) ==
    [Seen0(at) EXCEPT !.h1 = 0, !.language = Absent, !.http = Absent, !.media = Absent,
                      !.structured = Absent, !.security = Absent]
Rendered0(at) == [Seen0(at) EXCEPT !.media = Absent, !.structured = Absent, !.security = Absent]
Level1(facts) == [id |-> 1, mine |-> FALSE, ok |-> TRUE, level |-> 1, facts |-> facts]
Level2(facts) == [id |-> 2, mine |-> FALSE, ok |-> TRUE, level |-> 2, facts |-> facts]
Failed1 == [id |-> 1, mine |-> FALSE, ok |-> FALSE, level |-> 1, facts |-> Seen0(Home0)]

LinkFrom(at, raw) == [source |-> "page_link", page |-> at, raw |-> raw]
InList == [source |-> "sitemap", page |-> Absent, raw |-> Absent]
PageWith(at, facts) ==
    [at |-> at, original |-> Written(at), final |-> Absent, eligibility |-> "eligible",
     source |-> "page_link", found |-> <<LinkFrom(Home0, Written(at))>>, parent |-> Home0,
     depth |-> 1, robots |-> "allowed", title |-> Absent, canonical |-> Absent,
     pointers |-> {1, 2}, runs |-> {Level1(facts)}, type |-> "page"]
Plain(at) == PageWith(at, Seen0(at))

NoResult == Absent
ResultOf(urls, facts, links, errors, mixed) ==
    [urls |-> urls, facts |-> facts, links |-> links, errors |-> errors, mixed |-> mixed]
Survey(pages) ==
    [pages |-> pages, result |-> NoResult, complete |-> TRUE, family |-> "s", depthLimit |-> 3,
     measured |-> {}]

\* Three pages and their canonical declarations.
Trio == <<Plain(Home0), Plain(InSite("/a")), Plain(InSite("/b"))>>
Targets == {Absent, Written(Home0), Written(InSite("/a")), Written(InSite("/b")),
            Written(At("www.s", FALSE, "/a")), Written(At("x", TRUE, "/")), Garbled}
CanonicalSites ==
    {Survey([i \in 1..3 |-> [Trio[i] EXCEPT !.canonical = c[i]]]) : c \in [1..3 -> Targets]}

\* Where the last page ends, who links to the pages, and what the rendered home page shows.
Moves(at, hops) == [Seen0(InSite("/b")) EXCEPT !.final = Written(at), !.hops = hops]
LinkSites ==
    {[Survey(<<Trio[1], [Trio[2] EXCEPT !.found = found, !.source = "sitemap", !.parent = Absent],
               [Trio[3] EXCEPT !.runs = {Level1(end)}, !.depth = 4]>>)
        EXCEPT !.result = result, !.complete = complete] :
        found \in {<<InList>>, <<LinkFrom(Home0, WithSlash(InSite("/a"))), InList>>,
                   <<LinkFrom(InSite("/b"), Written(InSite("/a"))), LinkFrom(InSite("/b"), WithSlash(InSite("/a")))>>},
        end \in {Seen0(InSite("/b")), Moves(InSite("/a"), <<InSite("/b"), InSite("/a")>>),
                 Moves(Home0, <<InSite("/b")>>), [Seen0(InSite("/b")) EXCEPT !.http = 404, !.links = 0],
                 [Seen0(InSite("/b")) EXCEPT !.meta = {"noindex"}, !.header = {"index", "noindex"}]},
        result \in {NoResult,
                    ResultOf({Home0}, Rendered0(Home0),
                             <<Written(At("www.s", FALSE, "/a")), Written(At("x", TRUE, "/")), Garbled,
                               Written(InSite("/b"))>>, <<"e">>, 1)},
        complete \in BOOLEAN}

\* Four pages and their words, the home page having one or two of them; texts are stored as the
\* tests of the service store them.
Texts == {Absent, {1}, {1, 2}, {2, 3}, {1, 2, 3}}
CopySites ==
    {Survey([i \in 1..4 |->
        PageWith(<<Home0, InSite("/a"), InSite("/a/c"), InSite("/b")>>[i],
                 [Seen0(Home0) EXCEPT !.content = IF w[i] = Absent THEN Absent
                                                  ELSE [text |-> w[i], words |-> w[i]],
                                      !.final = Absent, !.template = "m"])]) :
        w \in {w \in [1..4 -> Texts] : w[1] \in {{1}, {1, 2}, {2, 3}}}}

\* The evidence of three pages: none, of a failed run, of either level or only of the result,
\* which belongs to the first two of them.
Bare(at) == [Plain(at) EXCEPT !.runs = {}]
Foreign(at) == PageWith(at, [Seen0(at) EXCEPT !.title = Absent, !.description = Absent, !.h1 = 2,
                                              !.language = "fr", !.structured = FALSE])
Twice(at) == [Plain(at) EXCEPT !.runs = {Level1(Seen0(at)), Level2(Deep0(at))}]
Usual(at) == {Bare(at), Foreign(at), Twice(at)}
Seldom(at) ==
    {[Bare(at) EXCEPT !.title = "t"], [Plain(at) EXCEPT !.runs = {Failed1}],
     [Plain(at) EXCEPT !.eligibility = "excluded"]}
ResultWith(errors) == ResultOf({Home0, InSite("/a")}, Rendered0(Home0), << >>, errors, 0)
Measurements == {[name |-> "lcp", at |-> InSite(path), id |-> 1] : path \in {"/", "/a", "/b"}}
EvidenceSites ==
    {[Survey(<<p, q, r>>) EXCEPT !.result = with[1], !.measured = with[2]] :
        p \in Usual(Home0) \cup Seldom(Home0), q \in Usual(InSite("/a")) \cup Seldom(InSite("/a")),
        r \in Usual(InSite("/a/c")),
        with \in {<<NoResult, Measurements>>, <<ResultWith(<<"e", "f">>), Measurements>>,
                  <<ResultWith(<<"e", "f", "e">>), {}>>}}

MCSurveyed == CanonicalSites \cup LinkSites \cup CopySites \cup EvidenceSites
DiagnosisIdle == DiagnosisWith({<< >>})
=============================================================================
