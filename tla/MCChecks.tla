------------------------------- MODULE MCChecks -------------------------------
(* Pages, each varied in what one family of checks is about, and small sites. *)
EXTENDS PageDiagnostics, TLC

HeaderNames == MatrixHeaders \cup {"server", "powered"}
SoundPage ==
    [https |-> TRUE, time |-> "enough", tls |-> TRUE, redirect |-> "moves",
     header |-> [h \in HeaderNames |-> IF h \in {"server", "powered"} THEN "absent" ELSE "right"],
     csp |-> [directives |-> {"default-src", "object-src", "base-uri", "frame-ancestors"},
              sources |-> {}],
     mixed |-> 0, views |-> << >>, scriptErrors |-> FALSE, markup |-> "tree", messages |-> << >>,
     dom |-> [slips |-> 0, ids |-> <<1>>, lang |-> "right", titles |-> <<"fine">>, headings |-> <<1, 2>>,
              deprecated |-> << >>, blankMetas |-> 0, twiceMetas |-> 0, charsets |-> 1,
              canonicals |-> <<"given">>, viewports |-> <<"right">>, emptyHrefs |-> 0,
              emptySources |-> 0],
     cache |-> [html |-> "long", sampled |-> <<"long">>, candidates |-> 1],
     privacy |-> [kind |-> "page", age |-> 30], years |-> {"now"},
     measured |-> {}, contained |-> {}, trackers |-> {}, consent |-> TRUE, requests |-> << >>,
     description |-> "fine", unlabelled |-> 0,
     measures |-> [k \in DOMAIN ScoreThresholds \cup DOMAIN MetricThresholds |-> Unseen]]

\* Transport and headers, the policies by what they restrict and allow.
Policies ==
    {[directives |-> {"upgrade-insecure-requests"}, sources |-> {}],
     [directives |-> {"default-src", "frame-ancestors"}, sources |-> {"inline", "nonce"}],
     [directives |-> {"script-src"}, sources |-> {"inline"}],
     [directives |-> {"frame-ancestors"}, sources |-> {}], SoundPage.csp}
Protected ==
    {[SoundPage EXCEPT !.https = https, !.mixed = mixed, !.csp = csp, !.header["hsts"] = hsts,
                   !.header["csp"] = given, !.header["frame"] = frame, !.header["sniff"] = sniff] :
        https \in BOOLEAN, mixed \in 0..1, csp \in Policies, given \in {"absent", "empty", "right"},
        hsts \in {"absent", "empty", "right", "wrong"}, frame \in {"absent", "empty", "right"},
        sniff \in {"absent", "right", "wrong"}}
Asking ==
    {[SoundPage EXCEPT !.https = https, !.time = time, !.tls = tls, !.redirect = redirect, !.privacy = privacy,
                   !.messages = messages] :
        https \in BOOLEAN, time \in {"enough", "spent", "gone"}, tls \in BOOLEAN,
        redirect \in {"moves", "stays", Unseen},
        privacy \in {[kind |-> k, age |-> Unseen] : k \in {"absent", "document", "elsewhere", "unreachable", "page"}}
                    \cup {[kind |-> "page", age |-> a] : a \in {365, 366}},
        messages \in {Unseen, <<"failure">>, <<"error", "info">>}}
OneHeader == {[SoundPage EXCEPT !.header[h] = v] : h \in HeaderNames \ {"csp"}, v \in {"absent", "empty", "right"}}

View(name, passed, overflow, taps) == [name |-> name, passed |-> passed, overflow |-> overflow, taps |-> taps]
Tap(spaced) == [key |-> "icon", spaced |-> spaced]
Views == {View("mobile", FALSE, FALSE, << >>), View("mobile", TRUE, TRUE, <<Tap(TRUE), Tap(FALSE)>>),
          View("mobile", TRUE, FALSE, <<Tap(FALSE)>>)}
Viewed == {[SoundPage EXCEPT !.views = v, !.dom.viewports = d, !.scriptErrors = e] :
              v \in {<< >>} \cup {<<a>> : a \in Views} \cup {<<a, b>> : a, b \in Views},
              d \in {<< >>, <<"empty">>, <<"right">>}, e \in BOOLEAN}

Documents0 ==
    {[SoundPage EXCEPT !.markup = m] : m \in {"none", "broken"}}
    \cup {[SoundPage EXCEPT !.dom.titles = t, !.dom.canonicals = c, !.dom.lang = l, !.dom.headings = h] :
             t \in {<< >>, <<"empty">>, <<"short">>, <<"fine", "empty">>, <<"empty", "fine">>},
             c \in {<< >>, <<"empty">>, <<"given", "given">>, <<"given">>},
             l \in {"absent", "wrong", "right"}, h \in {<< >>, <<2, 4>>, <<1, 3>>, <<1, 1>>}}
    \cup {[SoundPage EXCEPT !.dom.ids = i, !.dom.slips = s, !.dom.deprecated = d] :
             i \in {<<1>>, <<1, 3>>, <<2, 30>>}, s \in {0, 1, 25}, d \in {<< >>, <<2, 1>>}}
    \* parser errors that leave the list of issues room for one more, or for none
    \cup {[SoundPage EXCEPT !.dom.slips = s, !.dom.titles = << >>, !.dom.lang = l, !.dom.viewports = v] :
             s \in {19, 25}, l \in {"absent", "right"}, v \in {<< >>, <<"right">>}}
    \cup {[SoundPage EXCEPT !.dom.viewports = <<v>>] : v \in {"malformed", "unknown"}}
    \cup {[SoundPage EXCEPT !.dom.twiceMetas = 1, !.dom.blankMetas = 16, !.dom.charsets = 2],
          [SoundPage EXCEPT !.dom.emptyHrefs = 2, !.dom.emptySources = 1, !.description = "short"]}

Request(url, kind, first, flags) ==
    [url |-> url, kind |-> kind, first |-> first, tracker |-> "tracker" \in flags,
     moving |-> "moving" \in flags, leaving |-> "leaving" \in flags, aborted |-> "aborted" \in flags,
     mime |-> "mime" \in flags]
Requests ==
    {Request("a", kind, TRUE, {}) : kind \in {"script", "fetch", "stylesheet", "image"}}
    \cup {Request("a", "stylesheet", TRUE, {"mime"}), Request("a", "script", FALSE, {"tracker"}),
          Request("a", "script", TRUE, {"leaving", "aborted"}), Request("b", "script", FALSE, {}),
          Request("b", "media", TRUE, {"moving", "aborted"})}
\* More failures of one kind than a finding tells, before one of another.
Many == {[k \in 1..22 |-> Request(ToString(k), of[IF k = 22 THEN 2 ELSE 1], TRUE, {"mime"})] :
            of \in [1..2 -> {"script", "stylesheet", "image"}]}
Asked0 == {[SoundPage EXCEPT !.requests = r] :
             r \in [1..2 -> Requests] \cup [1..3 -> {r \in Requests : r.url = "a"}] \cup Many}

Others ==
    {[SoundPage EXCEPT !.cache = [html |-> h, sampled |-> s, candidates |-> c]] :
        h \in {"bare", "long"}, s \in {<< >>, <<"bare", "short", "kept">>, Copies(12, "bare")}, c \in {0, 3, 20}}
    \cup {[SoundPage EXCEPT !.years = y] : y \in SUBSET {"now", "past"}}
    \cup {[SoundPage EXCEPT !.consent = c, !.trackers = t, !.measured = m] :
             c \in BOOLEAN, t \in {{}, {"ga"}}, m \in {{}, {"G-1", "G-2"}}}
    \cup {[SoundPage EXCEPT !.measures.performance = 49, !.measures.lcp = v, !.unlabelled = 1] :
             v \in {2500, 2501, 4001}}

\* Sites of two or three pages that differ in what the summaries count.
Summed == {[SoundPage EXCEPT !.header["frame"] = "absent", !.csp.directives = {}],
           [SoundPage EXCEPT !.header["frame"] = "absent"], [SoundPage EXCEPT !.header["sniff"] = "wrong"],
           [SoundPage EXCEPT !.views = <<View("mobile", FALSE, FALSE, << >>)>>],
           [SoundPage EXCEPT !.views = <<View("mobile", TRUE, FALSE, << >>)>>],
           [SoundPage EXCEPT !.markup = "broken"], [SoundPage EXCEPT !.https = FALSE, !.mixed = 1], [SoundPage EXCEPT !.dom.titles = << >>]}
MCInspected ==
    {<<p>> : p \in Protected \cup Asking \cup OneHeader \cup Viewed \cup Documents0 \cup Asked0 \cup Others}
    \cup [1..2 -> Summed] \cup [1..3 -> Summed]
ChecksIdle == ChecksWith({<< >>})
=============================================================================
