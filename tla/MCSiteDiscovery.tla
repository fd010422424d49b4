--------------------------- MODULE MCSiteDiscovery ---------------------------
(* Small websites: links in a cycle and to every kind of URL, variants of a *)
(* query, canonical URLs in a chain and across subdomains, nested sitemaps. *)
EXTENDS SiteDiscovery, TLC

Relations0 == [u \in Urls |-> CASE u = "out" -> "external" [] u = "sub" -> "same_domain"
                                [] OTHER -> "same_origin"]
Families0 == [u \in Urls |-> IF u \in {"q1", "q2"} THEN "q" ELSE "none"]

Bare == [links |-> [u \in Urls |-> <<>>], canonical |-> [u \in Urls |-> "none"],
         rendered |-> <<>>, pages |-> [m \in Sitemaps |-> <<>>],
         nested |-> [m \in Sitemaps |-> <<>>]]

\* A cycle with a page beyond the depth limit, an asset and a refused address.
Deep == [Bare EXCEPT
    !.links = ("home" :> <<"a", "bad", "doc">> @@ "a" :> <<"b", "home", "sub">>
               @@ "b" :> <<"q1", "c">>) @@ @,
    !.canonical = ("c" :> "b") @@ @,
    !.rendered = <<"bad">>,
    !.pages = ("root" :> <<"c">>) @@ @]
\* More than a page's links, the variants of a query and a chain of canonical URLs.
Wide == [Bare EXCEPT
    !.links = ("home" :> <<"q1", "q2", "a", "b">> @@ "a" :> <<"b", "home", "c">>) @@ @,
    !.canonical = ("home" :> "a" @@ "a" :> "b" @@ "q1" :> "q1") @@ @,
    !.nested = ("root" :> <<"bad", "index">> @@ "index" :> <<"root", "more">>) @@ @,
    !.pages = ("index" :> <<>> @@ "more" :> <<"bad", "out">>) @@ @]
\* Subdomains a page names as canonical, a destructive path, canonical URLs in a cycle.
Vouching == [Bare EXCEPT
    !.links = ("home" :> <<"sub", "a", "logout">> @@ "a" :> <<"sub", "out">>
               @@ "sub" :> <<"b">>) @@ @,
    !.canonical = ("home" :> "a" @@ "a" :> "home" @@ "sub" :> "bad") @@ @,
    !.rendered = <<"a">>]
Named == [Vouching EXCEPT !.canonical = ("home" :> "sub" @@ "a" :> "out") @@ @]
\* A chain of canonical URLs whose middle is found before its start.
Chained == [Bare EXCEPT
    !.links = ("home" :> <<"b", "a">> @@ "a" :> <<"b", "c">>) @@ @,
    !.canonical = ("a" :> "b" @@ "b" :> "c") @@ @]

Small == {Deep, Wide, Vouching, Named, Chained}
Rules == {{}, {"a"}, {"b", "home"}}
=============================================================================
