--------------------------- MODULE GatewayRoutes ---------------------------
(***************************************************************************)
(* The register of the routes on the shared Gateway                        *)
(* (scripts/check-gateway-routes.py): every route has its row, the row     *)
(* tells what the manifests do, and the metrics endpoints stay inside.     *)
(*                                                                         *)
(* A path is a sequence of slashes and of the letters its segments are     *)
(* made of: "m" is metrics, "d" debug, "x" anything else.                  *)
(***************************************************************************)
EXTENDS Integers, Sequences, FiniteSets, SequencesExt

-----------------------------------------------------------------------------
(* The routes and their rows *)

\* gateway_routes: the files of apps/ that parse and hold a route whose parent is the Gateway.
OnGateway(files) == SelectSeq(files, LAMBDA f : f.plain /\ f.kind = "HTTPRoute" /\ "Gateway" \in f.parents)
\* find_routes: of two files with one route the last is kept; a route without a namespace
\* is only an error.
Found(files, listed) ==
    LET routes == SelectSeq(OnGateway(files), LAMBDA f : f.ns # "")
        last(r) == CHOOSE i \in DOMAIN routes : routes[i].route = r /\ \A j \in DOMAIN routes : routes[j].route = r => j <= i
    IN [r \in {routes[i].route : i \in DOMAIN routes} |-> routes[last(r)].file \in listed]
FindErrors(files) == {<<"no namespace", f.file>> : f \in {g \in ToSet(OnGateway(files)) : g.ns = ""}}
\* deleted_by_component: the routes the nested patches delete.
Deleted(patches) == {p.route : p \in {q \in patches : q.kind = "HTTPRoute" /\ q.delete}}

\* Mutant: a row for a route that is gone is let be.
CheckRowsOnly(found, rows, deleted) ==
    {<<"no row", r>> : r \in {x \in DOMAIN found : ~\E i \in DOMAIN rows : rows[i].route = x}}
\* check: of two rows for one route the last one is read.
Check(found, rows, deleted) ==
    LET IsLast(i) == \A j \in DOMAIN rows : rows[j].route = rows[i].route => j <= i
        read == {rows[i] : i \in {k \in DOMAIN rows : IsLast(k)}}
        known == {r \in read : r.route \in DOMAIN found}
    IN {<<"listed twice", rows[i].route>> : i \in {k \in DOMAIN rows : ~IsLast(k)}}
       \cup {<<"no row", r>> : r \in {x \in DOMAIN found : ~\E row \in read : row.route = x}}
       \cup {<<"no such route", r.route>> : r \in read \ known}
       \cup {<<"no authentication", r.route>> : r \in {x \in known : x.auth = ""}}
       \cup {<<"served without", r.route>> : r \in {x \in known : x.default /\ x.auth = "none"}}
       \cup {<<"default", r.route>> : r \in {x \in known : x.default # found[x.route]}}
       \cup {<<"private_admin", r.route>> : r \in {x \in known : x.privateAdmin # (x.route \in deleted)}}
       \cup {<<"deletes no route", r>> : r \in deleted \ DOMAIN found}

-----------------------------------------------------------------------------
(* The metrics endpoints *)

Slash == "/"
MetricsPaths == {<<Slash, "m">>, <<Slash, "d", Slash, "m">>}
BenignPaths == {<<Slash>>, <<Slash, "x">>, <<Slash, "x", Slash, "x">>, <<Slash, "m", "x">>, <<Slash, "x", Slash, "m">>}
\* istio_path: exact, a prefix, a suffix, or any.
IstioPath(pattern, path) ==
    CASE pattern.kind = "any" -> TRUE
      [] pattern.kind = "prefix" -> IsPrefix(pattern.path, path)
      [] pattern.kind = "suffix" -> IsSuffix(pattern.path, path)
      [] pattern.kind = "exact" -> pattern.path = path
\* merge_slashes
MergeSlashes(path) ==
    LET merged[k \in 0..Len(path)] ==
          IF k = 0 THEN <<>>
          ELSE IF path[k] = Slash /\ k > 1 /\ path[k-1] = Slash THEN merged[k-1] ELSE Append(merged[k-1], path[k])
    IN merged[Len(path)]
\* slash_spellings: each separator one to three slashes, none to two after the path.
Run(n) == [i \in 1..n |-> Slash]
Segments(base) == SelectSeq(base, LAMBDA c : c # Slash)
SlashSpellings(base) ==
    LET segs == Segments(base)
        spelt(runs) == FlattenSeq([i \in DOMAIN segs |-> Run(runs[i]) \o <<segs[i]>>])
    IN {spelt(runs) \o Run(tail) : runs \in [DOMAIN segs -> 1..3], tail \in 0..2} \ {base, base \o Run(1)}

\* mesh_normalisation: unset is BASE.
Merges(normalisation) == normalisation \in {"MERGE_SLASHES", "DECODE_AND_MERGE_SLASHES"}
\* policies: those of the brick that its kustomization lists.
Policies(files, listed) == {f.policy : f \in {g \in files : g.kind = "AuthorizationPolicy" /\ g.file \in listed}}
\* Mutant: a rule for some callers only counts too.
GatewayDeniesSome(pols, path, merge) ==
    \E p \in pols : p.action = "DENY" /\ p.aimed /\ p.inNamespace /\ \E rule \in p.rules :
       rule.ops = {} \/ \E op \in rule.ops : \E x \in op.paths : IstioPath(x, IF merge THEN MergeSlashes(path) ELSE path)
\* gateway_denies: EVERY request for the path, whoever sends it and to whatever host.
GatewayDenies(pols, path, merge) ==
    LET seen == IF merge THEN MergeSlashes(path) ELSE path
    IN \E p \in pols : p.action = "DENY" /\ p.aimed /\ p.inNamespace /\ \E rule \in p.rules :
          /\ rule.from = {}
          /\ rule.ops = {} \/ \E op \in rule.ops : op.hosts = {} /\ \E x \in op.paths : IstioPath(x, seen)

\* forwards: the backends of the rule that answers the path, Exact before the longest
\* prefix; of two alike the first, and a redirect has none.
Hit(m, path) == IF m.exact THEN m.path = path
                ELSE m.path = <<Slash>> \/ m.path = path \/ IsPrefix(m.path \o <<Slash>>, path)
Score(m) == Len(m.path) + IF m.exact THEN 100 ELSE 0
Forwards(rules, path) ==
    LET hits == {i \in DOMAIN rules : Hit(rules[i], path)}
        best == CHOOSE i \in hits : \A j \in hits : Score(rules[j]) < Score(rules[i]) \/ (Score(rules[j]) = Score(rules[i]) /\ j >= i)
    IN IF hits = {} \/ rules[best].redirect THEN {} ELSE rules[best].backends
\* metrics_problems: each path refused by the policy alone, its spellings too, and by
\* istiod that merges the slashes; what the services serve refused by neither.
MetricsProblems(pols, routes, normalisation) ==
    LET open(base) == {p \in {base, base \o <<Slash>>, base \o <<Slash, "x">>} : ~GatewayDenies(pols, p, FALSE)}
        slashed(base) == {p \in SlashSpellings(base) : ~GatewayDenies(pols, p, FALSE)}
        via(base) == {r \in DOMAIN routes : Forwards(routes[r], base) # {}}
    IN {<<"open", base, via(base)>> : base \in {b \in MetricsPaths : open(b) # {}}}
       \cup {<<"spelling", base, {}>> : base \in {b \in MetricsPaths : slashed(b) # {}}}
       \cup (IF Merges(normalisation) THEN {} ELSE {<<"not merged", <<>>, {}>>})
       \cup {<<"benign", p, {}>> : p \in {b \in BenignPaths : GatewayDenies(pols, b, FALSE) \/ GatewayDenies(pols, b, TRUE)}}
\* scrape_problems: a scrape by URL whose document holds the name of a Gateway host anywhere,
\* which the deny would cut.
Within(name, text) == \E i \in 0..(Len(text) - Len(name)) : SubSeq(text, i + 1, i + Len(name)) = name
ScrapeProblems(scrapes, hosts) ==
    {s \in scrapes : s.kind \in {"VMStaticScrape", "VMProbe"} /\ \E h \in hosts \ {<<>>} : \E t \in {s.url} \cup s.notes : Within(h, t)}

-----------------------------------------------------------------------------
(* What the checks stand for *)

\* A register that passes agrees with the manifests: a row for each route and a route for
\* each row, one row each, that says what is served and what a private install removes.
RegisterAgrees(c) ==
    LET found == Found(c.files, c.listed)
        deleted == Deleted(c.patches)
        routes == {f \in ToSet(c.files) : f.plain /\ f.kind = "HTTPRoute" /\ "Gateway" \in f.parents}
        agrees == /\ \A f \in routes : f.ns # ""
                  /\ \A f \in routes : Cardinality({i \in DOMAIN c.rows : c.rows[i].route = f.route}) = 1
                  /\ \A i \in DOMAIN c.rows : \E f \in routes :
                       /\ f.route = c.rows[i].route
                       /\ c.rows[i].auth # "" /\ (c.rows[i].auth = "none" => f.file \notin c.listed)
                       /\ c.rows[i].default = (f.file \in c.listed)
                       /\ c.rows[i].privateAdmin = \E p \in c.patches : p.kind = "HTTPRoute" /\ p.delete /\ p.route = f.route
                  /\ deleted \subseteq {f.route : f \in routes}
    IN (\A f, g \in routes : f.route = g.route => f = g) =>
         ((FindErrors(c.files) \cup Check(found, c.rows, deleted) = {}) <=> agrees)

\* A request, and what the Gateway makes of it: some layer refuses it.
Requests(path) == [path : {path}, caller : {"inside", "outside"}, host : {"a", "b"}]
Refused(pols, req, merge) ==
    \E p \in pols : p.action = "DENY" /\ p.aimed /\ p.inNamespace /\ \E rule \in p.rules :
      /\ rule.from = {} \/ req.caller \in rule.from
      /\ rule.ops = {} \/ \E op \in rule.ops :
            /\ op.hosts = {} \/ req.host \in op.hosts
            /\ \E x \in op.paths : IstioPath(x, IF merge THEN MergeSlashes(req.path) ELSE req.path)
\* A set of policies that passes refuses every request for a metrics endpoint, however its
\* slashes are spelt, before the mesh merges them and after, and no request for a page.
MetricsStayInside(c) ==
    LET pols == Policies(c.files, c.listed)
    IN MetricsProblems(pols, c.routes, c.normalisation) = {} =>
         /\ \A base \in MetricsPaths : \A p \in {base} \cup SlashSpellings(base) :
              /\ \A req \in Requests(p) : Refused(pols, req, FALSE) /\ Refused(pols, req, Merges(c.normalisation))
              /\ MergeSlashes(p) \in {base, base \o Run(1)}
         /\ \A p \in BenignPaths : \E req \in Requests(p) : ~Refused(pols, req, TRUE)
\* What it reports is so, and the routes it names answer the path.
MetricsReportHolds(c) ==
    LET pols == Policies(c.files, c.listed)
        narrow == \E p \in pols : \E rule \in p.rules : rule.from # {} \/ \E op \in rule.ops : op.hosts # {}
    IN \A e \in MetricsProblems(pols, c.routes, c.normalisation) :
         /\ e[1] \in {"open", "spelling"} /\ ~narrow =>
              \E p \in {e[2], e[2] \o <<Slash>>, e[2] \o <<Slash, "x">>} \cup SlashSpellings(e[2]) : \E req \in Requests(p) : ~Refused(pols, req, FALSE)
         /\ e[1] = "benign" => \A req \in Requests(e[2]) : Refused(pols, req, FALSE) \/ Refused(pols, req, TRUE)
         /\ \A r \in e[3] : \E i \in DOMAIN c.routes[r] : ~c.routes[r][i].redirect /\ Hit(c.routes[r][i], e[2])

-----------------------------------------------------------------------------
Route(file, ns, r, parent) == [file |-> file, plain |-> TRUE, kind |-> "HTTPRoute", ns |-> ns, route |-> r, parents |-> {parent}]
Row(r, auth, default, private) == [route |-> r, auth |-> auth, default |-> default, privateAdmin |-> private]
Rows == {Row(r, auth, d, p) : r \in {"one", "two"}, auth \in {"", "none", "login"}, d \in BOOLEAN, p \in BOOLEAN}
RegisterCases ==
    {[files |-> files, listed |-> listed, rows |-> rows, patches |-> patches] :
       files \in {<<Route("a", "ns", "one", "Gateway")>>, <<Route("a", "ns", "one", "Gateway"), Route("b", "ns", "two", "Gateway")>>,
                  <<Route("a", "ns", "one", "Gateway"), Route("b", "", "two", "Gateway"), Route("c", "ns", "two", "else")>>,
                  <<Route("a", "ns", "one", "Gateway"), [Route("b", "ns", "two", "Gateway") EXCEPT !.plain = FALSE]>>},
       listed \in {{}, {"a"}, {"a", "b"}}, rows \in {<<>>} \cup {<<r>> : r \in Rows} \cup {<<r, s>> : r, s \in {x \in Rows : x.auth # ""}},
       patches \in {{}, {[kind |-> "HTTPRoute", delete |-> TRUE, route |-> "one"]}, {[kind |-> "HTTPRoute", delete |-> FALSE, route |-> "two"]},
                    {[kind |-> "HTTPRoute", delete |-> TRUE, route |-> "two"]}}}
Pattern(kind, path) == [kind |-> kind, path |-> path]
\* The patterns of the policy the brick ships, and sets that miss something.
Shipped == UNION {{Pattern("exact", b), Pattern("prefix", b \o <<Slash>>)} : b \in MetricsPaths}
           \cup {Pattern("prefix", p) : p \in {<<Slash, Slash>>, <<Slash, "d", Slash, Slash>>}}
PatternSets == {Shipped, {Pattern("exact", b) : b \in MetricsPaths}, {Pattern("any", <<>>)}, {Pattern("suffix", <<"m">>)},
                Shipped \ {Pattern("prefix", <<Slash, Slash>>)}, {Pattern("prefix", b) : b \in MetricsPaths}}
Policy(action, aimed, from, ops) ==
    [action |-> action, aimed |-> aimed, inNamespace |-> TRUE, rules |-> {[from |-> from, ops |-> ops]}]
Ops(paths, hosts) == {[paths |-> paths, hosts |-> hosts]}
Match(path, exact, redirect, backend) == [path |-> path, exact |-> exact, redirect |-> redirect, backends |-> {backend}]
PolicyCases ==
    {[files |-> {[file |-> "p", kind |-> "AuthorizationPolicy", policy |-> Policy(action, aimed, from, ops)]}, listed |-> listed,
      normalisation |-> norm,
      routes |-> [r |-> <<Match(<<Slash>>, FALSE, FALSE, "svc"), Match(<<Slash, "m">>, e, d, "svc"), Match(<<Slash, "d">>, FALSE, TRUE, "svc")>>]] :
       action \in {"DENY", "ALLOW"}, aimed \in BOOLEAN, from \in {{}, {"outside"}}, listed \in {{}, {"p"}},
       ops \in {{}} \cup {Ops(paths, hosts) : paths \in PatternSets, hosts \in {{}, {"a"}}},
       norm \in {"MERGE_SLASHES", "BASE"}, e \in BOOLEAN, d \in {FALSE}}
    \cup {[files |-> {[file |-> "p", kind |-> "AuthorizationPolicy", policy |-> Policy("DENY", TRUE, {}, Ops(paths, {}))]}, listed |-> {"p"},
           normalisation |-> norm, routes |-> [r |-> <<Match(<<Slash, "m">>, e, d, "svc"), Match(<<Slash>>, FALSE, ~d, "svc")>>]] :
            paths \in PatternSets, norm \in {"MERGE_SLASHES", "DECODE_AND_MERGE_SLASHES", "NONE"}, e \in BOOLEAN, d \in BOOLEAN}
ScrapeCases == [scrapes : SUBSET [kind : {"VMProbe", "VMPodScrape"}, url : {<<"a", "b">>, <<"x", "a", "b">>, <<"b">>}, notes : {{}, {<<"b", "c">>}}],
                hosts : {{<<>>, <<"a", "b">>}, {<<"b">>}, {<<"a">>, <<"b", "c">>}, {}}]
\* Scrapes that pass read no host of the Gateway by its URL; what is reported does, or only names one
\* beside it or in a longer name.
ScrapesJudged(c) ==
    /\ ScrapeProblems(c.scrapes, c.hosts) = {} => \A s \in c.scrapes : s.kind = "VMPodScrape" \/ s.url \notin c.hosts
    /\ \A s \in ScrapeProblems(c.scrapes, c.hosts) : s.kind # "VMPodScrape" /\ (s.url \in c.hosts \/ s.notes # {} \/ Len(s.url) > 1)
=============================================================================
