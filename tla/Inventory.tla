----------------------------- MODULE Inventory ------------------------------
(***************************************************************************)
(* The inventory of images and charts (dev/gen-sbom.py) and the check of   *)
(* their pins (check-image-pins.py).                                       *)
(*                                                                         *)
(* A reference is a sequence of words and of the signs : / and @.          *)
(***************************************************************************)
EXTENDS Integers, Sequences, FiniteSets

CONSTANTS Names, Tags, Digests      \* words a path, a tag and a digest are made of

When(c, s) == IF c THEN s ELSE <<>>
Floating == {"latest", "main", "master", "edge", "dev", "nightly"}

-----------------------------------------------------------------------------
(* References *)

\* IMAGE_OK: what a reference is made of; a first word may carry a port. "" is no part.
Parts == [host : Names, port : {"", "5000"}, path : {"", "img"}, tag : Tags \cup {""}, digest : Digests \cup {""}]
Assemble(p) == <<p.host>> \o When(p.port # "", <<":", p.port>>) \o When(p.path # "", <<"/", p.path>>)
               \o When(p.tag # "", <<":", p.tag>>) \o When(p.digest # "", <<"@", p.digest>>)
References == {Assemble(p) : p \in Parts}
Valid(ref) == ref \in References
At(ref, sign) == {i \in DOMAIN ref : ref[i] = sign}
First(S) == CHOOSE i \in S : \A j \in S : i <= j
Final(S) == CHOOSE i \in S : \A j \in S : i >= j
\* Mutant: a colon anywhere separates a tag.
SplitAnywhere(ref) ==
    LET at == At(ref, "@")
        bare == IF at = {} THEN ref ELSE SubSeq(ref, 1, First(at) - 1)
        colons == At(bare, ":")
        cut == IF colons = {} THEN Len(bare) + 1 ELSE Final(colons)
    IN [name |-> SubSeq(bare, 1, cut - 1), tag |-> SubSeq(bare, cut + 1, Len(bare)),
        digest |-> IF at = {} THEN <<>> ELSE SubSeq(ref, First(at) + 1, Len(ref))]
\* split_image: a colon separates a tag only after the last slash.
Split(ref) ==
    LET at == At(ref, "@")
        bare == IF at = {} THEN ref ELSE SubSeq(ref, 1, First(at) - 1)
        colons == {i \in At(bare, ":") : \A s \in At(bare, "/") : s < i}
        cut == IF colons = {} THEN Len(bare) + 1 ELSE Final(colons)
    IN [name |-> SubSeq(bare, 1, cut - 1), tag |-> SubSeq(bare, cut + 1, Len(bare)),
        digest |-> IF at = {} THEN <<>> ELSE SubSeq(ref, First(at) + 1, Len(ref))]
\* ref_from_values: a registry is put in front unless the repository starts with it.
FromValues(v) ==
    LET starts == Len(v.registry) <= Len(v.repository) /\ SubSeq(v.repository, 1, Len(v.registry)) = v.registry
    IN IF v.repository = <<>> THEN {}
       ELSE {When(v.registry # <<>> /\ ~starts, Append(v.registry, "/")) \o v.repository \o When(v.tag # <<>>, <<":">> \o v.tag)}
\* walk_images: a string under `image` or `imageName`, the values under `image`. A pair
\* {repository, tag} under another key is not one.
Walk(nodes) == UNION {CASE n.under \in {"image", "imageName"} /\ n.text # <<>> -> {n.text}
                        [] n.under = "image" /\ n.text = <<>> -> FromValues(n.values)
                        [] OTHER -> {} : n \in nodes}

-----------------------------------------------------------------------------
(* Charts *)

\* standins: a placeholder at each target the values leave open, unless the way there is
\* not a map. A tree says of each path in it whether it is a map.
Standin(tree, path) ==
    LET before == {SubSeq(path, 1, i) : i \in 1..(Len(path) - 1)}
        blocked == \E p \in before \cap DOMAIN tree : tree[p] # "map"
        shut == {p \in before : \E q \in before \cap DOMAIN tree : tree[q] # "map" /\ Len(q) <= Len(p)}
        new == (before \ shut) \cup (IF blocked \/ path = <<>> THEN {} ELSE {path})
    IN [p \in DOMAIN tree \cup new |-> IF p \in DOMAIN tree THEN tree[p] ELSE IF p = path THEN "placeholder" ELSE "map"]
Standins(tree, from) ==
    LET after[i \in 0..Len(from)] == IF i = 0 THEN tree ELSE Standin(after[i-1], from[i])
    IN after[Len(from)]
Repos(docs) == {docs[i] : i \in {j \in DOMAIN docs : docs[j].kind = "HelmRepository"}}
\* charts: the releases that name a chart, with the url of their repository if it is there.
Url(docs, d) == LET r == {x \in Repos(docs) : x.name = d.source /\ x.ns = (IF d.sourceNs = "" THEN d.ns ELSE d.sourceNs)}
                IN IF r = {} THEN "" ELSE (CHOOSE x \in r : TRUE).url
Charts(docs) == {i \in DOMAIN docs : docs[i].kind = "HelmRelease" /\ docs[i].chart # ""}
\* helm_images (external: the chart renders once its repository is there and the values it
\* dereferences are): what only `helm test` would make is left out.
HelmRenders(docs, i) == Url(docs, docs[i]) # "" /\ docs[i].derefs \subseteq DOMAIN Standins(docs[i].tree, docs[i].from)
HelmImages(d) == UNION {Walk(o.nodes) : o \in {x \in d.renders : ~x.test}}

-----------------------------------------------------------------------------
(* build, main *)

\* image_component, chart_component: the identity of a component; a chart's leading v is not part of it.
ImageKey(ref) == [type |-> "container", name |-> Split(ref).name, version |-> Split(ref).tag, extra |-> Split(ref).digest]
ChartKey(docs, i) == [type |-> "application", name |-> <<docs[i].chart>>, version |-> <<docs[i].version.number>>, extra |-> <<Url(docs, docs[i])>>]
\* Where each valid reference was found.
Refs(docs, helm) ==
    LET inDocs == UNION {{<<r, docs[i].name>> : r \in Walk(docs[i].nodes)} : i \in DOMAIN docs}
        inCharts == UNION {{<<r, docs[i].chart>> :
                              r \in Walk(docs[i].nodes) \cup (IF helm /\ HelmRenders(docs, i) THEN HelmImages(docs[i]) ELSE {})} : i \in Charts(docs)}
    IN {p \in inDocs \cup inCharts : Valid(p[1])}
Components(docs, helm) ==
    LET refs == Refs(docs, helm)
        charts == Charts(docs)
    IN {[key |-> ChartKey(docs, i), where |-> {docs[j].name : j \in {k \in charts : ChartKey(docs, k) = ChartKey(docs, i)}}] : i \in charts}
       \cup {[key |-> ImageKey(p[1]), where |-> {q[2] : q \in {x \in refs : ImageKey(x[1]) = ImageKey(p[1])}}] : p \in refs}
Failures(docs, helm) == {docs[i].name : i \in {j \in Charts(docs) : helm /\ ~HelmRenders(docs, j)}}
\* Mutant: a chart that does not render is told, no more.
ExitToldOnly(docs, helm, allow) ==
    IF {c.key.type : c \in Components(docs, helm)} = {"container", "application"} THEN 0 ELSE 1
Exit(docs, helm, allow) ==
    IF Failures(docs, helm) # {} /\ ~allow THEN 1
    ELSE IF {c.key.type : c \in Components(docs, helm)} = {"container", "application"} THEN 0 ELSE 1
\* --images: the tag of a reference that has a digest is not printed, nor is the digest.
Printed(docs, helm) ==
    {c.key.name \o When(c.key.version # <<>> /\ c.key.extra = <<>>, <<":">> \o c.key.version) : c \in {x \in Components(docs, helm) : x.key.type = "container"}}

-----------------------------------------------------------------------------
(* check-image-pins.py *)

Found(docs) == {r \in UNION {Walk(docs[i].nodes) : i \in DOMAIN docs} : Valid(r)}
PinErrors(docs) ==
    {r \in Found(docs) : \/ Split(r).tag = <<>> /\ Split(r).digest = <<>>
                         \/ Split(r).tag \in {<<f>> : f \in Floating} /\ Split(r).digest = <<>>}
TagOnly(docs) == {r \in Found(docs) \ PinErrors(docs) : Split(r).digest = <<>>}
\* main: tag-only references are errors where a digest is required.
Pinned(docs, require) == PinErrors(docs) \cup (IF require THEN TagOnly(docs) ELSE {}) = {}

-----------------------------------------------------------------------------
(* What they stand for *)

\* What the cluster pulls: of the manifests, of the values of a release, of what the chart
\* renders; not of what only a test would start.
Pulled(docs) ==
    UNION {Walk(docs[i].nodes) : i \in DOMAIN docs}
    \cup UNION {UNION {Walk(o.nodes) : o \in {x \in docs[i].renders : ~x.test}} : i \in Charts(docs)}
\* An inventory made with helm that is accepted: every image pulled, and every chart, is
\* one component, with each place it is used in; and no component is of nothing.
InventoryWhole(c) ==
    Exit(c.docs, TRUE, FALSE) = 0 =>
      LET comps == Components(c.docs, TRUE)
      IN /\ \A r \in {x \in Pulled(c.docs) : Valid(x)} :
              \E k \in comps : /\ k.key = ImageKey(r)
                               /\ \A m \in comps \ {k} : m.key # k.key
                               /\ \A i \in DOMAIN c.docs : r \in Walk(c.docs[i].nodes) => c.docs[i].name \in k.where
                               /\ \A i \in Charts(c.docs) : r \in HelmImages(c.docs[i]) => c.docs[i].chart \in k.where
         /\ \A i \in Charts(c.docs) : \E k \in comps : k.key = ChartKey(c.docs, i) /\ c.docs[i].name \in k.where
         /\ \A k \in comps : k.key.type = "container" => \E r \in Pulled(c.docs) : ImageKey(r) = k.key
\* Stand-ins change no value, and leave a target open only below something that is not a map.
ValuesKept(c) ==
    \A i \in Charts(c.docs) :
      LET t == c.docs[i].tree
          s == Standins(t, c.docs[i].from)
      IN /\ \A p \in DOMAIN t : s[p] = t[p]
         /\ \A k \in DOMAIN c.docs[i].from :
              LET to == c.docs[i].from[k]
              IN to \in DOMAIN s \/ to = <<>> \/ \E n \in 1..(Len(to) - 1) : SubSeq(to, 1, n) \in DOMAIN s /\ s[SubSeq(to, 1, n)] # "map"
         /\ \A p \in DOMAIN s : \A n \in 1..(Len(p) - 1) : SubSeq(p, 1, n) \in DOMAIN s /\ s[SubSeq(p, 1, n)] = "map"
\* What passes names nothing that moves, nothing without a digest where one is required; and
\* manifests that do pass are told so.
PinsHold(c) ==
    LET moves(p) == p.digest = "" /\ p.tag \in Floating \cup {""}
        found == Found(c.docs)
    IN \A require \in BOOLEAN :
         Pinned(c.docs, require) <=>
           \A p \in Parts : Assemble(p) \in found /\ (p.port = "" \/ p.path # "") =>
             ~moves(p) /\ (require => p.digest # "")
\* A reference splits into what it was made of.
SplitsBack(p) ==
    p.port = "" \/ p.path # "" =>
      Split(Assemble(p)) = [name |-> Assemble([p EXCEPT !.tag = "", !.digest = ""]),
                            tag |-> When(p.tag # "", <<p.tag>>), digest |-> When(p.digest # "", <<p.digest>>)]

-----------------------------------------------------------------------------
NoValues == [registry |-> <<>>, repository |-> <<>>, tag |-> <<>>]
Text(ref) == [under |-> "image", text |-> ref, values |-> NoValues]
Values(reg, repo, tag) == [under |-> "image", text |-> <<>>, values |-> [registry |-> reg, repository |-> repo, tag |-> tag]]
Doc(kind, name, nodes) ==
    [kind |-> kind, name |-> name, ns |-> "a", nodes |-> nodes, chart |-> "", version |-> [number |-> ""], source |-> "", sourceNs |-> "",
     url |-> "", tree |-> [p \in {} |-> ""], from |-> <<>>, derefs |-> {}, renders |-> {}]
Repository(ns) == [Doc("HelmRepository", "repo", {}) EXCEPT !.ns = ns, !.url = "https"]
Nodes == {{}, {Text(<<"web", ":", "1">>)}, {Text(<<"web", ":", "5000", "/", "img">>), Text(<<"web", "$">>)},
          {Text(<<"web", ":", "latest", "@", "d">>)}, {[Text(<<"web", ":", "1">>) EXCEPT !.under = "imageName"]},
          {Values(<<"web">>, <<"web", "/", "img">>, <<"1">>), Values(<<"web">>, <<"img">>, <<>>)},
          {[Text(<<>>) EXCEPT !.under = "controller", !.values = [registry |-> <<>>, repository |-> <<"web">>, tag |-> <<"1">>]]}}
Trees == {[p \in {} |-> ""], [p \in {<<"s">>} |-> "map"], [p \in {<<"s">>} |-> "leaf"], [p \in {<<"s">>, <<"s", "b">>} |-> IF Len(p) = 1 THEN "map" ELSE "leaf"]}
\* A pod, a release (of a repository in its namespace, in another, or of none) and what its
\* chart renders; a second release of the chart, its version written with a v.
InventoryCases ==
    LET Release(name, v, nodes, t, f, x) ==
          [Doc("HelmRelease", name, nodes) EXCEPT !.chart = "widget", !.version = [number |-> "3", v |-> v], !.source = "repo", !.sourceNs = "flux",
             !.tree = t, !.from = f, !.derefs = {<<"s", "b">>}, !.renders = x]
    IN {[docs |-> <<Doc("Pod", "p", n), Repository(ns), Release("r", FALSE, m, t, f, {[test |-> FALSE, nodes |-> x], [test |-> TRUE, nodes |-> {Text(<<"bats", ":", "1">>)}]})>>
                  \o two] :
          n, x \in Nodes, m \in {{}, {Values(<<"web">>, <<"img">>, <<"latest">>)}}, ns \in {"flux", "a"}, t \in Trees,
          f \in {<<>>, <<<<"s", "b">>>>, <<<<"s">>, <<"s", "b">>>>},
          two \in {<<>>, <<Release("q", TRUE, {}, [p \in {} |-> ""], <<<<"s", "b">>>>, {})>>}}
=============================================================================
