------------------------------ MODULE HaCheck ------------------------------
(***************************************************************************)
(* The HA audit of what the bricks render (scripts/check-ha.py and         *)
(* ha_render.py): every workload is spread over the nodes, has one budget  *)
(* that lets one pod go, and nothing that strands a pod - or an allow-list *)
(* says why not.                                                           *)
(*                                                                         *)
(* A render is a set of documents.  A field a manifest leaves out is an    *)
(* empty sequence, and <<v>> when it is there.                             *)
(***************************************************************************)
EXTENDS Integers, Sequences, FiniteSets, Functions, FiniteSetsExt, TLC

CONSTANTS CpuBudget, CnpgBudget, ForgeBudget,   \* CPU_BUDGET_M, CNPG_CPU_BUDGET_M, CNPG_CPU_BUDGET_FORGE_M
          ProfileBudget                         \* PROFILE_CPU_BUDGET_M: by profile

Or(given, default) == IF given = <<>> THEN default ELSE given[1]
When(c, S) == IF c THEN S ELSE {}
SumOver(S, f(_)) == FoldSet(LAMBDA x, n : n + f(x), 0, S)
Ident(d) == <<d.kind, d.ns, d.name>>
\* cpu_m: millicores of a request.
CpuM(q) == IF q = <<>> THEN 0 ELSE IF q[1].milli THEN q[1].n ELSE 1000 * q[1].n

\* selects: labels and expressions together; here an empty selector selects nothing.
Excluded(e, labels) ==
    LET has == e.key \in DOMAIN labels
    IN \/ e.operator = "In" /\ (~has \/ labels[e.key] \notin e.values)
       \/ e.operator = "NotIn" /\ has /\ labels[e.key] \in e.values
       \/ e.operator = "Exists" /\ ~has
       \/ e.operator = "DoesNotExist" /\ has
Selects(sel, labels) ==
    /\ DOMAIN sel.labels # {} \/ sel.exprs # {}
    /\ \A k \in DOMAIN sel.labels : k \in DOMAIN labels /\ labels[k] = sel.labels[k]
    /\ ~\E e \in sel.exprs : Excluded(e, labels)
Labelled(k, v) == [labels |-> k :> v, exprs |-> {}]

-----------------------------------------------------------------------------
(* normalise: the workloads of a render *)

Cnpg(docs) == {d \in docs : d.kind = "Cluster"}
\* A HorizontalPodAutoscaler's minimum, or the replicas of the manifest.
Replicas(d, docs) ==
    LET hpas == {h \in docs : h.kind = "HorizontalPodAutoscaler" /\ h.target = Ident(d)}
    IN IF hpas # {} THEN Or((CHOOSE h \in hpas : TRUE).min, 1) ELSE Or(d.replicas, 1)
Rendered(d, docs) ==
    [id |-> Ident(d), ns |-> d.ns, name |-> d.name, replicas |-> Replicas(d, docs), labels |-> d.pod.labels,
     spread |-> d.pod.spread, anti |-> d.pod.anti, together |-> d.pod.together, nodes |-> d.pod.nodes,
     external |-> TRUE, pdb |-> <<>>, cpu |-> CpuM(d.pod.cpu)]
\* The pods of a CNPG Cluster, as its operator makes them.
OfCluster(d) ==
    LET own == Labelled("cnpg.io/cluster", d.name)
        anti == d.antiAffinity # <<FALSE>> /\ Or(d.topologyKey, "host") = "host"
    IN [id |-> Ident(d), ns |-> d.ns, name |-> d.name, replicas |-> Or(d.instances, 1), labels |-> own.labels,
        spread |-> {}, anti |-> IF anti THEN {[key |-> "host", sel |-> own, required |-> FALSE]} ELSE {},
        together |-> FALSE, nodes |-> {}, external |-> FALSE,
        pdb |-> IF d.enablePDB # <<FALSE>> THEN "maxUnavailable" :> [n |-> 1, pct |-> FALSE] ELSE <<>>, cpu |-> 0]
OfPooler(d) ==
    [id |-> Ident(d), ns |-> d.ns, name |-> d.name, replicas |-> Or(d.instances, 1),
     labels |-> "cnpg.io/poolerName" :> d.name, spread |-> d.pod.spread, anti |-> d.pod.anti,
     together |-> d.pod.together, nodes |-> d.pod.nodes, external |-> TRUE, pdb |-> <<>>, cpu |-> CpuM(d.pod.cpu)]
\* cr_workload: one component of a VM custom resource.
OfCr(d, comp, c) ==
    [id |-> <<d.kind, d.ns, d.name, comp>>, ns |-> d.ns, name |-> comp, replicas |-> Or(c.replicaCount, 1),
     labels |-> "app.kubernetes.io/name" :> comp, spread |-> c.pod.spread, anti |-> c.pod.anti,
     together |-> c.pod.together, nodes |-> c.pod.nodes, external |-> FALSE, pdb |-> c.pdb, cpu |-> CpuM(c.pod.cpu)]
Normalise(docs) ==
    {Rendered(d, docs) : d \in {x \in docs : x.kind \in {"Deployment", "StatefulSet"}}}
    \cup {OfCluster(d) : d \in Cnpg(docs)}
    \cup {OfPooler(d) : d \in {x \in docs : x.kind = "Pooler"}}
    \cup UNION {{OfCr(d, comp, d.spec[comp]) : comp \in DOMAIN d.spec} :
                  d \in {x \in docs : x.kind \in {"VMCluster", "VMAgent", "VMAlert", "VMAlertmanager"}}}

-----------------------------------------------------------------------------
(* audit *)

\* allowed: the disruptions of a budget with r healthy pods; a percentage is rounded up.
Num(v, r) == IF v.pct THEN (r * v.n + 99) \div 100 ELSE v.n
\* Mutant: a percentage is rounded down.
AllowedDown(spec, r) ==
    LET Down(v) == IF v.pct THEN (r * v.n) \div 100 ELSE v.n
    IN IF "maxUnavailable" \in DOMAIN spec THEN Down(spec.maxUnavailable)
       ELSE IF "minAvailable" \in DOMAIN spec THEN r - Down(spec.minAvailable) ELSE r
Allowed(spec, r) ==
    IF "maxUnavailable" \in DOMAIN spec THEN Num(spec.maxUnavailable, r)
    ELSE IF "minAvailable" \in DOMAIN spec THEN r - Num(spec.minAvailable, r) ELSE r
PdbsFor(w, docs) == {p \in docs : p.kind = "PodDisruptionBudget" /\ p.ns = w.ns /\ Selects(p.selector, w.labels)}

\* Mutant: a term counts whatever pods it selects.
SpreadsAny(w, key) == \E t \in w.spread \cup w.anti : t.key = key
\* spreads: does the workload spread its OWN pods over this key?
Spreads(w, key) == \E t \in w.spread \cup w.anti : t.key = key /\ Selects(t.sel, w.labels)
\* spreads_zone_cnpg: the zone term of a Cluster is in additionalPodAntiAffinity.
Zoned(w, docs) == Spreads(w, "zone") \/ \E d \in Cnpg(docs) : Ident(d) = w.id /\ "zone" \in d.additional
ZoneGaps(docs) == {w.id : w \in {x \in Normalise(docs) : x.replicas >= 2 /\ ~Zoned(x, docs)}}

BudgetProblems(w, docs) ==
    LET ps == PdbsFor(w, docs)
    IN IF w.external
       THEN IF Cardinality(ps) # 1 THEN {"not one budget"}
            ELSE When(\E p \in ps : Allowed(p.spec, w.replicas) # 1, {"not one disruption"})
       ELSE IF DOMAIN w.pdb = {} THEN {"no budget"}
            ELSE When(Allowed(w.pdb, w.replicas) # 1, {"not one disruption"})
Problems(w, docs, allow) ==
    When(~Spreads(w, "host"), {"no spread"})
    \cup When(w.id \notin DOMAIN allow.pdbx, BudgetProblems(w, docs))
    \cup When(w.together, {"required podAffinity"})
    \cup When(/\ \E t \in w.spread \cup w.anti : t.key = "host" /\ t.required
              /\ w.replicas > 2
              /\ w.id \notin DOMAIN allow.stricts, {"can strand"})
    \cup When(w.nodes \ {"os"} # {}, {"nodeSelector"})

\* The audit of one workload: what it says, and how: an error or a note.
OfWorkload(w, docs, allow) ==
    LET single == w.id \in DOMAIN allow.singles
        gap == w.id \in DOMAIN allow.gaps
        ps == PdbsFor(w, docs)
        problems == Problems(w, docs, allow)
    IN IF w.replicas < 2
       THEN When(~single, {<<IF gap THEN "note" ELSE "error", w.id, "single replica">>})
       ELSE When(single, {<<"error", w.id, "stale single_replica">>})
            \cup When(/\ w.id \in DOMAIN allow.pdbx
                      /\ Cardinality(ps) # 1 \/ \E p \in ps : Allowed(p.spec, w.replicas) = 1,
                      {<<"error", w.id, "stale pdb_exception">>})
            \cup {<<IF gap THEN "note" ELSE "error", w.id, e>> : e \in problems}
            \cup When(gap /\ problems = {}, {<<"error", w.id, "stale known_gaps">>})
OfEntries(list, label, ids, absent) ==
    {<<"error", k, "no reason">> : k \in {i \in DOMAIN list : ~list[i].reason}}
    \cup {<<"error", k, "no loss">> : k \in {i \in DOMAIN list : label = "single_replica" /\ ~list[i].loss}}
    \cup {<<"error", k, "names no workload">> : k \in {i \in DOMAIN list : i \notin ids /\ ~(absent /\ list[i].optIn)}}
\* critical_path: the pinned replicas, and a zone term.
OfPin(k, e, ws, docs, absent) ==
    LET found == {w \in ws : w.id = k}
    IN When(~e.reason, {<<"error", k, "no why">>})
       \cup When(found = {} /\ ~(absent /\ e.optIn), {<<"error", k, "names no workload">>})
       \cup When(\E w \in found : w.replicas < e.min, {<<"error", k, "below its pin">>})
       \cup When(\E w \in found : w.replicas >= 2 /\ ~Zoned(w, docs), {<<"error", k, "no zone spread">>})
Audit(docs, allow, absent) ==
    LET ws == Normalise(docs)
        ids == {w.id : w \in ws}
    IN OfEntries(allow.singles, "single_replica", ids, absent) \cup OfEntries(allow.stricts, "strict_spread", ids, absent)
       \cup OfEntries(allow.gaps, "known_gaps", ids, absent) \cup OfEntries(allow.pdbx, "pdb_exception", ids, absent)
       \cup (UNION {OfPin(k, allow.pins[k], ws, docs, absent) : k \in DOMAIN allow.pins})
       \cup (UNION {OfWorkload(w, docs, allow) : w \in ws})
Errors(docs, allow, absent) == {e \in Audit(docs, allow, absent) : e[1] = "error"}

-----------------------------------------------------------------------------
(* The CPU a render asks for, and the verdicts. *)

RenderedCpu(docs) == SumOver({w \in Normalise(docs) : w.external}, LAMBDA w : w.cpu * w.replicas)
\* cnpg_cpu: the instance and the sidecar of each object store it names.
PerInstance(d, docs) ==
    CpuM(d.cpu) + SumOver({s \in docs : s.kind = "ObjectStore" /\ s.ns = d.ns /\ s.name \in d.stores}, LAMBDA s : CpuM(s.cpu))
\* Mutant: the sidecars are forgotten.
CnpgCpuBare(docs) == SumOver(Cnpg(docs), LAMBDA d : CpuM(d.cpu) * Or(d.instances, 1))
CnpgCpu(docs) == SumOver(Cnpg(docs), LAMBDA d : PerInstance(d, docs) * Or(d.instances, 1))
ProfileCpu(docs) == CnpgCpu(docs) + SumOver({d \in docs : d.kind = "Pooler"}, LAMBDA d : CpuM(d.pod.cpu) * Or(d.instances, 1))

\* report: the failures of one render, with or without the opt-in brick.
Report(docs, allow, forge) ==
    Errors(docs, allow, ~forge)
    \cup When(CnpgCpu(docs) > IF forge THEN ForgeBudget ELSE CnpgBudget, {<<"error", <<"cnpg">>, "over budget">>})
    \cup When(RenderedCpu(docs) > CpuBudget, {<<"error", <<"cpu">>, "over budget">>})
NoLists == [singles |-> <<>>, stricts |-> <<>>, gaps |-> <<>>, pdbx |-> <<>>, pins |-> <<>>]
\* audit_profiles: one database profile; light is ONE instance by design.
AuditProfile(profile, docs) ==
    LET listed == [k \in {Ident(d) : d \in Cnpg(docs)} |-> [reason |-> TRUE, loss |-> TRUE, optIn |-> FALSE]]
    IN Errors(docs, [NoLists EXCEPT !.singles = IF profile = "light" THEN listed ELSE <<>>], FALSE)
       \cup {<<"error", g, "no zone spread">> : g \in ZoneGaps(docs)}
       \cup When(ProfileCpu(docs) > ProfileBudget[profile], {<<"error", <<profile>>, "over budget">>})

\* profile_paths: the bricks a profile of apps/flux renders, which is a set of documents.
ProfilePaths(profile) == {d.path : d \in {o \in profile : o.kind = "Kustomization" /\ o.path # ""}}
\* Mutant: the forge's bricks take the place of the default ones.
RenderOnlyForge(t, only, forge) ==
    LET shown == ProfilePaths(IF forge THEN t.managementForge ELSE t.management) \ (IF forge THEN ProfilePaths(t.management) ELSE {})
    IN UNION {t.bricks[p] : p \in shown}
\* render: HA_ONLY keeps the bricks it names, all when it names none.
Render(t, only, forge) ==
    LET default == ProfilePaths(t.management)
        shown == IF forge THEN default \cup ProfilePaths(t.managementForge) ELSE default
    IN UNION {t.bricks[p] : p \in {q \in shown : only = {} \/ q \in only}}
\* main: what is reported on, and with which budget; CI gives no option and has both.
Runs(t, args, only) ==
    LET forge == "--forge" \in args
    IN IF "--load" \in args THEN {<<t.loaded, forge>>}
       ELSE IF forge \/ "--dump" \in args THEN {<<Render(t, only, forge), forge>>}
       ELSE {<<Render(t, only, with), with>> : with \in BOOLEAN}
Exit(t, allow, args, only) ==
    IF "--profiles" \in args
    THEN IF \E p \in DOMAIN t.examples : AuditProfile(p, t.examples[p]) # {} THEN 1 ELSE 0
    ELSE IF \E r \in Runs(t, args, only) : Report(r[1], allow, r[2]) # {} THEN 1 ELSE 0

-----------------------------------------------------------------------------
(* ha_render.render_platform: what the bricks make of their paths *)

\* load_docs: the items of a List are documents of their own.
Flat(docs) == {d \in docs : d.kind # "List"} \cup UNION {d.items : d \in {x \in docs : x.kind = "List"}}
\* helm_release: the objects of a chart, in the release's namespace unless they name one.
HelmRelease(hr, chart) == {[d EXCEPT !.ns = IF @ = "" THEN Or(hr.namespace, "default") ELSE @] : d \in Flat(chart[hr.chart])}
\* A release two bricks declare is expanded once, as the first of them has it.
RenderPlatform(bricks, chart) ==
    LET objs(n) == UNION {Flat(bricks[i]) : i \in 1..n}
        releases(n) == {d \in objs(n) : d.kind = "HelmRelease"}
        first == UNION {{d \in Flat(bricks[n]) : /\ d.kind = "HelmRelease"
                                               /\ ~\E e \in releases(n - 1) : e.namespace = d.namespace /\ e.name = d.name} :
                          n \in 1..Len(bricks)}
    IN objs(Len(bricks)) \cup UNION {HelmRelease(d, chart) : d \in first}

-----------------------------------------------------------------------------
(* What the audit stands for: three workers, the eviction API, one loss. *)

Workers == 1..3
\* A label selector as Kubernetes reads it, but the empty one, which the audit does not take.
Matches(sel, labels) ==
    /\ DOMAIN sel.labels \cup sel.exprs # {}
    /\ \A k \in DOMAIN sel.labels : k \in DOMAIN labels /\ labels[k] = sel.labels[k]
    /\ \A e \in sel.exprs :
         LET value == IF e.key \in DOMAIN labels THEN {labels[e.key]} ELSE {}
         IN CASE e.operator = "In" -> value \cap e.values # {}
              [] e.operator = "NotIn" -> value \cap e.values = {}
              [] e.operator = "Exists" -> value # {}
              [] OTHER -> value = {}
OwnTerms(w, key) == {t \in w.spread \cup w.anti : t.key = key /\ Matches(t.sel, w.labels)}
HardOn(w) == \E t \in w.spread \cup w.anti : t.key = "host" /\ t.required
\* The nodes the next pod may go to: a required term wants one without a pod of ours, a
\* preferred one the emptiest, and without a term it is any.
Load(at, n) == Cardinality({i \in DOMAIN at : at[i] = n})
NodesFor(w, at, nodes) ==
    {n \in nodes : /\ HardOn(w) => Load(at, n) = 0
                   /\ OwnTerms(w, "host") # {} => \A m \in nodes : Load(at, n) <= Load(at, m)}
Placements(w) ==
    LET placed[k \in 0..w.replicas] ==
          IF k = 0 THEN {<<>>} ELSE UNION {{Append(at, n) : n \in NodesFor(w, at, Workers)} : at \in placed[k-1]}
    IN placed[w.replicas]
\* However its pods came to lie, no single worker holds them all.
SurvivesALoss(w) == \A at \in Placements(w) : \A n \in Workers : \E i \in DOMAIN at : at[i] # n
\* The pods of a lost worker find a place on the two others.
NothingStranded(w) ==
    \A at \in Placements(w) : \A n \in Workers :
      LET left == Restrict(at, {i \in DOMAIN at : at[i] # n})
      IN DOMAIN left # DOMAIN at => NodesFor(w, left, Workers \ {n}) # {}
\* The eviction API: one budget, and enough healthy pods without this one.
Needed(spec, r) ==
    LET of(v) == IF ~v.pct THEN v.n ELSE CHOOSE k \in 0..(r * v.n) : 100 * k >= r * v.n /\ 100 * (k - 1) < r * v.n
    IN IF "maxUnavailable" \in DOMAIN spec THEN r - of(spec.maxUnavailable)
       ELSE IF "minAvailable" \in DOMAIN spec THEN of(spec.minAvailable) ELSE 0
Budgets(w, docs) ==
    {p.spec : p \in {q \in docs : q.kind = "PodDisruptionBudget" /\ q.ns = w.ns /\ Matches(q.selector, w.labels)}}
    \cup When(DOMAIN w.pdb # {}, {w.pdb})
Evictable(w, docs, healthy) ==
    LET specs == Budgets(w, docs) IN Cardinality(specs) = 1 /\ \A spec \in specs : healthy - 1 >= Needed(spec, w.replicas)
DrainsOneByOne(w, docs) == Evictable(w, docs, w.replicas) /\ ~Evictable(w, docs, w.replicas - 1)

Sound(w, docs, allow) ==
    w.replicas >= 2 => /\ SurvivesALoss(w)
                       /\ ~w.together /\ w.nodes \subseteq {"os"}
                       /\ DrainsOneByOne(w, docs) \/ w.id \in DOMAIN allow.pdbx
                       /\ NothingStranded(w) \/ w.id \in DOMAIN allow.stricts
\* An accepted render: what is not listed as a gap survives the loss of a worker and
\* drains pod by pod, a lone pod is listed with what its loss means, a pin holds, and
\* the requests fit the budgets.
AuditAccepts(c) ==
    LET ws == Normalise(c.docs)
    IN Report(c.docs, c.allow, c.forge) = {} =>
         /\ \A w \in ws : w.id \in DOMAIN c.allow.gaps \/ Sound(w, c.docs, c.allow)
         /\ \A w \in ws : w.replicas < 2 => \/ w.id \in DOMAIN c.allow.gaps
                                            \/ w.id \in DOMAIN c.allow.singles /\ c.allow.singles[w.id].loss
         /\ \A k \in DOMAIN c.allow.pins : \A w \in ws :
              w.id = k => w.replicas >= c.allow.pins[k].min /\ (w.replicas >= 2 => Zoned(w, c.docs))
         /\ c.cpu[1] <= CpuBudget /\ c.cpu[2] <= IF c.forge THEN ForgeBudget ELSE CnpgBudget
\* What CI lets through: as long as the forge's profile renders every default brick (which
\* test-forgejo-brick.py pins), each of the two platforms one may install stands, workload
\* by workload, within its own budget of database pods; the one without the forge is not
\* excused by the larger budget of the other.  An option never makes the exit status of a
\* render that falls short 0, but for HA_ONLY, which looks at less.
Stands(docs, allow) ==
    \A w \in Normalise(docs) :
      \/ w.id \in DOMAIN allow.gaps
      \/ IF w.replicas >= 2 THEN Sound(w, docs, allow) ELSE w.id \in DOMAIN allow.singles
CiSeesBoth(c) ==
    LET of(profile) == UNION {c.tree.bricks[d.path] : d \in {x \in profile : x.kind = "Kustomization" /\ x.path # ""}}
        fits(forge) == c.database[forge] <= IF forge THEN ForgeBudget ELSE CnpgBudget
        default == of(c.tree.management)
        withForge == of(c.tree.managementForge)
        stands(forge) == Stands(IF forge THEN withForge ELSE default, c.allow) /\ fits(forge)
        pinned == ProfilePaths(c.tree.management) \subseteq ProfilePaths(c.tree.managementForge)
    IN pinned /\ c.only = {} /\ Exit(c.tree, c.allow, c.args, c.only) = 0 =>
         /\ c.args = {} => stands(FALSE) /\ stands(TRUE)
         /\ c.args # {} /\ c.args \cap {"--profiles", "--load"} = {} => IF "--forge" \in c.args THEN stands(TRUE) ELSE stands(FALSE)
\* A render that does what it should, with lists that name what they excuse, is accepted.
AuditRefuses(c) ==
    LET ws == Normalise(c.docs)
        excused(w, list) == w.id \in DOMAIN list
    IN Report(c.docs, c.allow, c.forge) # {} =>
         \/ \E w \in ws : IF w.replicas < 2 THEN ~excused(w, c.allow.singles) /\ ~excused(w, c.allow.gaps)
                          ELSE \/ ~excused(w, c.allow.gaps) /\ ~Sound(w, c.docs, c.allow)
                               \/ excused(w, c.allow.singles)
                               \/ excused(w, c.allow.gaps) /\ Sound(w, c.docs, c.allow)
                               \/ excused(w, c.allow.pdbx) /\ (DrainsOneByOne(w, c.docs) \/ Cardinality(Budgets(w, c.docs)) # 1 \/ ~w.external)
                               \/ excused(w, c.allow.pins) /\ ~Zoned(w, c.docs)
         \/ \E list \in Range(c.allow) : \E k \in DOMAIN list :
              \/ ~list[k].reason \/ ~list[k].loss
              \/ ~(\E w \in ws : w.id = k) /\ ~(list[k].optIn /\ ~c.forge)
         \/ \E w \in ws : w.id \in DOMAIN c.allow.pins /\ w.replicas < c.allow.pins[w.id].min
         \/ c.cpu[1] > CpuBudget \/ c.cpu[2] > IF c.forge THEN ForgeBudget ELSE CnpgBudget
\* The lists do not rot: an accepted render is refused once an entry is gone, or once what
\* it excuses is fixed (strict_spread is never compared with what the workload does).
ListsShrink(c) ==
    LET Without(list, k) == [c.allow EXCEPT ![list] = Restrict(c.allow[list], DOMAIN c.allow[list] \ {k})]
    IN Report(c.docs, c.allow, c.forge) = {} =>
         \A list \in {"singles", "gaps", "pdbx"} : \A k \in DOMAIN c.allow[list] :
           \/ Report(c.docs, Without(list, k), c.forge) # {}
           \/ c.allow[list][k].optIn /\ ~c.forge
           \/ list # "pdbx" /\ k \in DOMAIN c.allow.singles \cap DOMAIN c.allow.gaps
           \/ list = "pdbx" /\ k \in DOMAIN c.allow.gaps
\* A database profile: light is one instance, the others survive a loss, drain and span
\* zones, within what the profile may ask for.
ProfileJudged(c) ==
    (AuditProfile(c.profile, c.docs) = {}) <=>
      /\ \A w \in Normalise(c.docs) : IF w.replicas < 2 THEN c.profile = "light" /\ w.id[1] = "Cluster"
                                     ELSE Sound(w, c.docs, NoLists) /\ Zoned(w, c.docs) /\ (w.id[1] = "Cluster" => c.profile # "light")
      /\ c.cpu <= ProfileBudget[c.profile]
\* Every release of the bricks is rendered, once and into its namespace, and no object of
\* another brick is lost.
RenderedWhole(c) ==
    LET made == RenderPlatform(c.bricks, c.chart)
        all == UNION {Flat(b) : b \in Range(c.bricks)}
    IN /\ all \subseteq made /\ ~\E d \in made : d.kind = "List" \/ d.ns = ""
       /\ \A d \in made \ all : \E hr \in all : hr.kind = "HelmRelease" /\ \E o \in Flat(c.chart[hr.chart]) : o.name = d.name /\ d.ns \in {o.ns, Or(hr.namespace, "default")}
       /\ \A hr \in all : hr.kind = "HelmRelease" =>
            Cardinality({d \in made \ all : d.name = "obj" /\ d.ns = Or(hr.namespace, "default")}) = 1

-----------------------------------------------------------------------------
(* The renders TLC audits. *)

Web == <<"Deployment", "ns", "web">>
OwnLabel == "app" :> "web"
Own == Labelled("app", "web")
Other == Labelled("app", "other")
Apart == [labels |-> <<>>, exprs |-> {[key |-> "app", operator |-> "NotIn", values |-> {"web"}]}]
Named == [labels |-> <<>>, exprs |-> {[key |-> "app", operator |-> "In", values |-> {"web"}]}]
Term(key, sel, required) == [key |-> key, sel |-> sel, required |-> required]
Soft == Term("host", Own, FALSE)
Pod(spread, anti, cpu) == [labels |-> OwnLabel, spread |-> spread, anti |-> anti, together |-> FALSE, nodes |-> {}, cpu |-> cpu]
Deployment(replicas, pod) == [kind |-> "Deployment", ns |-> "ns", name |-> "web", replicas |-> replicas, pod |-> pod]
Pdb(n, ns, sel, spec) == [kind |-> "PodDisruptionBudget", ns |-> ns, name |-> n, selector |-> sel, spec |-> spec]
AtMost(n) == "maxUnavailable" :> [n |-> n, pct |-> FALSE]
AtLeast(n) == "minAvailable" :> [n |-> n, pct |-> FALSE]
Percent(field, n) == field :> [n |-> n, pct |-> TRUE]
Hpa(min) == [kind |-> "HorizontalPodAutoscaler", ns |-> "ns", name |-> "web", target |-> Web, min |-> min]
Good == {Deployment(<<2>>, Pod({Soft}, {}, <<>>)), Pdb("web", "ns", Own, AtMost(1))}

Entry == [reason |-> TRUE, loss |-> TRUE, optIn |-> FALSE]
List(list, k, e) == [NoLists EXCEPT ![list] = k :> e]
Ghost == <<"Deployment", "ns", "gone">>
Allows == {NoLists}
    \cup {List(list, Web, Entry) : list \in {"singles", "stricts", "gaps", "pdbx"}}
    \cup {List("singles", Web, [Entry EXCEPT !.loss = FALSE]), List("gaps", Web, [Entry EXCEPT !.reason = FALSE])}
    \cup {List(list, Ghost, [Entry EXCEPT !.optIn = o] @@ ("min" :> 2)) : list \in {"singles", "pins"}, o \in BOOLEAN}
    \cup {List("pins", Web, Entry @@ ("min" :> n)) : n \in {2, 3}}
    \cup {[List("gaps", Web, Entry) EXCEPT !.singles = Web :> Entry], [List("gaps", Web, Entry) EXCEPT !.pdbx = Web :> Entry]}

\* cpu: what the requests of the rendered pods, and of the database pods, come to.
Case(docs, allow, forge, cpu) == [docs |-> docs, allow |-> allow, forge |-> forge, cpu |-> cpu]
Spreadings == {{}, {Soft}, {Term("host", Other, FALSE)}, {Term("host", Apart, FALSE)}, {Term("host", Named, FALSE)},
               {Term("host", Own, TRUE)}, {Soft, Term("zone", Own, FALSE)}}
BudgetSets == {{}, {Pdb("a", "ns", Own, AtMost(1)), Pdb("b", "ns", Own, AtLeast(1))}, {Pdb("a", "else", Own, AtMost(1))}}
              \cup {{Pdb("a", "ns", Own, spec)} : spec \in {AtMost(0), AtMost(1), AtLeast(1), AtLeast(2), Percent("maxUnavailable", 40),
                                                           Percent("minAvailable", 50), <<>>}}
DeploymentCases ==
    {Case({Deployment(r, Pod(spread, anti, <<>>))} \cup pdbs \cup hpa, allow, forge, <<0, 0>>) :
       r \in {<<>>, <<0>>, <<2>>, <<3>>}, spread \in Spreadings,
       anti \in {{}, {Term("host", Own, TRUE)}}, pdbs \in BudgetSets, hpa \in {{}, {Hpa(<<2>>)}}, allow \in Allows, forge \in {TRUE}}
    \cup {Case(Good, allow, FALSE, <<0, 0>>) : allow \in Allows}
    \cup {Case({[d EXCEPT !.pod.together = t, !.pod.nodes = n] : d \in Good \ {g \in Good : g.kind # "Deployment"}}
               \cup {g \in Good : g.kind # "Deployment"}, allow, TRUE, <<0, 0>>) :
            t \in BOOLEAN, n \in {{}, {"os"}, {"os", "disk"}}, allow \in Allows}

\* What the operators make.
Db == <<"Cluster", "ns", "db">>
Cluster(instances, anti, key, zone, pdb, cpu) ==
    [kind |-> "Cluster", ns |-> "ns", name |-> "db", instances |-> instances, antiAffinity |-> anti, topologyKey |-> key,
     additional |-> zone, enablePDB |-> pdb, cpu |-> cpu, stores |-> {"primary"}]
Store == [kind |-> "ObjectStore", ns |-> "ns", name |-> "primary", cpu |-> <<[n |-> 50, milli |-> TRUE]>>]
Vm(kind, comps) == [kind |-> kind, ns |-> "ns", name |-> "vm", spec |-> comps]
Component(r, own, pdb) ==
    [replicaCount |-> r, pdb |-> pdb,
     pod |-> Pod({}, {Term("host", Labelled("app.kubernetes.io/name", own), FALSE)}, <<>>)]
Pooler(r, spread, cpu) == [kind |-> "Pooler", ns |-> "ns", name |-> "rw", instances |-> r, pod |-> Pod(spread, {}, cpu)]
PoolerTerm == Term("host", Labelled("cnpg.io/poolerName", "rw"), FALSE)
OperatorCases ==
    {Case({Cluster(r, anti, key, zone, pdb, <<>>)}, allow, TRUE, <<0, 0>>) :
       r \in {<<>>, <<2>>, <<3>>}, anti \in {<<>>, <<FALSE>>}, key \in {<<>>, <<"zone">>}, zone \in {{}, {"zone"}}, pdb \in {<<>>, <<FALSE>>},
       allow \in {NoLists, List("singles", Db, Entry), List("pins", Db, Entry @@ ("min" :> 2)), List("pdbx", Db, Entry)}}
    \cup {Case({Vm("VMCluster", "vmselect" :> Component(r, own, pdb) @@ "vmstorage" :> Component(<<2>>, "vmstorage", AtMost(1)))}, NoLists, TRUE, <<0, 0>>) :
            r \in {<<>>, <<2>>, <<3>>}, own \in {"vmselect", "vmstorage"}, pdb \in {<<>>, AtMost(1), AtLeast(1)}}
    \cup {Case({Pooler(r, spread, <<>>)} \cup pdbs, NoLists, TRUE, <<0, 0>>) :
            r \in {<<>>, <<2>>}, spread \in {{}, {PoolerTerm}, {Soft}}, pdbs \in {{}, {Pdb("rw", "ns", Labelled("cnpg.io/poolerName", "rw"), AtMost(1))}}}
Milli(n) == <<[n |-> n, milli |-> TRUE]>>
CpuCases ==
    {Case({Deployment(<<2>>, Pod({Soft}, {}, Milli(q))), Pdb("web", "ns", Own, AtMost(1)), Cluster(<<3>>, <<>>, <<>>, {}, <<>>, Milli(c))} \cup s,
          NoLists, forge, <<2 * q, 3 * (c + IF s = {} THEN 0 ELSE 50)>>) :
       q \in {0, 1650, 1700}, c \in {0, 150, 160, 250, 300}, s \in {{}, {Store}}, forge \in BOOLEAN}
    \cup {Case({Deployment(<<2>>, Pod({Soft}, {}, <<[n |-> n, milli |-> FALSE]>>)), Pdb("web", "ns", Own, AtMost(1))},
               NoLists, TRUE, <<2000 * n, 0>>) : n \in {1, 2}}
\* The profile examples: the pods of a cluster and of its pooler.
ProfileCases ==
    {[profile |-> p, docs |-> {Cluster(<<n>>, <<>>, <<>>, zone, <<>>, Milli(c)), Store} \cup pool,
      cpu |-> n * (c + 50) + IF pool = {} THEN 0 ELSE 200] :
       p \in {"light", "standard", "ha"}, n \in 1..3, zone \in {{}, {"zone"}}, c \in {50, 150, 250},
       pool \in {{}} \cup {{Pooler(<<2>>, {PoolerTerm} \cup z, Milli(100)), Pdb("rw", "ns", Labelled("cnpg.io/poolerName", "rw"), AtMost(1))} :
                            z \in {{}, {[PoolerTerm EXCEPT !.key = "zone"]}}}}
Release(ns, chart) == [kind |-> "HelmRelease", ns |-> "flux", name |-> "hr", namespace |-> ns, chart |-> chart]
Object(kind, ns, name) == [kind |-> kind, ns |-> ns, name |-> name]
RenderCases ==
    {[bricks |-> b, chart |-> [a |-> {Object("ConfigMap", "", "obj"), Object("ConfigMap", "other", "fixed")},
                               b |-> {[kind |-> "List", items |-> {Object("ConfigMap", "", "obj")}, ns |-> "ns", name |-> "l"]}]] :
       b \in [1..2 -> {{Object("Service", "ns", "s")}} \cup {{Release(ns, ch), Object("Service", "ns", "t")} : ns \in {<<>>, <<"ns">>}, ch \in {"a", "b"}}
                     \cup {{[kind |-> "List", items |-> {Release(<<"ns">>, "a")}, ns |-> "ns", name |-> "l"]}}]}
Flux(path) == [kind |-> "Kustomization", ns |-> "flux", name |-> "k", path |-> path]
ForgeDb(n) == {[Cluster(<<n>>, <<>>, <<>>, {}, <<>>, Milli(250)) EXCEPT !.name = "forgejo-db"]}
MainCases ==
    {[tree |-> [management |-> {Flux("web"), Flux("db"), [kind |-> "Namespace"]}, managementForge |-> m,
                bricks |-> ("web" :> w @@ "db" :> {Cluster(<<2>>, <<>>, <<>>, {}, <<>>, Milli(c))} @@ "forge" :> f),
                loaded |-> w, examples |-> ("light" :> {Cluster(<<1>>, <<>>, <<>>, {}, <<>>, Milli(c))})],
      database |-> [with \in BOOLEAN |-> 2 * c + IF with THEN SumOver(f, LAMBDA d : 250 * Or(d.instances, 1)) ELSE 0],
      allow |-> a, args |-> o, only |-> only] :
       m \in {{Flux("web"), Flux("db"), Flux("forge")}, {Flux("web"), Flux("forge")}},
       w \in {Good, {d \in Good : d.kind = "Deployment"}}, c \in {100, 300, 350}, f \in {ForgeDb(1), ForgeDb(2)},
       a \in {NoLists, List("singles", <<"Cluster", "ns", "forgejo-db">>, Entry), List("singles", <<"Cluster", "ns", "forgejo-db">>, [Entry EXCEPT !.optIn = TRUE])},
       o \in {{}, {"--forge"}, {"--dump"}, {"--dump", "--forge"}, {"--load"}, {"--profiles"}}, only \in {{}, {"web"}}}
HaCases == DeploymentCases \cup OperatorCases \cup CpuCases
=============================================================================
