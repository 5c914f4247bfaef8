----------------------------- MODULE ForgeBrick -----------------------------
(***************************************************************************)
(* The opt-in forge brick and the test that pins its shape                 *)
(* (src/scripts/dev/test-forgejo-brick.py: problems, optin_problems,       *)
(* basebackup_problems, tolerations_problems, metrics_token_problems): a   *)
(* brick the test accepts comes up, keeps its metrics to the scrape, is    *)
(* away no longer than it says and keeps what was pushed.                  *)
(*                                                                         *)
(* What Kubernetes, Flux, the Gateway, External Secrets and Longhorn make  *)
(* of a manifest is external.  A field that is not there is <<>>, and <<v>>*)
(* when it is.  The lock cleaners the same test pins are module GitLocks.  *)
(***************************************************************************)
EXTENDS Integers, Sequences, FiniteSets, SequencesExt, FiniteSetsExt

When(c, S) == IF c THEN S ELSE {}
Is(field, value) == field = <<value>>

-----------------------------------------------------------------------------
(* problems: the wiring of the brick.                                       *)

\* seeded: the properties of each path configure.sh creates, as its last line has it.
Seeded(lines) ==
    [p \in {lines[k].path : k \in DOMAIN lines} |->
       lines[Max({k \in DOMAIN lines : lines[k].path = p})].props]
\* route_namespaces: the namespaces of the routes that send traffic anywhere.
Routed(routes) == {r.ns : r \in {x \in routes : \E k \in DOMAIN x.rules : x.rules[k].backends # {}}}
\* The keys a Secret will have.
Keys(e) == DOMAIN e.template \cup {r.secretKey : r \in e.data}

SecretErrors(w) ==
    LET seed == Seeded(w.configure)
        refs == UNION {e.data : e \in w.secrets}
        admin == {e \in w.secrets : e.name = "forgejo-admin"}
    IN {<<r.key, "not created">> : r \in {x \in refs : x.key \notin DOMAIN seed \/ x.property \notin seed[x.key]}}
       \cup When(refs = {}, {<<"secrets", "blind">>})
       \cup {<<e.name, "keys">> : e \in {x \in admin : ~({"username", "password"} \subseteq Keys(x))}}
       \cup {<<e.name, "username">> : e \in {x \in admin : "username" \in DOMAIN x.template /\ x.template.username # w.admin}}
\* Mutant: a rule for /metrics anywhere.
RouteErrorsAnywhere(w) ==
    When(~\E k \in DOMAIN w.route.rules : "/metrics" \in w.route.rules[k].paths, {<<"route", "metrics">>})
RouteErrors(w) ==
    LET first == w.route.rules[1]
    IN {<<ns, "not admitted">> : ns \in Routed(w.routes \cup {w.route}) \ w.gateway}
       \cup When("/metrics" \notin first.paths \/ first.backends # {}, {<<"route", "metrics">>})
RepoErrors(w) ==
    IF w.repo = <<>> THEN {<<"repo", "not found">>}
    ELSE When(~w.repo[1].oci, {<<"repo", "not oci">>}) \cup When(w.repo[1].host \notin w.egress, {<<"repo", "not admitted">>})
FluxErrors(w) ==
    IF w.db = <<>> \/ w.app = <<>> THEN {<<"flux", "not there">>}
    ELSE When(~w.db[1].wait, {<<"flux", "wait">>}) \cup When("cluster-identity" \notin w.db[1].substitutes, {<<"flux", "identity">>})
         \cup When("forgejo-db" \notin w.app[1].dependsOn, {<<"flux", "order">>}) \cup When(~w.db[1].ownPath, {<<"flux", "path">>})
Problems(w) ==
    SecretErrors(w) \cup RouteErrors(w) \cup RepoErrors(w) \cup FluxErrors(w)
    \cup When(~w.closed, {<<"values", "registration">>}) \cup When(w.inCnpg, {<<"cnpg", "forge">>})

-----------------------------------------------------------------------------
(* What becomes of a brick.                                                 *)

\* kv_create keeps what is there: the first line of a path makes it.
Created(lines, p) == lines[Min({k \in DOMAIN lines : lines[k].path = p})].props
Synced(w, e) ==
    \A r \in e.data : (\E k \in DOMAIN w.configure : w.configure[k].path = r.key) /\ r.property \in Created(w.configure, r.key)
SecretReady(w, name, keys) == \E e \in w.secrets : e.name = name /\ Synced(w, e) /\ keys \subseteq Keys(e)
\* Flux: a Kustomization goes after those it depends on, which are ready once applied, or
\* once what they applied is, with wait.
DbReady(w) ==
    w.db # <<>> /\ w.db[1].ownPath /\ "cluster-identity" \in w.db[1].substitutes /\ SecretReady(w, "forgejo-db", {"password"})
AppReady(w) ==
    /\ w.app # <<>> /\ w.repo # <<>> /\ w.repo[1].oci /\ w.repo[1].host \in w.egress
    /\ SecretReady(w, "forgejo-admin", {"username", "password"})
    /\ DbReady(w) /\ "forgejo-db" \in w.app[1].dependsOn /\ w.db[1].wait
\* The Gateway: the longest path that matches, the first rule of those.
Answers(w, path) ==
    LET good(p) == p = "/" \/ p = path
        of(k, p) == p \in w.route.rules[k].paths
        long == {k \in DOMAIN w.route.rules : of(k, path)}
        hits == IF long # {} THEN long ELSE {k \in DOMAIN w.route.rules : \E p \in w.route.rules[k].paths : good(p)}
    IN IF hits = {} \/ w.route.ns \notin w.gateway THEN {} ELSE w.route.rules[Min(hits)].backends

\* A brick the test accepts, where the two Secrets are asked for at all (the test does not
\* look whether they are), comes up in a default install, its database first, answers its
\* route but for /metrics, and leaves the platform's databases alone.
AcceptedComesUp(w) ==
    Problems(w) = {} /\ {"forgejo-admin", "forgejo-db"} \subseteq {e.name : e \in w.secrets}
                     => /\ AppReady(w) /\ w.closed /\ ~w.inCnpg
                        /\ Answers(w, "/metrics") = {}
                        /\ LET slash == {k \in DOMAIN w.route.rules : "/" \in w.route.rules[k].paths}
                           IN slash # {} /\ w.route.rules[Min(slash)].backends # {} => Answers(w, "/") # {}
\* One it refuses does not, or shows its metrics, or has them hidden by the last rule only.
RefusedFallsShort(w) ==
    Problems(w) # {} =>
      \/ ~AppReady(w) \/ ~w.closed \/ w.inCnpg \/ Answers(w, "/metrics") # {}
      \/ "/metrics" \notin w.route.rules[1].paths \/ \E r \in w.routes \cup {w.route} : r.ns \notin w.gateway
      \/ \E e \in w.secrets : e.name = "forgejo-admin" /\ ("username" \in DOMAIN e.template => e.template.username # w.admin)
      \/ \E e \in w.secrets : ~Synced(w, e)

-----------------------------------------------------------------------------
(* metrics_token_problems: /metrics asks for a token, and the scrape has it. *)

Mine(t, secrets, ns) == {e \in secrets : e.name = t.ref[1].name /\ e.ns = ns}
TwinErrors(t, secrets, ns) ==
    LET mine == Mine(t, secrets, ns)
    IN IF Cardinality(mine) # 1 THEN {<<ns, "no secret">>}
       ELSE {<<ns, "keys">> : e \in {x \in mine : ~(\E r \in x.data : x.data = {r} /\ r.secretKey = t.ref[1].key)}}
Source(e) == {<<r.key, r.property>> : r \in e.data}
\* Mutant: an optional reference is one.
TokenErrorsOptional(t) == When(t.literal, {<<"env", "literal">>})
TokenErrors(t) == When(t.ref[1].optional, {<<"env", "optional">>}) \cup When(t.literal, {<<"env", "literal">>})
TokenProblems(t) ==
    IF t.ref = <<>> THEN {<<"env", "no reference">>}
    ELSE TokenErrors(t)
         \cup When(t.inValues, {<<"values", "token">>}) \cup When(~t.enabled, {<<"values", "metrics">>})
         \cup TwinErrors(t, t.git, "services-git") \cup TwinErrors(t, t.obs, "services-observability")
         \cup {<<"twins", "differ">> : p \in {q \in Mine(t, t.git, "services-git") \X Mine(t, t.obs, "services-observability") :
                                              Source(q[1]) # Source(q[2])}}
         \cup When(~t.listed, {<<"obs", "not listed">>})
         \cup When(t.scrape = <<>> \/ t.scrape[1].cred # <<[name |-> t.ref[1].name, key |-> t.ref[1].key]>>, {<<"scrape", "credentials">>})
         \cup When(t.scrape # <<>> /\ t.scrape[1].ns # "services-observability", {<<"scrape", "namespace">>})

\* A Secret that is applied and synced, by its name and namespace: what a key of it holds.
Value(secrets, name, ns, key) ==
    LET refs == UNION {{<<r.key, r.property>> : r \in {x \in e.data : x.secretKey = key}} : e \in {x \in secrets : x.name = name /\ x.ns = ns}}
    IN IF Cardinality(refs) = 1 THEN refs ELSE {}
Held(t) == IF t.ref = <<>> THEN {} ELSE Value(t.git, t.ref[1].name, "services-git", t.ref[1].key)
\* The pod at its start, External Secrets having been there or not: whether it runs, and open.
Starts(t, synced) == t.ref = <<>> \/ t.ref[1].optional \/ (synced /\ Held(t) # {})
OpenAt(t, synced) == Starts(t, synced) /\ (t.ref = <<>> \/ ~synced \/ Held(t) = {}) /\ ~t.literal /\ t.enabled
Sent(t) == IF t.scrape = <<>> \/ t.scrape[1].cred = <<>> THEN {}
           ELSE LET c == t.scrape[1].cred[1]
                IN Value(IF t.listed THEN t.obs ELSE {}, c.name, t.scrape[1].ns, c.key)

\* With an accepted brick no order of pod and Secret serves /metrics to anyone, the forge
\* starts once the Secret is there, and the scrape sends the token the forge holds; a brick
\* where all that is so is accepted when its Secrets have the one key the forge reads.
TokenKept(t) ==
    LET right == /\ \A synced \in BOOLEAN : ~OpenAt(t, synced)
                 /\ Starts(t, TRUE) /\ t.enabled /\ Sent(t) # {} /\ Sent(t) = Held(t)
                 /\ ~t.literal /\ ~t.inValues
    IN /\ TokenProblems(t) = {} => right
       /\ right => \/ TokenProblems(t) = {} \/ t.ref[1].optional
                   \/ \E e \in t.git \cup t.obs : {r.secretKey : r \in e.data} # {t.ref[1].key}

-----------------------------------------------------------------------------
(* optin_problems and what it calls: the volume, its backup, the database's *)
(* base backup, the tolerations, and that nothing of it is on by default.   *)

Brick == {"forgejo", "forgejo-db"}
Taints == {"unreachable", "not-ready"}
\* tolerations_problems.
TolerationErrors(tols) ==
    {<<key, "toleration">> : key \in {k \in Taints :
        LET of == SelectSeq(tols, LAMBDA t : t.key = k /\ t.effect \in {<<>>, <<"NoExecute">>})
        IN Len(of) # 1 \/ ~of[1].exists \/ of[1].seconds = <<>> \/ of[1].seconds[1] > 30}}
\* basebackup_problems.
BaseBackupErrors(sbs) ==
    LET mine == SelectSeq(sbs, LAMBDA s : s.cluster = "forgejo-db")
    IN IF Len(mine) # 1 THEN {<<"base backup", "not one">>} ELSE When(~Is(mine[1].immediate, TRUE), {<<"base backup", "late">>})
\* Mutant: the class may lack the mount option.
ClassErrorsPlain(v) == When(v.class = <<>> \/ v.class[1].groups # {"oa-forgejo"}, {<<"class", "group">>})
ClassErrors(v) ==
    IF v.class = <<>> THEN {<<"class", "none">>}
    ELSE When(v.class[1].groups # {"oa-forgejo"}, {<<"class", "group">>}) \cup When(v.class[1].rest # v.baseClass, {<<"class", "parameters">>})
         \cup When(v.class[1].mount # <<"dirsync">>, {<<"class", "mount">>})
Selected(v) == SelectSeq(v.jobs, LAMBDA j : j.backup /\ "oa-forgejo" \in j.groups)
JobErrors(v) ==
    LET sel == Selected(v)
    IN When(Len(sel) # 1, {<<"job", "not one">>})
       \cup UNION {When(~j.longhorn, {<<"job", "namespace">>}) \cup When(j.retain < 1, {<<"job", "retain">>})
                   \cup (IF ~j.daily THEN {<<"job", "not daily">>} ELSE When(j.cron \in v.others, {<<"job", "collides">>})) : j \in ToSet(sel)}
\* other_schedules: the seconds of a ScheduledBackup dropped.
Others(crons, scheduled) == crons \cup {s[2] : s \in scheduled}
OptinProblems(v) ==
    {<<p, "on by default">> : p \in {q \in {"management", "workload"} : v.profiles[q] \cap Brick # {}}}
    \cup When(v.profiles.forge \ v.profiles.management # Brick, {<<"forge", "renders more">>})
    \cup When(~(v.profiles.management \subseteq v.profiles.forge), {<<"forge", "removes">>})
    \cup When(v.fsync # <<"all">>, {<<"git", "fsync">>}) \cup When(v.method \notin {<<>>, <<"fsync">>}, {<<"git", "method">>})
    \cup BaseBackupErrors(v.sbs) \cup TolerationErrors(v.tols)
    \cup When(~v.ownClass, {<<"pvc", "class">>}) \cup When(v.label, {<<"pvc", "label">>}) \cup When(~v.classListed, {<<"class", "not listed">>})
    \cup ClassErrors(v) \cup JobErrors(v)

\* Kubernetes: how long a pod stays on a node with a taint, 300 s where nothing is said,
\* for ever (-1) where no toleration of it has an end.
Tolerate(tols, key) == {k \in DOMAIN tols : tols[k].key = key /\ tols[k].effect \in {<<>>, <<"NoExecute">>} /\ tols[k].exists}
Away(tols, key) ==
    LET ends == {tols[k].seconds[1] : k \in {j \in Tolerate(tols, key) : tols[j].seconds # <<>>}}
    IN IF Tolerate(tols, key) = {} THEN 300 ELSE IF ends = {} THEN -1 ELSE Min(ends)
\* Longhorn: the volume is backed up by the jobs of its groups.
BackedUp(v) ==
    v.ownClass /\ v.classListed /\ v.class # <<>> /\
    \E j \in ToSet(v.jobs) : j.backup /\ j.longhorn /\ j.daily /\ j.retain > 0 /\ j.groups \cap v.class[1].groups # {}
\* git and ext4: what an acknowledged push needs to outlive a power loss.
Durable(v) == v.fsync = <<"all">> /\ v.method \in {<<>>, <<"fsync">>} /\ v.ownClass /\ v.class # <<>> /\ "dirsync" \in ToSet(v.class[1].mount)

\* An accepted brick is off by default, and once picked changes nothing else; its pushes
\* survive a power loss, its volume is backed up every day on its own, its database can be
\* recovered from the first minute, and a lost node keeps it away for 30 s.
AcceptedKeeps(v) ==
    OptinProblems(v) = {} =>
      /\ \A p \in {"management", "workload"} : v.profiles[p] \cap Brick = {}
      /\ v.profiles.forge = v.profiles.management \cup Brick
      /\ Durable(v) /\ BackedUp(v) /\ Cardinality({k \in DOMAIN v.jobs : v.jobs[k].backup /\ "oa-forgejo" \in v.jobs[k].groups}) = 1
      /\ \A j \in ToSet(Selected(v)) : j.cron \notin v.others
      /\ \E s \in ToSet(v.sbs) : s.cluster = "forgejo-db" /\ s.immediate = <<TRUE>>
      /\ \A key \in Taints : Away(v.tols, key) \in 0..30
\* A brick that keeps all this is accepted, but for what the test refuses as untested.
KeepsIsAccepted(v) ==
    OptinProblems(v) # {} =>
      \/ ~Durable(v) \/ ~BackedUp(v) \/ \E key \in Taints : Away(v.tols, key) \notin 0..30
      \/ v.profiles.forge # v.profiles.management \cup Brick \/ v.profiles.management \cap Brick # {} \/ v.profiles.workload \cap Brick # {}
      \/ ~(\E s \in ToSet(v.sbs) : s.cluster = "forgejo-db" /\ s.immediate = <<TRUE>>) \/ Len(v.sbs) > 1
      \/ Len(v.tols) > 2 \/ v.label \/ Len(v.jobs) > 1 \/ \E j \in ToSet(v.jobs) : j.cron \in v.others
      \/ v.class[1].rest # v.baseClass \/ Len(v.class[1].mount) > 1 \/ Cardinality(v.class[1].groups) > 1

-----------------------------------------------------------------------------
(* The bricks TLC judges: the shipped one with a few of its parts changed.  *)

Data(secretKey, key, property) == [secretKey |-> secretKey, key |-> key, property |-> property]
Secret(name, ns, data, template) == [name |-> name, ns |-> ns, data |-> data, template |-> template]
Line(path, props) == [path |-> path, props |-> props]
NoTemplate == [k \in {} |-> ""]
DbSecret == Secret("forgejo-db", "foundation-databases", {Data("password", "forgejo/db", "password")}, NoTemplate)
AdminSecret(data, template) == Secret("forgejo-admin", "services-git", data, template)
Password == Data("password", "forgejo/admin", "password")
Rule(paths, backends) == [paths |-> paths, backends |-> backends]
Route(ns, rules) == [ns |-> ns, rules |-> rules]
Shut == Rule({"/metrics"}, {})
WiringCases ==
    [configure : {<<Line("forgejo/db", p), Line("forgejo/admin", q)>> : p \in {{}, {"password"}}, q \in {{"password"}, {"username"}}}
                 \cup {<<Line("forgejo/db", {"password"})>>},
     secrets : {{}, {DbSecret}} \cup {{DbSecret, AdminSecret({Password}, t)} : t \in {NoTemplate, [username |-> "admin"], [username |-> "root"]}}
               \cup {{DbSecret, AdminSecret({Password, Data("username", "forgejo/admin", "username")}, NoTemplate)}},
     admin : {"admin"}, closed : BOOLEAN, inCnpg : {FALSE},
     repo : {<<>>, <<[oci |-> TRUE, host |-> "code"]>>, <<[oci |-> FALSE, host |-> "code"]>>}, egress : {{}, {"code", "ghcr"}},
     db : {<<>>, <<[wait |-> TRUE, substitutes |-> {"cluster-identity"}, ownPath |-> TRUE]>>,
           <<[wait |-> FALSE, substitutes |-> {"cluster-identity"}, ownPath |-> TRUE]>>, <<[wait |-> TRUE, substitutes |-> {}, ownPath |-> TRUE]>>},
     app : {<<>>, <<[dependsOn |-> {"vault"}]>>, <<[dependsOn |-> {"vault", "forgejo-db"}]>>},
     route : {Route("services-git", r) : r \in {<<Shut, Rule({"/"}, {"forge"})>>, <<Rule({"/"}, {"forge"})>>, <<Rule({"/", "/metrics"}, {"forge"})>>,
                                               <<Rule({"/"}, {"forge"}), Shut>>, <<Rule({"/metrics"}, {"forge"}), Shut>>,
                                               <<Rule({"/"}, {"forge"}), Rule({"/metrics"}, {"forge"})>>}},
     routes : {{}, {Route("identity", <<Rule({"/"}, {"zitadel"})>>)}}, gateway : {{"services-git"}, {"identity"}, {"services-git", "identity"}}]

Reference(o) == <<[name |-> "forgejo-metrics", key |-> "token", optional |-> o]>>
Twin(name, ns, secretKey, key) == Secret(name, ns, {Data(secretKey, key, "token")}, NoTemplate)
Twins(ns) == {{}, {Twin("forgejo-metrics", ns, "token", "forgejo/metrics")}, {Twin("forgejo-metrics", ns, "token", "forgejo/admin")},
              {Twin("forgejo-metrics", ns, "password", "forgejo/metrics")}, {Twin("forgejo-metrics", "default", "token", "forgejo/metrics")},
              {Secret("forgejo-metrics", ns, {Data("token", "forgejo/metrics", "token"), Data("more", "forgejo/metrics", "more")}, NoTemplate)}}
Credentials == {<<>>} \cup {<<[name |-> n, key |-> k]>> : n \in {"forgejo-metrics", "forgejo-admin"}, k \in {"token", "password"}}
TokenCases ==
    [ref : {<<>>, Reference(TRUE), Reference(FALSE)}, literal : BOOLEAN, inValues : BOOLEAN, enabled : BOOLEAN,
     git : Twins("services-git"), obs : Twins("services-observability"), listed : BOOLEAN,
     scrape : {<<>>} \cup {<<[ns |-> n, cred |-> c]>> : n \in {"services-observability", "services-git"}, c \in Credentials}]

Shipped == {"cilium", "openbao", "forgejo-none"}
Profile(m, w, f) == [management |-> m, workload |-> w, forge |-> f]
Toleration(key, effect, exists, seconds) == [key |-> key, effect |-> effect, exists |-> exists, seconds |-> seconds]
Quick(key) == Toleration(key, <<"NoExecute">>, TRUE, <<30>>)
TolerationSets ==
    {<<>>, <<Quick("unreachable")>>} \cup
    {<<Quick("unreachable"), t>> : t \in [key : {"not-ready"}, effect : {<<>>, <<"NoExecute">>, <<"NoSchedule">>}, exists : BOOLEAN, seconds : {<<>>, <<30>>, <<300>>}]}
    \cup {<<Quick("unreachable"), Quick("not-ready"), Toleration("not-ready", <<>>, TRUE, s)>> : s \in {<<>>, <<300>>}}
Base(cluster, immediate) == [cluster |-> cluster, immediate |-> immediate]
Job(cron, r) == [backup |-> TRUE, groups |-> {"oa-forgejo"}, longhorn |-> TRUE, daily |-> TRUE, cron |-> cron, retain |-> r]
Class(groups, rest, mount) == <<[groups |-> groups, rest |-> rest, mount |-> mount]>>
Kept == [profiles |-> Profile(Shipped, Shipped, Shipped \cup Brick), fsync |-> <<"all">>, method |-> <<>>,
         sbs |-> <<Base("forgejo-db", <<TRUE>>)>>, tols |-> <<Quick("unreachable"), Quick("not-ready")>>,
         ownClass |-> TRUE, label |-> FALSE, classListed |-> TRUE, class |-> Class({"oa-forgejo"}, "x2", <<"dirsync">>), baseClass |-> "x2",
         jobs |-> <<Job("10 1", 7)>>, others |-> Others({"0 1"}, {<<"0", "40 3">>})]
OptinCases ==
    {[Kept EXCEPT !.profiles = p, !.sbs = s, !.fsync = f, !.method = m] :
       p \in {Profile(a, b, a \cup c) : a \in {Shipped, Shipped \cup {"forgejo"}}, b \in {Shipped, Shipped \cup Brick},
               c \in {{}, Brick, {"forgejo"}, Brick \cup {"more"}}} \cup {Profile(Shipped, Shipped, Brick)},
       s \in {<<>>, <<Base("forgejo-db", <<>>)>>, <<Base("forgejo-db", <<TRUE>>), Base("zitadel-db", <<>>)>>, <<Base("forgejo-db", <<TRUE>>), Base("forgejo-db", <<>>)>>},
       f \in {<<>>, <<"all">>, <<"loose-object">>}, m \in {<<>>, <<"fsync">>, <<"batch">>}}
    \cup
    {[Kept EXCEPT !.tols = t, !.ownClass = o, !.label = l, !.classListed = i, !.class = c, !.jobs = j] :
       t \in TolerationSets, o \in BOOLEAN, l \in BOOLEAN, i \in BOOLEAN,
       c \in {<<>>} \cup {Class(g, r, m) : g \in {{}, {"oa-forgejo"}, {"oa-forgejo", "daily"}}, r \in {"x2", "x3"}, m \in {<<>>, <<"dirsync">>, <<"noatime", "dirsync">>}},
       j \in {<<Job("10 1", 7)>>, <<>>, <<Job("0 1", 7)>>}}
    \cup
    {[Kept EXCEPT !.jobs = j] :
       j \in {<<[Job(c, r) EXCEPT !.longhorn = n, !.daily = d, !.groups = g, !.backup = b]>> :
                 c \in {"10 1", "40 3"}, r \in {0, 1}, n \in BOOLEAN, d \in BOOLEAN, g \in {{}, {"oa-forgejo"}}, b \in BOOLEAN}
              \cup {<<Job("10 1", 7), Job("20 1", 7)>>}}

=============================================================================
