----------------------------- MODULE Hardening -----------------------------
(***************************************************************************)
(* The two tests of what the manifests say of their containers:            *)
(* src/scripts/dev/test-container-security-context.py (the VictoriaMetrics *)
(* objects and the Gateways) and src/scripts/dev/test-container-bounds.py  *)
(* (read-only roots and what is mounted over them, limits, tokens).        *)
(*                                                                         *)
(* A field that is absent reads "unset", or 0 where it is a number.  What  *)
(* an operator or a chart makes of the manifests is external.              *)
(***************************************************************************)
EXTENDS Integers, Sequences, FiniteSets, Functions, TLC

\* An error is named, and where it is one of several, with whose it is.
When(test, error) == IF test THEN {<<error, "">>} ELSE {}

\* --- test-container-security-context.py ---

Components == [VMAgent |-> {""}, VMAlert |-> {""}, VMAlertmanager |-> {""}, VMCluster |-> {"vminsert", "vmstorage", "vmselect"}]
Kinds == DOMAIN Components
NoContext == [nonRoot |-> "unset", escalation |-> "unset", readOnly |-> "unset", drop |-> "unset", seccomp |-> "unset", user |-> 0]
Node(doc, part) == IF part \in DOMAIN doc.spec THEN doc.spec[part] ELSE [stray |-> FALSE, context |-> NoContext]

\* One block of the object: vm_problems, the loop over VM_KINDS.
ContextProblems(node) ==
  When(node.stray, "containerSecurityContext")
  \cup When(node.context.nonRoot # "true", "runAsNonRoot")
  \cup When(node.context.escalation # "false", "allowPrivilegeEscalation")
  \cup When(node.context.readOnly # "true", "readOnlyRootFilesystem")
  \cup When(node.context.drop # "ALL", "capabilities")
  \cup When(node.context.seccomp # "RuntimeDefault", "seccompProfile")
  \cup When(node.context.user = 0, "runAsUser")

\* Mutant: the init container is left out for every kind.
SidecarsCalm(kind) == IF kind = "VMCluster" THEN {} ELSE {"config-reloader"}

\* The operator's own containers, which the object patches by name; a VMAlert's init container cannot be.
Sidecars(kind) ==
  CASE kind = "VMCluster" -> {}
    [] kind = "VMAlert" -> {"config-reloader"}
    [] OTHER -> {"config-reloader", "config-init"}

VmProblems(doc) ==
  IF doc.kind \notin Kinds THEN {}
  ELSE UNION {ContextProblems(Node(doc, part)) : part \in Components[doc.kind]}
       \cup {<<"limit", c>> : c \in Sidecars(doc.kind) \ doc.limited}

\* A bundle is <<major, minor>>.
Since(bundle, needed) == bundle[1] > needed[1] \/ (bundle[1] = needed[1] /\ bundle[2] >= needed[2])
GatewayProblems(doc, bundle) ==
  When(doc.kind = "Gateway" /\ "infrastructure" \in doc.fields /\ ~Since(bundle, <<1, 2>>), "infrastructure")

\* main: four objects, without a look at which
ContextTest(docs, gateways, bundle) ==
  UNION {VmProblems(docs[i]) : i \in DOMAIN docs}
  \cup When(Cardinality({i \in DOMAIN docs : docs[i].kind \in Kinds}) # 4, "expected 4")
  \cup UNION {GatewayProblems(gateways[i], bundle) : i \in DOMAIN gateways}

\* --- test-container-bounds.py ---

AlloyErrors(a) ==
  When(~a.readOnly, "alloy root") \cup When(~a.reloader, "reloader root")
  \cup When(a.storage \notin a.mounts, "storagePath") \cup When(~a.sized, "sizeLimit")

\* Mutant: the chart is not asked.
GrafanaAnyChart(g) == When(~g.readOnly, "grafana root") \cup When(~g.tmp, "/tmp")

\* The chart mounts /tmp itself from 13 on.
GrafanaErrors(g) ==
  When(~g.readOnly, "grafana root")
  \cup When(g.tmp = (g.chart >= 13), "/tmp")

OperatorErrors(o) ==
  When(~o.readOnly, "operator root") \cup When(~o.nonRoot, "operator user")
  \cup {<<"emptyDir", path>> : path \in {p \in {"/tmp", "/home/nonroot"} : p \notin DOMAIN o.mounts \/ <<o.mounts[p], "emptyDir">> \notin o.volumes}}

LocalPathErrors(l) ==
  When(l.debug, "--debug") \cup When(l.escalation # "false" \/ l.nonRoot # "true", "securityContext")
  \cup When(~(l.tag \/ l.digest), "helper image")

\* check_emptydirs: the pod of a StatefulSet or a Job, or of a CronJob
Pod(d) == IF d.template # <<>> THEN d.template[1] ELSE IF d.jobTemplate # <<>> THEN d.jobTemplate[1] ELSE {}
EmptyDirErrors(docs) == {<<"sizeLimit", v>> : v \in {w \in UNION {Pod(d) : d \in docs} : w.is = "emptyDir" /\ ~w.sized}}

\* float(cpu[:-1]) / 1000 if it ends with m
Milli(cpu) == IF cpu.unit = "m" THEN cpu.n ELSE 1000 * cpu.n
Throttled == {"kyverno-background-controller", "kyverno-reports-controller"}
\* A throttled controller without any limit stops the test with an error of its own.
PatchErrors(patches, secrets, rate) ==
  {<<"cpu", p.name>> : p \in {q \in patches \cup secrets : q.cpu = <<>>}}
  \cup {<<"under 1 CPU", p.name>> : p \in {q \in patches : q.name \in Throttled /\ q.cpu # <<>> /\ Milli(q.cpu[1]) < 1000}}
  \cup {<<"memory", p.name>> : p \in {q \in secrets : ~q.memory}}
  \cup When(~rate, "clientRateLimitQPS")

Token == "automountServiceAccountToken"
\* The text of the post-renderers holds both words, in whichever patches.
TokenErrors(renderers) ==
  When(~(\E r \in renderers : r.field = Token) \/ ~(\E r \in renderers : ~r.value), "token")

ClusterErrors(c) ==
  When(~c.limits.memory \/ ~c.requests.memory, "memory") \cup When(c.limits.cpu /\ c.name = "zitadel-db", "cpu")

\* check_scrape_size
ScrapeErrors(scrapes) ==
  LET apiserver == {s \in scrapes : s.name = "kube-apiserver"}
  IN  IF Cardinality(apiserver) # 1 THEN {<<"missing", "">>}
      ELSE {<<"size", e>> : e \in {f \in UNION {s.endpoints : s \in apiserver} : f.unit # "MiB" \/ f.n < 32}}
-----------------------------------------------------------------------------
\* Admitted by the namespaces' policy (external), with a user that is not the image's.
Restricted(x) ==
  /\ x.user # 0 /\ x.nonRoot = "true" /\ x.escalation = "false" /\ x.readOnly = "true"
  /\ x.drop = "ALL" /\ x.seccomp = "RuntimeDefault"
OwnContainers(kind) ==
  IF kind = "VMCluster" THEN {} ELSE {"config-reloader"} \cup (IF kind \in {"VMAgent", "VMAlertmanager"} THEN {"config-init"} ELSE {})

\* What passes the first test starts and is admitted: every block of the objects is restricted with a user of
\* its own, no own container of the operator that can be limited is without a limit, and no Gateway asks for
\* a field its CRDs do not have.  And objects for which that holds, if they are four, pass.
ContextsHold(c) ==
  (ContextTest(c.docs, c.gateways, c.bundle) = {}) =
    /\ Cardinality({i \in DOMAIN c.docs : c.docs[i].kind \in Kinds}) = 4
    /\ \A i \in DOMAIN c.docs : c.docs[i].kind \in Kinds =>
         /\ \A p \in Components[c.docs[i].kind] : Restricted(Node(c.docs[i], p).context) /\ ~Node(c.docs[i], p).stray
         /\ OwnContainers(c.docs[i].kind) \subseteq c.docs[i].limited
    /\ \A i \in DOMAIN c.gateways : c.gateways[i].kind = "Gateway" /\ "infrastructure" \in c.gateways[i].fields => c.bundle[1] > 1 \/ c.bundle[2] > 1

\* Where a container writes under a read-only root, one volume is mounted, and only one: /tmp of Grafana
\* by the chart or by the values, never both, and both directories of the Cluster API operator.
Mounted(g) == (IF g.chart >= 13 THEN 1 ELSE 0) + (IF g.tmp THEN 1 ELSE 0)
RootsHaveRoom(c) ==
  /\ AlloyErrors(c.alloy) = {} => c.alloy.storage \in c.alloy.mounts /\ c.alloy.readOnly
  /\ (GrafanaErrors(c.grafana) = {}) = (c.grafana.readOnly /\ Mounted(c.grafana) = 1)
  /\ (OperatorErrors(c.operator) = {}) =
       /\ c.operator.readOnly /\ c.operator.nonRoot
       /\ \A p \in {"/tmp", "/home/nonroot"} : p \in DOMAIN c.operator.mounts /\ \E v \in c.operator.volumes : v = <<c.operator.mounts[p], "emptyDir">>

\* What is bounded stays bounded: no emptyDir of OpenBao without a size, whichever object holds its pod; the
\* controllers Kyverno starves keep a whole CPU in whichever unit; every container and every database cluster
\* a memory limit; the API server's scrape is above the default 16 MiB, and there is one; the volume
\* provisioner is quiet, restricted and its helper named by a version.  A token is dropped as long as no other
\* patch of the release turns a field off.
BoundsHold(c) ==
  /\ EmptyDirErrors(c.docs) = {} =>
       \A d \in c.docs : \A v \in UNION (Range(d.template) \cup Range(d.jobTemplate)) : v.is = "emptyDir" => v.sized
  /\ PatchErrors(c.patches, c.secrets, c.rate) = {} =>
       /\ c.rate /\ \A p \in c.patches \cup c.secrets : p.cpu # <<>>
       /\ \A p \in c.patches : p.name \in Throttled => p.cpu[1] \in {[unit |-> "m", n |-> 1000], [unit |-> "", n |-> 1]}
       /\ \A p \in c.secrets : p.memory
  /\ TokenErrors(c.renderers) = {} /\ (\A r \in c.renderers : r.value \/ r.field = Token) =>
       \E r \in c.renderers : r.field = Token /\ ~r.value
  /\ ClusterErrors(c.cluster) = {} => c.cluster.limits.memory
  /\ ScrapeErrors(c.scrapes) = {} => \E s \in c.scrapes : s.name = "kube-apiserver" /\ \A e \in s.endpoints : e.unit = "MiB" /\ e.n > 16
  /\ (LocalPathErrors(c.provisioner) = {}) =
       (~c.provisioner.debug /\ c.provisioner.nonRoot = "true" /\ c.provisioner.escalation = "false" /\ (c.provisioner.tag \/ c.provisioner.digest))
-----------------------------------------------------------------------------
Good == [nonRoot |-> "true", escalation |-> "false", readOnly |-> "true", drop |-> "ALL", seccomp |-> "RuntimeDefault", user |-> 65534]
Contexts == {Good, NoContext, [Good EXCEPT !.nonRoot = "false"], [Good EXCEPT !.escalation = "unset"], [Good EXCEPT !.readOnly = "unset"],
             [Good EXCEPT !.drop = "other"], [Good EXCEPT !.seccomp = "unset"], [Good EXCEPT !.user = 0]}
Blocks == [stray : BOOLEAN, context : Contexts]
Whole(kind) == [kind |-> kind, limited |-> Sidecars(kind),
                spec |-> [p \in Components[kind] |-> [stray |-> FALSE, context |-> Good]]]
Base == <<Whole("VMAgent"), Whole("VMAlert"), Whole("VMAlertmanager"), Whole("VMCluster"), [kind |-> "VMRule", spec |-> <<>>, limited |-> {}]>>
Variants(i) == {[Base[i] EXCEPT !.spec = [@ EXCEPT ![p] = b], !.limited = l] :
                  p \in Components[Base[i].kind], b \in Blocks, l \in SUBSET {"config-reloader", "config-init"}}
              \cup {[Base[i] EXCEPT !.spec = <<>>]}
ContextCases ==
  [docs : UNION {{[Base EXCEPT ![i] = d] : d \in Variants(i)} : i \in 1..4} \cup {Tail(Base), Base \o <<Base[1]>>},
   gateways : {<<>>, <<[kind |-> "Gateway", fields |-> {"infrastructure"}]>>, <<[kind |-> "Other", fields |-> {"infrastructure"}]>>},
   bundle : {<<1, 1>>, <<1, 2>>, <<2, 0>>}]

RootCases ==
  [alloy : [readOnly : BOOLEAN, reloader : BOOLEAN, storage : {"/var/lib/alloy"}, mounts : SUBSET {"/var/lib/alloy", "/tmp"}, sized : BOOLEAN],
   grafana : [readOnly : BOOLEAN, chart : {12, 13, 14}, tmp : BOOLEAN],
   operator : [readOnly : BOOLEAN, nonRoot : BOOLEAN, volumes : {{}, {<<"a", "emptyDir">>, <<"b", "emptyDir">>}, {<<"a", "emptyDir">>, <<"b", "configMap">>}},
               mounts : {<<>>, [x \in {"/tmp"} |-> "a"], "/tmp" :> "a" @@ "/home/nonroot" :> "b", "/tmp" :> "a" @@ "/home/nonroot" :> "c"}]]

Pods == {{}, {[is |-> "emptyDir", sized |-> TRUE]}, {[is |-> "emptyDir", sized |-> FALSE], [is |-> "secret", sized |-> FALSE]}, {[is |-> "secret", sized |-> FALSE]}}
Cpus == {<<>>} \cup {<<[unit |-> u, n |-> n]>> : u \in {"m"}, n \in {500, 1000}} \cup {<<[unit |-> "", n |-> n]>> : n \in {0, 1}}
Patches == [name : {"kyverno-background-controller", "kyverno-admission-controller"}, cpu : Cpus, memory : {FALSE}]
Bounded == [docs |-> {}, patches |-> {}, secrets |-> {}, rate |-> TRUE, renderers |-> {},
            cluster |-> [name |-> "grafana-db", limits |-> [memory |-> TRUE, cpu |-> FALSE], requests |-> [memory |-> TRUE]],
            scrapes |-> {}, provisioner |-> [debug |-> FALSE, escalation |-> "false", nonRoot |-> "true", tag |-> TRUE, digest |-> FALSE]]
BoundCases ==
  {[Bounded EXCEPT !.docs = {[template |-> t, jobTemplate |-> j]}] : t \in {<<>>} \cup {<<p>> : p \in Pods}, j \in {<<>>}}
  \cup {[Bounded EXCEPT !.docs = {[template |-> <<>>, jobTemplate |-> <<p>>], [template |-> <<q>>, jobTemplate |-> <<>>]}] : p \in Pods, q \in Pods}
  \cup {[Bounded EXCEPT !.patches = {p, q}, !.rate = r] : p \in Patches, q \in Patches, r \in BOOLEAN}
  \cup {[Bounded EXCEPT !.secrets = {[name |-> "webhook", cpu |-> c, memory |-> m]}] : c \in Cpus, m \in BOOLEAN}
  \cup {[Bounded EXCEPT !.renderers = r] : r \in SUBSET [field : {Token, "readOnly"}, value : BOOLEAN]}
  \cup {[Bounded EXCEPT !.cluster = [name |-> n, limits |-> l, requests |-> r]] :
          n \in {"zitadel-db", "grafana-db"}, l \in [memory : BOOLEAN, cpu : BOOLEAN], r \in [memory : BOOLEAN]}
  \cup {[Bounded EXCEPT !.scrapes = {[name |-> n, endpoints |-> e], [name |-> m, endpoints |-> {}]}] :
          n \in {"kube-apiserver", "kubelet"}, m \in {"kube-apiserver", "kubelet"},
          e \in {{}, {[unit |-> "MiB", n |-> 64]}, {[unit |-> "MiB", n |-> 16]}, {[unit |-> "", n |-> 99]}}}
  \cup {[Bounded EXCEPT !.provisioner = p] :
          p \in [debug : BOOLEAN, escalation : {"false", "unset"}, nonRoot : {"true", "unset"}, tag : BOOLEAN, digest : BOOLEAN]}
=============================================================================
