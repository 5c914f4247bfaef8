--------------------------- MODULE BrickRenders ----------------------------
(***************************************************************************)
(* What the bricks render, taken together (check-object-collisions.py,     *)
(* check-dependson-contracts.py, check-externalsecret-namespaces.py and    *)
(* dev/render-dag.py): one kustomize build each, then a look across them.  *)
(*                                                                         *)
(* A brick has a path ("" for none), what it depends on, and the objects   *)
(* of its build; a build may fail, and say why on stderr or nothing.       *)
(***************************************************************************)
EXTENDS Integers, Sequences, FiniteSets

When(c, S) == IF c THEN S ELSE {}
Built(bricks) == {b \in DOMAIN bricks : bricks[b].path # "" /\ bricks[b].build = "ok"}
\* render-dag.py: a file for each path that builds.
RenderDag(bricks) == {bricks[b].path : b \in Built(bricks)}

-----------------------------------------------------------------------------
(* check-object-collisions.py *)

\* What failed is told by its stderr; without one the brick is taken to render nothing.
BuildErrors(bricks) == {<<"build", bricks[b].path>> : b \in {x \in DOMAIN bricks : bricks[x].path # "" /\ bricks[x].build = "failed"}}
\* Mutant: the namespace is left out.
KeyOfName(o) == <<o.group, o.version, o.kind, o.name>>
\* The apiVersion with the rest: the same object under two versions of its group is two.
Key(o) == <<o.group, o.version, o.kind, o.ns, o.name>>
Owners(bricks, key) == {bricks[b].path : b \in {x \in Built(bricks) : \E o \in bricks[x].objects : o.kind # "" /\ Key(o) = key}}
\* Mutant: bricks are told apart by name, though two may share a path.
CollisionsByName(bricks) ==
    {<<"collision", k>> : k \in {Key(o) : o \in {p \in UNION {bricks[b].objects : b \in Built(bricks)} :
       Cardinality({x \in Built(bricks) : p \in bricks[x].objects}) > 1}}}
Collisions(bricks) ==
    {<<"collision", k>> : k \in {Key(o) : o \in {p \in UNION {bricks[b].objects : b \in Built(bricks)} :
       Cardinality(Owners(bricks, Key(p))) > 1}}}
CollisionCheck(bricks) == BuildErrors(bricks) \cup Collisions(bricks)

-----------------------------------------------------------------------------
(* check-dependson-contracts.py *)

\* needs: who provides what an object uses.
Needs(o) ==
    When(o.group = "istio.io", {"istio"})
    \cup When(o.group = "gateway.networking.k8s.io", {"platform-gateway-api"})
    \cup When(o.group = "external-secrets.io" /\ o.kind = "ExternalSecret" /\ o.store = "openbao", {"external-secrets-stores"})
\* Mutant: only what a brick names itself.
ClosureDirect(bricks, b) == bricks[b].deps \cap DOMAIN bricks
\* closure: the bricks it depends on, and theirs; a name that is no brick is dropped.
Closure(bricks, b) ==
    LET reach[n \in 0..Cardinality(DOMAIN bricks)] ==
          IF n = 0 THEN bricks[b].deps \cap DOMAIN bricks
          ELSE reach[n-1] \cup UNION {bricks[d].deps \cap DOMAIN bricks : d \in reach[n-1]}
    IN reach[Cardinality(DOMAIN bricks)]
Missing(bricks) ==
    UNION {{<<"missing", b, p>> : p \in (UNION {Needs(o) : o \in {x \in bricks[b].objects : x.kind # ""}}) \ ({b} \cup Closure(bricks, b))} :
             b \in Built(bricks)}
ContractCheck(bricks) == {<<"build", b>> : b \in {x \in DOMAIN bricks : bricks[x].path # ""} \ Built(bricks)} \cup Missing(bricks)

-----------------------------------------------------------------------------
(* check-externalsecret-namespaces.py *)

\* allowed_namespaces: conditions made of nothing but namespaces.
AllowedErrors(store) ==
    IF store.conditions = {} THEN {<<"no conditions">>}
    ELSE IF \E c \in store.conditions : c.other THEN {<<"not only namespaces">>}
    ELSE When(UNION {c.namespaces : c \in store.conditions} = {}, {<<"no namespace">>})
Allowed(store) == UNION {c.namespaces : c \in store.conditions}
Namespaced == {"ExternalSecret", "PushSecret", "SecretStore"}
ObjectErrors(objects, allowed) ==
    {<<"not used", o.kind>> : o \in {x \in objects : x.kind \in {"ClusterExternalSecret", "ClusterPushSecret"}}}
    \cup {<<"outside", o.ns>> : o \in {x \in objects : x.kind \in Namespaced /\ x.ns \notin allowed}}
\* Of the Kyverno policy: what it leaves out, what becomes of writes without it, and when.
PolicyErrors(policy, allowed) ==
    When(UNION {r.exclude : r \in policy.rules} # allowed, {<<"excludes others">>})
    \cup When(policy.failure # "Ignore", {<<"failurePolicy">>})
    \cup When(\E r \in policy.rules : \E ops \in r.matches : (IF ops = {} THEN {"DELETE"} ELSE ops) \ {"CREATE", "UPDATE"} # {}, {<<"operations">>})
\* check: without its store nothing else is looked at; the first of the policies is read.
SecretCheck(objects) ==
    LET stores == {o \in objects : o.kind = "ClusterSecretStore"}
        ours == {s \in stores : s.name = "openbao"}
        others == {<<"other store", s.name>> : s \in stores \ ours}
        policies == {o \in objects : o.kind = "ClusterPolicy"}
    IN IF ours = {} THEN others \cup {<<"no store">>}
       ELSE LET store == CHOOSE s \in ours : TRUE
                allowed == Allowed(store)
            IN IF AllowedErrors(store) # {} THEN others \cup AllowedErrors(store)
               ELSE others \cup ObjectErrors(objects, allowed)
                    \cup (IF policies = {} THEN {<<"no policy">>} ELSE PolicyErrors(CHOOSE p \in policies : TRUE, allowed))

-----------------------------------------------------------------------------
(* What the checks stand for *)

\* An object of the cluster, which it serves under every version of its group.
Served(o) == <<o.group, o.kind, o.ns, o.name>>
\* The bricks of a render that passes can be applied in any order, and again: each object
\* of the cluster is what its one brick makes of it - but for one that two bricks render
\* under different versions; and all are rendered but those that failed without a word.
\* What is reported as a collision does depend on the order.
OneOwner(c) ==
    LET Write(cluster, b) == [k \in DOMAIN cluster \cup {Served(o) : o \in c.bricks[b].objects} |->
                                IF \E o \in c.bricks[b].objects : Served(o) = k THEN c.bricks[b].path ELSE cluster[k]]
        after(a, b) == Write(Write([k \in {} |-> ""], a), b)
        versions(b, k) == {o.version : o \in {p \in c.bricks[b].objects : Served(p) = k}}
        paths == {c.bricks[b].path : b \in DOMAIN c.bricks} \ {""}
    IN /\ CollisionCheck(c.bricks) = {} =>
            /\ paths = RenderDag(c.bricks) \cup {p \in paths : \E b \in DOMAIN c.bricks : c.bricks[b].path = p /\ c.bricks[b].build = "silent"}
            /\ \A a, b \in Built(c.bricks) : \A k \in DOMAIN after(a, b) :
                 after(a, b)[k] = after(b, a)[k] \/ versions(a, k) \cap versions(b, k) = {}
       /\ Collisions(c.bricks) # {} => \E a, b \in Built(c.bricks) : after(a, b) # after(b, a)

\* Flux reconciles a brick once those it depends on are ready; one it depends on that is no
\* brick holds it for ever.
Orders(bricks) ==
    {s \in UNION {[1..n -> DOMAIN bricks] : n \in 0..Cardinality(DOMAIN bricks)} :
       \A i \in DOMAIN s : /\ \A j \in 1..(i - 1) : s[j] # s[i]
                           /\ \A d \in bricks[s[i]].deps : \E j \in 1..(i - 1) : s[j] = d}
\* In every order Flux may take, a brick comes after the providers of what it uses; and a
\* provider that is reported missing comes after it in some order.
ProvidersFirst(c) ==
    LET before(s, i) == {s[j] : j \in 1..i}
    IN /\ Missing(c.bricks) = {} =>
            \A s \in Orders(c.bricks) : \A i \in DOMAIN s : s[i] \in Built(c.bricks) =>
              UNION {Needs(o) : o \in c.bricks[s[i]].objects} \subseteq before(s, i)
       /\ \A m \in Missing(c.bricks) :
            (\E s \in Orders(c.bricks) : \E i \in DOMAIN s : s[i] = m[2]) =>
              \E s \in Orders(c.bricks) : \E i \in DOMAIN s : s[i] = m[2] /\ m[3] \notin before(s, i)

\* The store as External Secrets serves it: a namespace of one of its conditions, any of
\* them when it has none, and what a label selects.
Serves(store, ns) == store.conditions = {} \/ \E c \in store.conditions : ns \in c.namespaces \/ c.other
\* Renders that pass: every secret object is served, no namespace is served that the
\* policy does not leave out, and the policy neither blocks writes while Kyverno is down nor
\* reads an object that is gone.
SecretsServed(c) ==
    SecretCheck(c.objects) = {} =>
      \E store \in c.objects : /\ store.kind = "ClusterSecretStore" /\ store.name = "openbao"
                               /\ \A s \in c.objects : s.kind = "ClusterSecretStore" => s = store
                               /\ \A o \in c.objects : o.kind \in Namespaced => Serves(store, o.ns)
                               /\ ~\E o \in c.objects : o.kind = "ClusterExternalSecret"
                               /\ \A p \in c.objects : p.kind = "ClusterPolicy" =>
                                    /\ \A ns \in {"a", "b", "z"} : Serves(store, ns) <=> \E r \in p.rules : ns \in r.exclude
                                    /\ p.failure = "Ignore" /\ \A r \in p.rules : \A ops \in r.matches : ops # {} /\ "DELETE" \notin ops
\* What is refused is not so.
SecretsRefused(c) ==
    LET stores == {o \in c.objects : o.kind = "ClusterSecretStore" /\ o.name = "openbao"}
    IN SecretCheck(c.objects) # {} =>
         \/ stores = {} \/ ~\E p \in c.objects : p.kind = "ClusterPolicy"
         \/ \E o \in c.objects : o.kind = "ClusterSecretStore" /\ o.name # "openbao"
         \/ \E store \in stores :
              \/ Serves(store, "z")
              \/ ~\E ns \in {"a", "b"} : Serves(store, ns)
              \/ \E o \in c.objects : \/ o.kind \in Namespaced /\ ~Serves(store, o.ns)
                                      \/ o.kind = "ClusterExternalSecret"
                                      \/ /\ o.kind = "ClusterPolicy"
                                         /\ \/ \E ns \in {"a", "b", "z"} : Serves(store, ns) # \E r \in o.rules : ns \in r.exclude
                                            \/ o.failure # "Ignore" \/ \E r \in o.rules : \E ops \in r.matches : ops = {} \/ "DELETE" \in ops

-----------------------------------------------------------------------------
Object(group, version, kind, ns, store) ==
    [group |-> group, version |-> version, kind |-> kind, ns |-> ns, name |-> "x", store |-> store]
Web(version) == Object("apps", version, "Deployment", "a", "")
Objects == {Web("v1"), Object("istio.io", "v1", "Policy", "a", ""), Object("external-secrets.io", "v1", "ExternalSecret", "a", "openbao")}
Brick(path, deps, build, objects) == [path |-> path, deps |-> deps, build |-> build, objects |-> objects]
\* A brick of ours beside the provider, with a brick between them, or without it.
BrickCases ==
    {[bricks |-> [app |-> Brick("./app", d, b, o), mid |-> Brick(p, e, "ok", q), istio |-> Brick("./istio", {}, "ok", {})]] :
       d \in SUBSET {"mid", "istio", "gone"}, e \in SUBSET {"istio"}, b \in {"ok", "failed", "silent"}, p \in {"", "./mid", "./app"},
       o, q \in {{}, {Web("v1")}, {Web("v1beta1")}, Objects, {Object("istio.io", "v1", "Policy", "b", "")}}}
Store(name, conditions) == [kind |-> "ClusterSecretStore", name |-> name, ns |-> "", conditions |-> conditions]
Policy(rules, failure) == [kind |-> "ClusterPolicy", name |-> "restrict", ns |-> "", rules |-> rules, failure |-> failure]
SecretCases ==
    {[objects |-> stores \cup policy \cup others] :
       stores \in {{}, {Store("openbao", {})}, {Store("openbao", {[namespaces |-> {"a"}, other |-> FALSE]}), Store("two", {})}}
                  \cup {{Store("openbao", {[namespaces |-> n, other |-> o]} \cup m)} : n \in SUBSET {"a", "b"}, o \in BOOLEAN,
                          m \in {{}, {[namespaces |-> {"b"}, other |-> FALSE]}}},
       policy \in {{}} \cup {{Policy({[exclude |-> x, matches |-> {ops}], [exclude |-> {}, matches |-> {}]}, f)} :
                             x \in SUBSET {"a", "b"}, ops \in {{}, {"CREATE", "UPDATE"}, {"CREATE", "DELETE"}}, f \in {"Ignore", "Fail"}},
       others \in {{}, {[kind |-> "ClusterExternalSecret", ns |-> "", name |-> "c"]}, {[kind |-> "ExternalSecret", ns |-> "a", name |-> "e"]},
                   {[kind |-> "SecretStore", ns |-> "b", name |-> "s"], [kind |-> "Service", ns |-> "z", name |-> "s"]}}}
=============================================================================
