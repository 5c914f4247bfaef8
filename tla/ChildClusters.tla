--------------------------- MODULE ChildClusters ---------------------------
(***************************************************************************)
(* The files of the child clusters (scripts/check-child-clusters.py): what *)
(* the management cluster reconciles from apps/clusters, and the examples  *)
(* a team copies from.                                                     *)
(*                                                                         *)
(* A value is a placeholder, a real one, or empty.                         *)
(***************************************************************************)
EXTENDS Integers, Sequences, FiniteSets, SequencesExt

CONSTANTS Served,       \* served_versions: the versions of each Flux kind in the vendored CRDs
          Bricks        \* profile_bricks: what the '# Pick:' line of a profile comes to, closed over dependsOn

Id(d) == <<d.kind, d.ns, d.name>>
Shared(f) == f.prefix = "helmrepository"
Enabled(files) == SelectSeq(files, LAMBDA f : ~f.example)
\* The objects of the shared files; a helmrepository-*.yaml.example is not one of them.
SharedIds(files) == UNION {{Id(d) : d \in ToSet(f.docs)} : f \in {g \in ToSet(Enabled(files)) : Shared(g)}}

\* 1. Every Flux object uses a version that the vendored CRDs serve.
VersionErrors(f) ==
    {<<f.name, "version", Id(d)>> : d \in {x \in ToSet(f.docs) : x.flux /\ (x.kind \notin DOMAIN Served \/ x.version \notin Served[x.kind])}}
\* 2. No (kind, namespace, name) twice in the file, or in a shared one.
DuplicateErrors(f, shared) ==
    {<<f.name, "duplicate", Id(f.docs[i])>> : i \in {k \in DOMAIN f.docs : \/ Id(f.docs[k]) \in shared
                                                                          \/ \E j \in 1..(k - 1) : Id(f.docs[j]) = Id(f.docs[k])}}
\* 3. No ${...} that nothing substitutes.
NameErrors(f) == {<<f.name, "unsubstituted", Id(d)>> : d \in {x \in ToSet(f.docs) : "dollar" \in {x.nameIs, x.kubeConfig}}}

\* 4. The variables the profile of a child needs, and values that are placeholders.
Profile(d) == IF d.sub.CHILD_PROFILE = "" THEN "workload" ELSE d.sub.CHILD_PROFILE
\* Mutant: the storage target is not asked for.
NeedsNoTarget(picked) ==
    {"CHILD_NAME"} \cup (IF "cnpg" \in picked THEN {"CHILD_BACKUP_S3_BUCKET", "CHILD_BACKUP_S3_ENDPOINT"} ELSE {})
Needs(picked) ==
    {"CHILD_NAME"}
    \cup (IF "cnpg" \in picked THEN {"CHILD_BACKUP_S3_BUCKET", "CHILD_BACKUP_S3_ENDPOINT"} ELSE {})
    \cup (IF "storage-backup-target" \in picked THEN {"CHILD_BACKUP_TARGET_URL"} ELSE {})
Picked(profile) == IF profile \in DOMAIN Bricks THEN Bricks[profile] ELSE {}
VariableErrors(f) ==
    UNION {{<<f.name, "no profile", Profile(d)>> : x \in {Profile(d)} \ DOMAIN Bricks}
           \cup {<<f.name, "lacks", v>> : v \in {n \in Needs(Picked(Profile(d))) : d.sub[n] = ""}}
           \cup {<<f.name, "not a placeholder", v>> : v \in {n \in {"CHILD_BACKUP_S3_BUCKET", "CHILD_BACKUP_TARGET_URL"} : d.sub[n] = "real"}} :
             d \in {x \in ToSet(f.docs) : x.kind = "Kustomization" /\ x.childGitops}}
\* 5. Nothing that names a real site: an address is looked at when it is one.
LiteralErrors(f) == {<<f.name, "literal", l>> : l \in f.literals \cap {"public address", "uuid"}}

CheckFile(f, shared) == VersionErrors(f) \cup DuplicateErrors(f, shared) \cup NameErrors(f) \cup VariableErrors(f) \cup LiteralErrors(f)
\* The enabled children together: whoever defined an object first owns it; a Namespace may
\* be in two files.
OwnerErrors(files) ==
    LET enabled == Enabled(files)
        owner(id) == CHOOSE i \in DOMAIN enabled : /\ id \in {Id(d) : d \in ToSet(enabled[i].docs)}
                                                  /\ \A j \in 1..(i - 1) : id \notin {Id(d) : d \in ToSet(enabled[j].docs)}
    IN UNION {{<<enabled[i].name, "also in", Id(d)>> : d \in {x \in ToSet(enabled[i].docs) : owner(Id(x)) # i /\ x.kind # "Namespace"}} :
                i \in DOMAIN enabled}
\* 6. cilium_values: the examples keep those of the reference child.
CiliumErrors(files) ==
    UNION {{<<e.name, "cilium", "">> : e \in {x \in ToSet(files) : x.example /\ x.cilium # ref.cilium}} :
             ref \in {f \in ToSet(files) : f.name = "edge-1" /\ ~f.example}}
Errors(files) ==
    UNION {CheckFile(f, SharedIds(files)) : f \in {g \in ToSet(files) : ~Shared(g)}} \cup OwnerErrors(files) \cup CiliumErrors(files)

-----------------------------------------------------------------------------
(* What passing stands for *)

\* Flux applies the objects of the files one after the other: a later one with the same
\* identity takes the place of the first.
Applied(docs) ==
    LET after[k \in 0..Len(docs)] ==
          IF k = 0 THEN [held |-> {}, lost |-> {}]
          ELSE LET d == docs[k] IN [held |-> after[k-1].held \cup {Id(d)},
                                    lost |-> after[k-1].lost \cup {i \in after[k-1].held : i = Id(d) /\ d.kind # "Namespace"}]
    IN after[Len(docs)]
AllDocs(files) == FlattenSeq([i \in DOMAIN files |-> files[i].docs])
\* A directory that passes: no object takes another's place, today or with one of the
\* examples beside the shared files, every Flux object is one the CRDs know, a child has
\* what its profile reads, and the examples run the network of the proven child.  An object
\* twice in ONE shared file is not looked for.
ChildrenCome(c) ==
    LET enabled == Enabled(c.files)
        shared == SelectSeq(enabled, Shared)
    IN Errors(c.files) = {} =>
         /\ (\A i \in DOMAIN shared : Applied(shared[i].docs).lost = {}) =>
              /\ Applied(AllDocs(enabled)).lost = {}
              /\ \A f \in ToSet(c.files) : f.example /\ ~Shared(f) => Applied(AllDocs(shared) \o f.docs).lost = {}
         /\ \A f \in ToSet(c.files) : ~Shared(f) => \A d \in ToSet(f.docs) :
              /\ d.flux => d.kind \in DOMAIN Served /\ d.version \in Served[d.kind]
              /\ d.kind = "Kustomization" /\ d.childGitops =>
                   \A brick \in Bricks[Profile(d)] : brick = "storage-backup-target" => d.sub.CHILD_BACKUP_TARGET_URL = "placeholder"
              /\ d.kind = "Kustomization" /\ d.childGitops => d.sub.CHILD_NAME # "" /\ d.sub.CHILD_BACKUP_S3_BUCKET # "real"
         /\ \A f, g \in ToSet(c.files) : f.example /\ g.name = "edge-1" /\ ~g.example => f.cilium = g.cilium
\* What it reports is there.
ChildrenRefusedRightly(c) ==
    \A e \in Errors(c.files) : \E f \in ToSet(c.files) : f.name = e[1] /\
      \/ e[2] \in {"duplicate", "also in"} /\ \E g \in ToSet(c.files) : Applied(g.docs \o f.docs).lost # {}
                                                                      \/ \E d \in ToSet(f.docs) : d.kind = "Namespace" /\ Id(d) = e[3]
      \/ e[2] = "cilium" /\ f.example
      \/ e[2] = "literal" /\ f.literals # {}
      \/ \E d \in ToSet(f.docs) : \/ e[2] = "version" /\ d.flux /\ ~(d.kind \in DOMAIN Served /\ d.version \in Served[d.kind])
                                  \/ e[2] = "unsubstituted" /\ (d.nameIs = "dollar" \/ d.kubeConfig = "dollar")
                                  \/ e[2] \in {"no profile", "lacks", "not a placeholder"} /\ d.childGitops

-----------------------------------------------------------------------------
Sub(profile, bucket, url) == [CHILD_NAME |-> "real", CHILD_PROFILE |-> profile, CHILD_BACKUP_S3_BUCKET |-> bucket,
                              CHILD_BACKUP_S3_ENDPOINT |-> "real", CHILD_BACKUP_TARGET_URL |-> url]
Doc(kind, name, version, sub) ==
    [kind |-> kind, ns |-> "flux", name |-> name, nameIs |-> "plain", kubeConfig |-> "plain", flux |-> kind # "Namespace", version |-> version,
     childGitops |-> kind = "Kustomization", sub |-> sub]
Plain(kind, name) == Doc(kind, name, "v1", Sub("", "", ""))
File(name, prefix, example, docs, cilium) ==
    [name |-> name, prefix |-> prefix, example |-> example, docs |-> docs, literals |-> {}, cilium |-> cilium]
Docs == {Plain("Namespace", "a"), Plain("HelmRepository", "a"), Plain("HelmRepository", "b"), Doc("HelmRepository", "c", "v1beta1", Sub("", "", "")),
         Plain("Unknown", "a"), [Plain("Kustomization", "a") EXCEPT !.kubeConfig = "dollar"]}
        \cup {Doc("Kustomization", "a", "v1", Sub(p, b, u)) : p \in {"", "db", "full", "gone"}, b, u \in {"", "placeholder", "real"}}
Edge == File("edge-1", "child", FALSE, <<Plain("Namespace", "a"), Doc("Kustomization", "e", "v1", Sub("", "", ""))>>, 1)
ChildCases ==
    {[files |-> <<Edge, File("edge-2", "child", example, <<d, e>>, cilium), File("repos", "helmrepository", FALSE, shared, 0)>>] :
       example \in BOOLEAN, d \in Docs, e \in {Plain("Namespace", "a"), Plain("HelmRepository", "a"), Doc("Kustomization", "e", "v1", Sub("", "", ""))},
       cilium \in {1, 2}, shared \in {<<>>, <<Plain("HelmRepository", "a")>>, <<Plain("HelmRepository", "b"), Plain("HelmRepository", "b")>>}}
    \cup {[files |-> <<Edge, [File("edge-2", "child", TRUE, <<Plain("Namespace", "b")>>, 1) EXCEPT !.literals = l]>>] :
            l \in SUBSET {"public address", "private address", "uuid"}}
=============================================================================
