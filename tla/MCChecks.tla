------------------------------ MODULE MCChecks ------------------------------
(***************************************************************************)
(* The judgements: each run of a checker takes one case out of a bounded   *)
(* set and says what the code says of it.                                  *)
(***************************************************************************)
EXTENDS Integers, Sequences

CONSTANTS DumpMaxAge, DumpDays,         \* of DumpLoad
          SinkNodes, SinkDays, PerDay,  \* of AuditSinkCheck
          Soon, StaleDays, VexMaxDays   \* of Expiry

\* Days, backup numbers and the limits on them are counts.
ASSUME ChecksAssumption == {DumpMaxAge, DumpDays, SinkDays, PerDay, Soon, StaleDays, VexMaxDays} \subseteq Nat

VARIABLES check, case

\* A row every five minutes, a database restored after two rows, one with two rows
\* two seconds apart, another database.
MCLines == {<<10, 20, 30, 40, 50>>, <<10, 20, 33, 43, 53>>, <<10, 20, 24, 34, 44>>, <<11, 21, 31, 41, 51>>}
Copy == INSTANCE CopyJudge WITH Budget <- [s \in {"primary", "replica"} |-> IF s = "primary" THEN 10 ELSE 20],
          MinAge <- 20, AfterBackup <- 3, Grace <- 15, Lines <- MCLines

Dump == INSTANCE DumpLoad WITH MaxAge <- DumpMaxAge, MaxDays <- DumpDays
Content == INSTANCE BackupContent WITH MaxPages <- 4, MaxVolumes <- 2
Verify == INSTANCE Collect
Sink == INSTANCE AuditSinkCheck WITH Nodes <- SinkNodes, Days <- 1..SinkDays, PerDay <- PerDay
Zitadel == INSTANCE ZitadelPolicies
Ha == INSTANCE HaCheck WITH CpuBudget <- 3300, CnpgBudget <- 600, ForgeBudget <- 900,
          ProfileBudget <- [light |-> 100, standard |-> 600, ha |-> 1100]
Routes == INSTANCE GatewayRoutes
Children == INSTANCE ChildClusters WITH Served <- [HelmRepository |-> {"v1"}, Kustomization |-> {"v1"}],
          Bricks <- [workload |-> {"storage"}, db |-> {"storage", "cnpg"}, full |-> {"storage", "cnpg", "storage-backup-target"}]
Dates == INSTANCE Expiry WITH Soon <- Soon, StaleDays <- StaleDays, MaxDays <- VexMaxDays
Renders == INSTANCE BrickRenders
Series == INSTANCE Metrics
Images == INSTANCE Inventory WITH Names <- {"web", "img", "bats"}, Tags <- {"1", "latest"}, Digests <- {"d"}

Fake == INSTANCE FakeStore
Picker == INSTANCE PickCommand
Hosts == INSTANCE Egress WITH MustMatch <- {<<"s3", ".", "par", ".", "scw">>, <<"s3", ".", "gra", ".", "scw">>},
           MustNotMatch <- {<<"scw">>, <<"evil">>, <<"s3", ".", "aws", ".", "com">>, <<"s3", ".", "par", ".", "scw", ".", "evil">>, <<"x", ".", "scw">>,
                            <<"x", ".", "s3", ".", "par", ".", "scw">>}

Bounds == INSTANCE Hardening
Forge == INSTANCE ForgeBrick

Init == check = "none" /\ case = <<>>
Next == /\ check = "none"
        /\ \/ check' = "wiring" /\ case' \in Forge!WiringCases
           \/ check' = "token" /\ case' \in Forge!TokenCases
           \/ check' = "optin" /\ case' \in Forge!OptinCases
           \/ check' = "copy" /\ case' \in Copy!Cases
           \/ check' = "snapshot" /\ case' \in Copy!SnapshotCases
           \/ check' = "manifest" /\ case' \in Copy!ManifestCases
           \/ check' = "ha" /\ case' \in Ha!HaCases
           \/ check' = "profile" /\ case' \in Ha!ProfileCases
           \/ check' = "ci" /\ case' \in Ha!MainCases
           \/ check' = "render" /\ case' \in Ha!RenderCases
           \/ check' = "register" /\ case' \in Routes!RegisterCases
           \/ check' = "policies" /\ case' \in Routes!PolicyCases
           \/ check' = "scrapes" /\ case' \in Routes!ScrapeCases
           \/ check' = "children" /\ case' \in Children!ChildCases
           \/ check' = "eol" /\ case' \in Dates!EolCases
           \/ check' = "vex" /\ case' \in Dates!VexCases
           \/ check' = "bricks" /\ case' \in Renders!BrickCases
           \/ check' = "secrets" /\ case' \in Renders!SecretCases
           \/ check' = "listing" /\ case' \in Fake!ListCases
           \/ check' = "session" /\ case' \in Fake!SessionCases
           \/ check' = "pick" /\ case' \in Picker!PickCases
           \/ check' = "egress" /\ case' \in Hosts!EgressCases
           \/ check' = "contexts" /\ case' \in Bounds!ContextCases
           \/ check' = "roots" /\ case' \in Bounds!RootCases
           \/ check' = "bounds" /\ case' \in Bounds!BoundCases
           \/ check' = "inventory" /\ case' \in Images!InventoryCases
           \/ check' = "reference" /\ case' \in Images!Parts
           \/ check' = "merge" /\ case' \in Series!MergeCases
           \/ check' = "rules" /\ case' \in Series!RuleCases
           \/ check' = "expr" /\ case' \in Series!Exprs
           \/ check' = "bench" /\ case' \in Series!BenchCases
           \/ check' = "dump" /\ case' \in Dump!Cases
           \/ check' = "zitadel" /\ case' \in Zitadel!Cases
           \/ check' = "sink" /\ case' \in Sink!Cases
           \/ check' = "verify" /\ case' \in Verify!Cases
           \/ check' = "etcd" /\ case' \in Content!Files
           \/ check' = "openbao" /\ case' \in Content!Snapshots
           \/ check' = "longhorn" /\ case' \in Content!Worlds
Spec == Init /\ [][Next]_<<check, case>>

-----------------------------------------------------------------------------
\* What a checker accepts is right: a restored copy that passes is the live database's
\* data to the chosen time, a file, a snapshot or a volume taken for whole can be
\* restored, a render that passes the audits survives the loss of a node or a zone and
\* drains, the routes show no metrics, children, bricks and the forge come up from what
\* was read, what is written deploys, no report leaves something out, and the store the
\* tests accept as S3 lists every key and reads the last write.
AcceptedIsRight ==
    /\ check = "copy" => Copy!PassIsGenuine(case)
    /\ check = "snapshot" => Copy!CutIsNeverForged(case)
    /\ check = "manifest" => Copy!CopiesTheLiveArchive(case)
    /\ check = "etcd" => Content!EtcdPassRestores(case)
    /\ check = "openbao" => Content!OpenbaoPassIsIntact(case)
    /\ check = "longhorn" => Content!LonghornPassIsWhole(case)
    /\ check = "ha" => Ha!AuditAccepts(case) /\ Ha!ListsShrink(case)
    /\ check = "profile" => Ha!ProfileJudged(case)
    /\ check = "ci" => Ha!CiSeesBoth(case)
    /\ check = "render" => Ha!RenderedWhole(case)
    /\ check = "register" => Routes!RegisterAgrees(case)
    /\ check = "policies" => Routes!MetricsStayInside(case) /\ Routes!MetricsReportHolds(case)
    /\ check = "scrapes" => Routes!ScrapesJudged(case)
    /\ check = "children" => Children!ChildrenCome(case)
    /\ check = "bricks" => Renders!OneOwner(case) /\ Renders!ProvidersFirst(case)
    /\ check = "secrets" => Renders!SecretsServed(case)
    /\ check = "pick" => Picker!WrittenDeploys(case) /\ Picker!CheckedIsCurrent(case)
    /\ check = "egress" => Hosts!AcceptedReaches(case)
    /\ check = "contexts" => Bounds!ContextsHold(case)
    /\ check = "roots" => Bounds!RootsHaveRoom(case)
    /\ check = "bounds" => Bounds!BoundsHold(case)
    /\ check = "inventory" => Images!InventoryWhole(case) /\ Images!ValuesKept(case) /\ Images!PinsHold(case)
    /\ check = "reference" => Images!SplitsBack(case)
    /\ check = "merge" => Series!ExpositionWhole(case)
    /\ check = "rules" => Series!NoBlindRule(case)
    /\ check = "expr" => Series!MetricsAreThose(case)
    /\ check = "bench" => Series!RowIsTheRun(case)
    /\ check = "wiring" => Forge!AcceptedComesUp(case)
    /\ check = "token" => Forge!TokenKept(case)
    /\ check = "optin" => Forge!AcceptedKeeps(case)
    /\ check = "listing" => Fake!ListingIsWhole(case)
    /\ check = "session" => Fake!ReadsTheLastWrite(case)

\* What a checker refuses is wrong: no genuine copy, whole file, sound render, child,
\* Secret, picker run, egress rule or forge brick is turned down, so that an alarm or a
\* red check is never the checker's own.
RefusedIsWrong ==
    /\ check = "copy" => Copy!NoFalseFailure(case)
    /\ check = "etcd" => Content!EtcdWholePasses(case)
    /\ check = "openbao" => Content!OpenbaoIntactPasses(case)
    /\ check = "ha" => Ha!AuditRefuses(case)
    /\ check = "children" => Children!ChildrenRefusedRightly(case)
    /\ check = "secrets" => Renders!SecretsRefused(case)
    /\ check = "pick" => Picker!FailsForAReason(case)
    /\ check = "egress" => Hosts!RightIsAccepted(case)
    /\ check = "wiring" => Forge!RefusedFallsShort(case)
    /\ check = "optin" => Forge!KeepsIsAccepted(case)

\* What a program says over a history of runs, cycles, calls or days stays true to it: a
\* lost dump is loud, a result that could not be read again is carried with its own time,
\* an age keeps growing while nothing arrives, applied policies converge and stay, and a
\* waiver ends.
HistoriesKeepFaith ==
    /\ check = "dump" => Dump!LossIsLoud(case) /\ Dump!YoungIsQuiet(case) /\ Dump!PassIsLoaded(case)
    /\ check = "verify" => Verify!LastIsKept(case) /\ Verify!LastWasWhole(case)
    /\ check = "sink" => Sink!OkIsTrue(case) /\ Sink!AgeKeepsGrowing(case)
    /\ check = "zitadel" => Zitadel!TouchesOnlyOurs(case) /\ Zitadel!Converges(case)
    /\ check = "eol" => Dates!CalendarKeepsFaith(case)
    /\ check = "vex" => Dates!NothingForEver(case)

=============================================================================
