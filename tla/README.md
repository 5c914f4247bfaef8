# Formal models of OpenAether-apps

OpenAether-apps is a set of Flux "bricks" (Kubernetes manifests) and the programs
they run. The manifests are declarative; the behaviour that this repository
itself writes is in the shell and Python programs the bricks ship, and in the tools
that assemble the bricks. This directory holds TLA+ models of those programs,
configurations that model-check them with TLC, and theorems about them that TLAPS
checks.

    tlc -workers 2 -config OpenBao.cfg OpenBaoBootstrap.tla     # one run
    tlapm OpenBaoProofs.tla                                     # one module of proofs

`PROJECT.json` lists, for each component, its modules; for each definition, the source
lines it stands for (`map`); the runs; for each property, one plausible bug
that breaks it (`mutants`); the hazards of the code and the findings.

## 1. The system

| component | state it keeps | operations | talks to |
|---|---|---|---|
| **audit-log shipper** `apps/base/observability-audit-sink/scripts/ship.sh` | a cursor in memory (inode, offset, end seen); one restic repository per UTC day in the sink, whose tags hold the acknowledged cursor | a cycle: recover the cursor, list the files, declare a gap, ship each file in chunks | the API server through the file system; the object store through restic |
| **audit-sink checker** `.../scripts/check.py` | the newest object known of each node, in memory | list nodes, days and snapshots; serve metrics | the repositories the shipper writes |
| **brick picker** `scripts/pick.py` | the graph of the Kustomizations, the catalogue `bricks.yaml`; generated profiles | pick, validate the graph, emit and check a profile | CI; Flux, which reconciles the profile |
| **OpenBao bootstrap** `apps/base/foundation/vault/scripts/{init,configure,lib}.sh` | the cluster's data; a Secret (seal key), a Secret (recovery shares), a ConfigMap (marker); `root.hdr` in the memory volume of the init pod | Job `openbao-init`: seal key, `sys/init`, hand-over, revocation. Job `openbao-vault-bootstrap`: engines, PKI, policies, roles, application secrets | each other, only through OpenBao; the API server; the operator |
| OpenBao escrow check `.../vault/scripts/escrow-check.sh` | none | one read and a comparison | the seal key Secret |
| **database restore test** `apps/base/backup/databases/restore/restore_cnpg.py` | a disposable cluster; a result ConfigMap with the time of the last success | sweep, restore, compare, clean up, publish | CNPG, the API server |
| **dump load test** `.../restore/dump_load.py`, canaries, metrics | canary rows; result ConfigMaps | load a dump, compare; serve metrics | PostgreSQL, restic |
| **backup verification** `.../databases/verify/{barman_check,collect}.py` | a result ConfigMap, merged with the previous one | judge each archive and file, publish | the stores |
| **CNPG store replication** `.../cnpg-store-replicate-cronjob.yaml` | the copy of a store | copy with `backup.info` last, prune | two stores |
| database dumps, etcd and OpenBao snapshots | snapshots in restic | linear pipelines | the stores |
| **canary volume** `apps/base/storage-restore-test/scripts/canary_volume.py` | generations of files, a MANIFEST | add a generation, remove the oldest, verify | Longhorn, which snapshots it at any time |
| **Longhorn restore test** `.../scripts/restore_longhorn.py` | a disposable volume and pod, a result | restore, verify, clean up, publish | Longhorn, the canary volume |
| **forge brick** `apps/base/forgejo`, `scripts/dev/test-forgejo-brick.py` | the repositories on a volume, their lock files | two cleaners of stale git locks; the test that pins the brick's shape | git, Kubernetes, Flux, External Secrets |
| **static checks** `scripts/check-*.py`, `ha_render.py` | none; calendars and waivers live in the repository | one pass each over the rendered bricks | what Kubernetes, Flux and the Gateway make of the manifests |
| **Zitadel policies** `scripts/zitadel-apply-policies.py` | the policies of the server | compare, apply | the Admin API |
| **inventory** `scripts/dev/gen-sbom.py`, `check-image-pins.py` | none | list images and charts | Helm charts |
| **test tooling** `scripts/dev/...` | the fake S3 store's objects | serve, match, judge | the scripts under test |
| policies, clusters, docs, other tests | declarative | | |

What makes the behaviour hard:

* **Concurrency without locks.** The shipper reads a directory that the API server
  renames and deletes under it; the two OpenBao Jobs work on one cluster at
  the same time; a snapshot of a volume may fall between any two writes to it.
* **Answers that do not come.** Every program calls another service through a
  command that a timeout may kill: the call may have been done. Retries then meet
  their own effects.
* **Restarts.** Nearly nothing is kept on disk: a restarted pod must work out where it
  was from what it had written elsewhere.
* **Reads that fail.** In a shell script a failed read easily looks like "not there".
* **Time of check, time of use.** A profile is generated from a graph that changes
  afterwards; a list of files is old when it is used.

What makes each component correct:

* shipper: nothing is skipped in silence, nothing is declared lost that is not, the end of
  a file is marked only when it is the end, a restart repeats no acknowledged range, and every
  complete line is accounted for in the end;
* picker: a selection is dependency-closed and as small as it can be; `--validate` accepts
  exactly the graphs Flux can reconcile; a profile `--check` lets through is deployable;
* OpenBao: the root token does not outlive the hand-over, the marker means handed over, the data
  is never given another seal key, no secret rotates by a retry, break-glass exists before
  anything it would have to rescue, and the bootstrap ends;
* restore tests and verification: a published success is a verdict on the right, whole and fresh
  copy, a failure never erases the last success unless the read of it failed, no disposable object is
  left behind a pass, and nobody's live one is swept;
* canary volume and replication: whatever moment is copied can be verified, and a base
  backup is announced on the copy only once it is whole;
* lock cleaners: no lock of a running push is removed, every stale one goes;
* static checks: what passes survives the loss of a node or a zone, drains, deploys in order and shows
  no metrics outside; what is refused is wrong indeed;
* what remembers (dump test, verifier, sink checker, calendars, fake store) stays true to its history.

## 2. The modules

| module | what it models |
|---|---|
| `AuditLog` | the audit directory as the API server writes it: append, rotate, delete, truncate (external) |
| `AuditShipper` | `ship.sh`, one action per call, EXTENDS `AuditLog` |
| `AuditDelivery` | the abstract promise of the shipper; `AuditShipper!Delivers` is the refinement |
| `AuditShipperProofs` | type correctness, what a position means, what the sink promises its reader, and the refinement |
| `Dag` | what a set of bricks has to be: reference definitions, with no algorithm |
| `Pick` | `pick()` and `closure()` |
| `DagCheck` | `validate_dag`, the depth-first search |
| `Profiles` | generated profiles among edits of the graph, `emit_profile` and `cmd_check` |
| `MCPicker` | the three algorithms side by side, one at work in each behaviour |
| `PickProofs`, `PickerProofs` | theorems of the first, and of the three and their composition |
| `PickCommand` | one run of `pick.py`: arguments, catalogue errors, what is written, checked and answered |
| `OpenBao` | the cluster and the Kubernetes objects beside it, and what a call to them may answer |
| `OpenBaoInit`, `OpenBaoConfigure` | the two Jobs, each EXTENDS `OpenBao` |
| `OpenBaoBootstrap` | both Jobs at once, with kills, stops and the operator; the properties |
| `OpenBaoProofs` | their theorems |
| `RestoreTest` | the two restore-test CronJobs of `restore_cnpg.py`: sweep, apply, wait, clean up, publish, with SIGTERM, kills and calls that fail |
| `CopyJudge` | what they conclude: `parse_snapshot`, `first_backup`, `pick_pitr_target`, `chain_errors`, `compare`, `ahead`, `archive_server`, `recovery_manifest` |
| `DumpLoad` | `dump_load.py`, `check_dump`, `dump_gone`, over days |
| `CanaryVolume`, `LonghornRestore` | the hourly writer step by step, backups of it at any moment, `verify`, and the weekly restore test; the second EXTENDS the first |
| `BarmanCheck`, `StoreReplicate` | the verifier of an archive; the archive, its copy and prune, and what both stages of the verification say of it (EXTENDS `BarmanCheck`, `Collect`) |
| `Collect`, `BackupContent` | `collect.py`: merging and remembering; the content of etcd, OpenBao and Longhorn backups |
| `MCBackups` | the three backup parts side by side |
| `BackupProofs` | the theorems of that composition |
| `AuditSinkCheck` | `check.py`: cycles over lists that may fail, what is shown |
| `GitLocks` | the forge's two lock cleaners under pushes, kills and restarts, with any configuration the brick test accepts, and the theorem about them |
| `ForgeBrick` | what the brick test asks of the wiring, the metrics token and the opt-in, against what becomes of the brick |
| `HaCheck` | `check-ha.py` and `ha_render.py` against scheduling, the loss of a node or a zone, and drains |
| `GatewayRoutes` | `check-gateway-routes.py` against what Istio answers |
| `ChildClusters`, `BrickRenders`, `Expiry`, `Inventory` | the other checks of the repository |
| `ZitadelPolicies`, `PickCommand`, `FakeStore`, `Egress`, `Hardening`, `Metrics` | the remaining tools and the tests that judge by rules of their own |
| `MCChecks` | all the judgements: a behaviour takes one case of one of them |
| `CheckProofs` | theorems about those over histories, of any length |
| `JudgeProofs` | theorems about those that judge one thing, whatever it is; EXTENDS `CheckProofs` |

### Audit shipper

The program is a loop, and `pc` is the next call it makes: `load` (`load_state`),
`glob` and `stats` (the list of files, made in two steps by the script, so in two steps
here), `goneGap` (`gap file-gone`), `next` (the `for` over the list), and `stat`, `read`,
`put`, `truncGap` of `ship_file`. `cursor` is `CUR_INO`, `CUR_OFF` and `CLOSED_AT_EOF`;
`newest[d]` is the newest `oa-pos` tag of the repository of day `d`; `lim` and `closed`
are the script's. A restic call has three outcomes, and so has three actions:
`PutAcked`, `PutLostAck` (stored, but killed by its timeout before it answered) and
`PutFails`. Every failure ends the cycle (`EndCycle`), as every `|| return 1` does.

A file is an *incarnation*, numbered by creation; the script sees only inodes. A truncation
in place ends one incarnation and starts the next under the same inode, so "the bytes the
cursor was in" stays well defined. Content is abstracted to a length and the positions of
newlines, which is all the cutting of chunks (`ChunkEnds`) looks at.

### Brick picker

`Pick` takes the worklist of `closure` in any order (the code pops from a list), then the
baseline with a second closure, then the passes over the companions in any order.
`DagCheck` keeps the explicit stack of the recursion, with the dependencies not looked
at yet in each frame. `Profiles` takes the result of `pick` from its specification (shown
by `Pick`) and models what happens to the file afterwards: a profile is the base *less* what
it excludes, so a brick added later is in every older profile until it is regenerated.

### OpenBao bootstrap

`OpenBao` states what a write may answer: `WriteOk`, `WriteLost` (done, not answered),
`WriteFails` (not done: server down, sealed, or a lost request). A *trouble* (`Happens`) is
one of: a call with no answer, all pods stopped, the seal key Secret deleted, a container
killed. `OpenBaoInit` has an action per call of `init.sh`; `exit` is the `EXIT` trap,
which a kill skips. The container restarts in place and keeps its memory volume
(`rootFile`), unless the pod is lost with it. `OpenBaoConfigure` is `configure.sh`, with
create-only writes of secrets (`Create`, `cas=0`) tried again under another random value.
`StartOver` is the re-init of the component's README, in which the operator may forget the
Secret with the old shares.

### Backups

`RestoreTest` has an action per wait of `run_one` and per call that changes the scratch namespace;
`scratch` holds at most one Cluster per name with the run that made it, `published` the result
ConfigMap of each CronJob. A call without an answer and a SIGTERM spend a budget (`Spends`). Nothing in the model says which
CronJob runs when: they overlap as their schedules allow them to. The verdict is a choice there;
`CopyJudge` gives the code that makes it, on databases restored to any row of any line, damaged or
not, so that `Sound` and `Genuine` are stated on the database itself and not on what was read of it.

`CanaryVolume` has one action per system call of the writer (`makedirs`, write, `os.replace`,
remove, MANIFEST) and a backup may be taken between any two. `LonghornRestore` restores the newest of these.
`StoreReplicate` has one action per object copied or pruned, in the order of `NextOf`; the server
archives segments and takes and expires base backups meanwhile. The verification is no step of it: `Published` is, at every
state of those, what the verifier would publish.

### Lock cleaners

`GitLocks` lets TLC choose the configuration of both cleaners among those with no `Problems` in the sense of the
test, so its properties say that what the test pins is enough. A sweeper looks at a lock's age and removes
the file in two steps (`Look`, `Remove`).

### Judgements

The checkers, the picker's command, the tools and the fake store are functions of what they are given:
each module has the function as the code computes it, a *reference* that says what the judged thing
does when it runs (which pods a scheduler may place, what survives a loss, what PostgreSQL
replays, what a Gateway answers, what S3 would answer), and a set of cases. The reference never uses an
operator of the checker. In `MCChecks` a behaviour takes one case; `AcceptedIsRight`, `RefusedIsWrong` and
`HistoriesKeepFaith` are the conjunctions of the properties the modules state, soundness,
no false alarm, and those over histories; `mutants` has one bug or more for nearly every conjunct.

## 3. The runs

| run | what it asks | answer |
|---|---|---|
| `shipper_rotation` | files come and go while acknowledgements are lost and the pod restarts: `NoSilentSkip`, `NoFalseGap`, and the refinement `Delivers` | holds |
| `shipper_recovery` | restarts over three days and truncations: `NeverGoesBack`, `RepeatsNeedALostAck`, `EofIsFinal` | holds |
| `shipper_live` | all kinds of failure; `CursorIsAcked`, `WholeLines`, `CycleIsBounded`, and under fairness `EventuallyAccounted` | holds |
| `shipper_raced_listing` | a rename between the glob and the stats: `NoSilentSkip` | **violated** |
| `picker` | every graph, request and catalogue: closed, least, finite; `validate_dag` accepts exactly the healthy graphs; every history of edits: a checked profile is deployable, a fresh one passes | holds |
| `openbao` | both Jobs, any two troubles, one re-init: seven properties, `Settles` under fairness | holds |
| `openbao_seal_key` | "a fresh random key would not open the data" | **violated** |
| `openbao_root_token` | "on any exit the root token is revoked" | **violated** |
| `backups` | the restore tests, the canary volume and the archive with its copy, under faults: nine properties | holds |
| `store_replicate` | "a base backup never looks complete on the replica before its data and its end segment are there" | **violated** |
| `git_locks` | every accepted configuration of the cleaners, under pushes, kills and restarts: `LiveLockKept`, and `StaleLockGoes` under fairness | holds |
| `checks` | 448 338 cases of 38 judgements: `AcceptedIsRight`, `RefusedIsWrong`, `HistoriesKeepFaith` | holds |

### Bounds, and why they are enough

*Shipper.* Three files are the least for one to be shipped, one to be lost and one to follow
(a gap that spans a whole file never seen); two bytes per file and two per chunk give a
chunk of several lines, a chunk cut at its limit without a newline, an exact fit and an
unterminated last line. Two days of recovery out of three exercise the edge of the
window. `shipper_rotation` keeps to one day, `shipper_recovery` to two files, so that
each finishes; `shipper_live` has one of each failure. `RotateWhileListing` tells the run with
the raced listing from the others: with it FALSE, a rename may fall between any two calls
but those two. `MaxOutage < RecoverDays` is the assumption that the newest acknowledged range
is in the window that is looked into; `ReuseInodes = FALSE` that an inode is not used again
while the cursor names it. Both are hazards in `PROJECT.json`, with what happens without
them. The three shipper configurations turn off TLC's deadlock check because their
days, bytes, files and failures are bounded; the loop itself never stops, and `shipper_live`
checks that it goes on.

*Picker.* Three bricks are enough for a diamond, a cycle of each length up to three, a companion that
depends on another, a chain and a name that does not exist. All graphs, requests,
baselines and companions over them are enumerated; renamings are a symmetry.
`pick()` and `validate_dag` end: a finished state has no successor, hence no deadlock
check. The three algorithms share no state; each behaviour has one of them at work.
`Options` is the pair of defaults: see the divergences for the other options.

*Backups.* Two targets for the daily CronJob and one for the weekly one are the least for a sweep of
one to meet a Cluster of the other; one tick of each wait and two faults cover a call that fails and
a signal in the same run, and, in the Longhorn test, a Volume or pod that one run leaves (`podStays`, `volumeStays`, a kill) and the next
fails to remove: with one fault nothing is ever in its way, and the mutant `RunVerifyAnyPod` would pass. Three hours with `Keep = 2` make the writer remove a generation; two
base backups and two segments give a copy that lags, a prune and a second backup under way.
Deadlock is checked there: none of the three stops.

*Lock cleaners.* Ages run to 6 with a git timeout of 2, a safe age of 3 and, in the test's tree, a fresh and an old lock, so that an age
limit below the timeout, between it and the fresh lock, and above the old one are all possible; two faults are a
kill and a restart after it. Deadlock is checked.

*Checks.* Each set of cases takes the shipped thing with one or two of its parts varied over what the code tells
apart: values just below, at and above each limit, absent fields, one or two objects of each kind, two or three
days, cycles or pages. Deadlock checking is off since a behaviour ends with its case.

*OpenBao.* One application secret is enough to compare with the hand-over (the writes of several are
independent, and the proofs hold for any list); two values tell a rotation; two seal keys
and two intermediate keys tell the wrong one from the right one. Each of the four troubles may
happen once and any two of them in one behaviour; with three, the run takes about four
minutes and gives the same answer. One re-init shows the leftovers of one in the next.
Deadlock checking is off since budgets may run out with the pods down.

### Fairness

* `AuditShipper!FairSpec`: weak fairness of the shipper's steps, because the script is a
  `while true` whose calls end (each restic runs under `timeout`) and the pod is
  restarted by its DaemonSet; and of opening the live file, because the API server does
  so at once after renaming it. None of appending, rotating, deleting. The failures are
  bounded, so the claim is what happens once they cease.
* `OpenBaoBootstrap!FairSpec`: weak fairness of each Job (restartPolicy `OnFailure`, and
  Flux creates again a Job that was removed after its TTL) and of the pods starting once
  the Secret they mount exists. None of any operator: `Settles` allows the states in which
  the component's README sends for one.
* `GitLocks!Spec`: weak fairness of a cleaner's steps and of the start of its container (restartPolicy
  `Always`) and of the pod (a Deployment), that time passes, and that a git process over its timeout is
  killed (Forgejo runs each under one). None of pushes, kills or losses.
* `picker`, `backups` and `checks` state no liveness. That `pick()` ends is the action property
  `EveryTurnCounts`, which needs no fairness: every turn lessens what is left.

## 4. The proofs

TLC checks the instances above; these hold for all values of the constants.

| module | theorem | says |
|---|---|---|
| `AuditShipperProofs` | `TypeCorrect` | every variable of the shipper keeps its type, for every bound |
| `AuditShipperProofs` | `PositionIsAcked`, `EofStaysFinal`, `GapsAreReal` | the position never runs ahead of the sink, an end-of-file mark stays the end, and a gap is declared only of a deleted file |
| `AuditShipperProofs` | `NothingIsSkipped` | what was written before an acknowledged position is in the sink or declared lost |
| `AuditShipperProofs` | `PositionsMoveForward`, `RepeatsAreLostAcks`, `RangesAreWholeLines`, `CyclesAreBounded` | the acknowledged position never goes back, a range is repeated for a lost answer only, ranges end with whole lines, no cycle follows a file that grows |
| `AuditShipperProofs` | `ShipperDelivers` | the shipper implements `AuditDelivery`, step by step |
| `PickerProofs` | `SelectionClosed`, `SelectionLeast`, `TurnsCount` | on every graph `pick()` returns the least closed set, with exactly the companions it allows, and every turn of its loops adds a brick or leaves less to do |
| `PickerProofs` | `AcceptedHealthy`, `CyclesReal`, `HealthyAccepted` | on every graph, `validate_dag` accepts what has every dependency and no cycle of any length, accepts every such graph, and names only real cycles |
| `PickerProofs` | `CheckedDeployable`, `FreshUpToDate` | a profile `--check` lets through is dependency-closed after any edits, and one nothing was edited after passes |
| `OpenBaoProofs` | `MarkedIsHandedOver`, `BreakGlassFirst`, `DeadEndIsEmpty`, `SealKeySafe`, `SecretsKept`, `CsrsAreKept` | the safety properties of the `openbao` run, for any list of secrets and any number of keys, troubles and re-inits |
| `BackupProofs` | `JudgesOwnCopy`, `SweepsTheDead` | a database restore test judges its own Cluster, and the sweep takes no live one |
| `BackupProofs` | `WritesGoOn`, `NoFalseAlarms`, `PassesAreWhole` | the canary volume: its writer is never stuck, a backup taken at any moment verifies, a pass has read whole generations |
| `BackupProofs` | `PassesLeaveNothing`, `LastSuccessIsKept` | both restore tests: nothing is left behind a pass, and no success is lost |
| `BackupProofs` | `CopiesAnnounceWholes`, `GreenIsRestorable` | the archive: the copy announces only whole base backups, and what the verifier publishes as ok restores |
| `GitLocks` | `LiveLocksStay` | no accepted cleaner removes the lock of a git that runs |
| `CheckProofs` | `HistoriesFaithful` | `HistoriesKeepFaith` in every state of the run, whatever its limits, days, nodes and backups a day |
| `CheckProofs` | `DumpFaithful`, `VerifyFaithful`, `SinkFaithful`, `ZitadelFaithful`, `EolFaithful`, `VexFaithful` | the same of each of the six, for histories of any length over any values |
| `JudgeProofs` | `JudgementsHold` | `AcceptedIsRight` and `RefusedIsWrong` in every state of the run that takes a restored copy, a stored file, snapshot or volume, a run of the picker, or what the bricks render |
| `JudgeProofs` | `CopyPassIsGenuine`, `CopyFailsForAReason` | a copy that passes is the live database's history, and that of a sound archive does not fail, for databases of any length |
| `JudgeProofs` | `PickWrites`, `PickChecks`, `PickFails` | what a run of the picker writes deploys, what it has just written passes `--check`, and it fails only for a reason, on any tree |
| `JudgeProofs` | `BricksOwn`, `BricksWait` | any number of bricks without a reported collision can be applied in any order, each object staying what its brick makes of it, but one that two bricks render under different versions; without a missing provider, every order Flux may take puts the providers first |
| `JudgeProofs` | `AuditIsRight`, `CiIsRight` | a render the HA audit accepts survives the loss of any worker and drains pod by pod, with any number of workloads and pods, and CI lets nothing else through |
| `JudgeProofs` | `EtcdJudged`, `OpenbaoJudged`, `LonghornJudged` | what passes the content checks restores, for files of any length and any number of volumes |

The assumptions are the types of the constants (`FilesAssumption`, `ShipperAssumption`,
`NamesAssumption`, `ServerAssumption`, `InitAssumption`, `BackupsAssumption`, `GitLocks!TimesAssumption`, `ChecksAssumption`), which TLC
evaluates in the runs. Three of them say more than a type, and each is a fact of the manifests or of what they run: the
three waits of a restore test (its health, the deletion of its Cluster, the grace period of its pod) add up to no more than
the age the sweep asks for; git's timeout is below the age of a lock the test calls safe to remove, and the fresh lock of
its tree is younger than that; PostgreSQL has a timeline and a segment to start on. Some theorems have premises of
their own, stated in them: `Steady`, `Window`, `MaxLine <= MaxB` and `Options = DefaultOptions`. The runs that check the same
properties meet them, but for `shipper_recovery`, which truncates files as `Steady` does not: of truncation, `EofIsFinal`, `NeverGoesBack` and
`RepeatsNeedALostAck` are model-checked only.

*Shipper, the position.* The theorems of `AuditShipperProofs` but the first assume `Steady`: an inode of a position names one file
(the directory is rotated by rename, and inodes are not used again), and no rename falls into the
listing. `PositionInv` has three parts. `NodeInv`: files age in the order they were made. `PlaceInv`, of the position in
memory *and* of every position in the sink, since a recovery turns the one into the other: its
offset is within its file, the bytes below it are in the sink, its end-of-file mark is of a renamed
file at its full length. `WorkInv`: what the cycle knows is still so when it is used, although the
node goes on (`PositionNode`): a listed file that was not the live one is not written to, the file under way is the one of
the position, `lim` is the length of a renamed file, and a range to be put starts at the position.

*Shipper, the delivery.* `Window` (`MaxOutage < RecoverDays`) says that a recovery looks far enough back. `DaysInv`: the positions in the
sink are ordered as their days are, and the last is in the window; so the first day a recovery finds holds the last position.
`OrderInv`: the position in memory may be *behind* one in the sink, by a range whose answer was lost, and then the
next range reaches it. That is what a lost answer does to every other property, and why the invariant keeps for it how the range
was cut (`CutAt`): whatever is appended meanwhile, a cut from the same offset reaches as far (`ChunkReaches`). `ListedInv`: a list
has no hole, and every file before it is gone; `RangeInv`: the limit of the cycle covers what is in the sink. `SkipInv` is then
inductive: all that lies before the position, before any position in the sink, or before a list under way is in the sink
or declared. `RepeatInv` counts: ranges stored twice, and one more while the sink is ahead, are at most the lost answers. `LineInv` puts
every position at the end of a line. The refinement maps the bytes on the node, in the sink and declared to those of `AuditDelivery`:
the node's steps write and expire (`NodeDelivers`), a put ships a range that moves forward (`PutDelivers`), a gap declares
(`GapDelivers`), and everything else is a stutter. `CyclesAreBounded` needs neither premise.

*Pick.* `WorklistInv`: a dependency of a selected brick is selected, or still waits in the worklist;
so an empty worklist means closed. For leastness, the selected set and the worklist lie within
the least closed set of what was asked for; `LeastIsClosure` shows that a closed subset of it
that holds the request is all of it. The companions need a last pass that added nothing,
which the invariant records.

*DagCheck.* `SearchInv`: grey bricks are exactly those on the stack (`GreyInv`); as long as no cycle was
reported, what a call has looked at is black or is the call it waits for (`LookedInv`), black bricks
depend on black bricks only, and no non-empty set of black bricks is one in which each depends on another of
the set (`BlackInv`). Once every brick is black, that last part is the absence of a cycle. For the other half, `PathInv` says that
the stack is a path of dependencies, so that what is reported when a grey brick is met again is closed.

*Profiles, in `PickerProofs`.* `GraphInv`: edits keep the graph closed, and the profile was generated from some graph.
`CompanionsKeepClosed` is the lemma that matters: adding companions whose dependencies are
present never opens a closed set, so no third closure is needed. `PickedInv` carries that a fresh profile is the pick of the
graph it was made from; that the check picks the same is so for the default options only. `SelectionAlone`, `CheckAlone` and `LifeAlone`
give the composition what its parts have.

*OpenBao.* `HandOverInv` says, for each step of either Job, what must already be written: the
init Job's step `n` of the root window has its first `n - 1` items; the configure Job past its
login found the bootstrap role, so the items before it in that window; whatever was configured
was so by a Job past its login. Neither `HandedOver` nor `BreakGlassBeforeSecrets` is inductive
without it, for each depends on how far *the other* Job got. `SealInv` relates the reads of
`ensure_seal_key` to the ghost `blind`; `SecretInv` carries the type of the secrets. `CsrInv`: until a trouble falls into
the runs, OpenBao is up at every call after the login, and a CSR that was generated is stored or is what the Job does next.

*Restore tests of the databases.* `JobInv` is of one Job and the scratch namespace, not of both Jobs: what the other does to
its Clusters is only to delete them (`OthersOnlyDelete`), so the composition needs one induction per Job. `Stands` says where it
is; `JudgesOwn`, that a Cluster in its way at the apply means a call without an answer; `Timed` and `Young` bound the age of its
Cluster by the waits behind it, in each of the phases in which the sweep may meet it. That bound, with the assumption on the times,
is `LeftoversAreDead`. `LeftNothing` is about every target reported, until the next run, not the last.

*Canary volume.* `Orderly` is what a MANIFEST says at *every* step of the writer, so a backup at any of them has it: generations
up to the counter without a hole, the newest `Keep` among them, at most the next one besides. `WriterInv` relates the memory of the
Job to the disk; a writer that died in its removal (`torn`) is excepted, as in the property. That removal keeps it orderly (`OldestAreOld`, `NextIsOrderly`) needs a count of the
generations: cardinalities, by the library's theorems on finite sets. `VerdictFits`, `PodFits`: a verdict is about the image it was read from,
also when an earlier run left the pod.

*Archive.* `HoldingInv`: stores hold nothing but whole objects until one is lost or damaged, and no segment PostgreSQL
has not written. `InfoInv`: `backup.info` comes after its data and goes with it, on the primary and in what the copy has still to do. From these, at the
step that copies `backup.info`, the data are on the replica or the run is blind; the end segment is what the code reads before it. For the
verifier, no invariant would do: `GreenMeansRestorable` is a property of what it computes. `OkIsOfBoth` goes
through the merge of `collect.py` (an ok came from a pass, or a skip, of this cluster on *both* stores), and `VerdictIsOfTheStore` through
`CheckCluster`: the last completed backup, the segments of its timeline from its first to the last there is, and the sample that is read. Both take the
greatest of a bounded set (`GreatestIs`), which exists because backups and segments are bounded at every state.

*Lock cleaners.* `ConfInv`: what a configuration without `Problems` must have, read off the test: `Recreate`, and an age limit of
at least `SafeAge`. `PodsInv`: so never two pods. `LockInv`: a running git belongs to the running pod and is within its timeout. `PassInv`:
a lock a sweeper has decided to remove is stale, and a stale lock never comes to life again - which is what the time
between the look and the `rm` could have broken.

*Histories.* `Dump!History` and its like are recursive functions on `0..n`, so each is the function `CHOSEN` to satisfy its equation.
`Recursion` proves that such a function exists, `RunsWhole` that it is a run of its step at every day; both rest on `Induction`, stated
of a *set* of numbers, since the library's theorem takes an operator. The invariants of a history are then sets of days.
The dump test: a published "pass" remembers a dump that was there, until a result is unread. The verifier: the last success is the greatest
day both stores were intact, but for days behind a failed read. The sink: what is remembered of a node is an object that was listed.
The Zitadel tool: the fold over the policies is a function of the prefix, and what it wrote in it is as declared.
The six theorems have as premises the shapes of their inputs (`DumpDay`, `VerifyDay`, `SinkSet`, `EolWorld`, `VexWorld` and so on), which the cases of the run are shown to have (`EveryCase`).

*Judgements.* Each theorem is of a world of its own (`PickWorld`, `EtcdWorld`, `OpenbaoWorld`, `CopyWorld`, `BrickWorld`): any tree, file, rows or
bricks of the shape the program reads. That the cases of the run are of it is, but for the HA audit, a lemma (`...CasesAre`), from which `JudgementsHold` follows.
A restored copy: when its rows are `Linked` (what `chain_errors` asks) and one of them has the hash of the live row of its number, every row below has (`ChainIsLive`, down
from that row by `Induction`); `compare` finds such a row, the newest or the newest that the live side still has. So a pass is genuine without a
word about how the archive was damaged. The other way, `RowsAreLinked` and `SoundCompares` say that what a sound archive holds compares well,
and `TargetIs` with `ApartGrows` that the point in time is a row that the recovery cuts at.
The picker: `RunWrites`, `EmitIs` and `WrittenIsCurrent`: what is emitted is the request's selection, which the check computes again from the header. It uses
the least closed set of `PickProofs`. Bricks: a key the check reports is an object two paths write, and those do not commute (`OrderOfTwo`); where they do not, both make
the object (`OrderAt`), and then either the check has its key or their versions differ (`KeyIsServed`). The closure of a brick is computed in as
many rounds as there are bricks, and that is enough: each round adds a brick or the set is closed (`RoundsReach`, by cardinalities). An order that has
a brick has all of its closure before it; and the shortest order that has it has nothing else (`Shortest`), since the last brick outside the closure could be left out.
The HA audit (`AuditIsRight`, `CiIsRight`): of any render of a `HaWorld`, with any number of pods. The audit reads labels, terms and percentages; its reference
places the pods one by one, and loses a node. `SecondApart` joins them: with a term of its own the second pod lies apart from the first, so no
worker holds all of them (`SurvivesIs`); a required term lets no third pod move in with another, so only more than two pods can be stranded (`StrandedIs`, by the loads of the nodes);
and a budget allows exactly one disruption, percentages rounded up (`RoundedUp`), iff the eviction API lets one pod go and not a second (`DrainsIs`).
The premises: selectors have Kubernetes's operators, the requests given are the sums the audit makes (`cpu`), and no budget of a manifest is a second one for the pods an operator makes, which
`audit` does not look for. All of the run's cases are of that world, but that they are is not proved, so `Judged` does not name them.

Only model-checked: liveness (`EventuallyAccounted`, `Settles`, `StaleLockGoes`), which TLAPS
does not reach; the shipper under truncation, which `Steady` excludes and `shipper_recovery` checks;
and `AcceptedIsRight` and `RefusedIsWrong` of the judgements that `Judged` does not name. Most of these compare a
judgement with a search over routes or matchings of its own, or fold over sequences of text: the provers know nothing of
`SelectSeq`, and there are no lemmas yet about routes, matchings and text. Of the HA audit, that it refuses only what falls short and that its lists shrink is checked, not proved. The verifier of the archive is proved elsewhere, in `GreenIsRestorable`.

## 5. Findings

Each is a run TLC must find violated, against a sentence of the repository.

1. **A file renamed between the glob and the stats is skipped with no gap**
   (`ship.sh:138`, run `shipper_raced_listing`). The header of the script says "never silently
   skipped".
2. **A read without an answer makes a new seal key on an initialised cluster**
   (`init.sh:62`, run `openbao_seal_key`). It takes a missing Secret, pods that are down and one failed
   `kubectl get`. The proof of `SealKeySafe` shows that nothing else can do it.
3. **A kill between `sys/init` and `root.hdr` leaves a root token nobody can revoke**
   (`init.sh:144`, run `openbao_root_token`).
4. **A failed read or copy leaves a base backup that looks complete on the replica**
   (`cnpg-store-replicate-cronjob.yaml:106`, run `store_replicate`): the end segment is read with
   `|| true`, and the loop goes on to `backup.info` after a failed copy of the data.

### Limits and divergences met while modelling

Not runs of their own: each is stated as a premise or an exception of a property, or in a comment of the module.

* OpenBao (`configure.sh:81`): after a lost answer of `intermediate/generate` no later run prints or stores the
  CSR; `CsrOutlivesItsLog` says what does hold, that a CSR that was answered is stored.
* Picker (`pick.py:286`): the options of a profile are not in its file, so one picked with `--no-baseline` or
  `--no-companions` never passes `--check` (pick.py:221 and :261 promise a replay); `--check` looks only at
  `apps/flux/*/`.
* Dump test (`restore_cnpg.py:141`): after a day whose previous results could not be read, a lost dump is a
  silent skip. Both stores wiped look like an archive that is new.
* `parse_snapshot` does not ask for the `##end` mark and psql runs without `ON_ERROR_STOP`: a query that fails leaves an
  empty block, so that a live side without a canary is a skip. What is read is never forged (`CutIsNeverForged`).
* `compare`: no hash covers the time of the first restored row; two rows two seconds apart cannot be told
  apart; without a `stoppedAt` the target may precede the base backup.
* Restore tests: the sweep deletes by name from a list that may be stale; its age limit (3600 s) is below the Job's
  deadline (5400 s), and only the schedules keep the two apart.
* Verifier: a damaged `SHA256SUMS` that names no part passes as intact; an etcd file whose 32-byte trailer was cut off is taken for one
  without; the Longhorn age is the youngest volume's; short rows of a stage are dropped; WAL of a later
  timeline is not looked at beyond its `.history`. A damaged primary object overwrites its good copy.
* Sink checker: a node whose two newest days are empty is not shown by a restarted checker; what is known goes
  back when the list of the newest day fails and the previous one does not.
* `check-ha.py`: an empty selector selects nothing (a budget `{}` is not counted); external budgets on operator
  workloads are not counted; `strict_spread` is never compared with the workload; a HelmRelease
  declared by two bricks is expanded once; the CI render with the forge is the union of two profiles.
* `check-gateway-routes.py`: of two files with the same route the last is read. `check-child-clusters.py`: an
  object twice in one shared file is not looked for. `check-vex.py`: a timestamp in the future extends the window.
* `gen-sbom.py`: `--images` prints the bare name of a digest-pinned image; `{repository, tag}` is found only under the key `image`; a `digest` in
  values is ignored; charts `v1.0` and `1.0` share a purl.
* `db-bench-parse.py:61`: `failed + bad` counts a failed transaction twice. `alert-metrics.py`: a number with an exponent
  leaves its `e`; of two alerts with the same name the last is kept.
* `fake_s3_server.py`: a suffix range is misread, a range past the end answers 206, completing an upload takes every
  part sent, a folder is repeated on later pages, a PUT is not atomic. The scripts under test make none of these calls.
* `test-s3-egress-fqdns.py`: a rule whose entries name no provider is not looked at. The ports of a rule are read up to the first line that is not
  deeper than its key, and a comment is such a line (line 81; the entries, line 74, leave comments out). So 443, a comment in the first column and 80 is
  accepted, though line 105 says that a rule "must open exactly 443/TCP" (the layout "interrupted", excepted for the ports in `AcceptedReaches`);
  and a right rule with such a comment before its ports is refused ("cut off", excepted in `RightIsAccepted`).
* `check-object-collisions.py`: an object is told by its whole apiVersion (line 54, as its header says), so two bricks that render it under two
  versions of its group pass, though the cluster has it once. A build that fails with nothing on stderr is taken to render nothing (line 47).
  `OneOwner` excepts both.
* `check-gateway-routes.py:200` looks for a host anywhere in the text of a scrape: one that names it in a note, or in a longer name, is reported too.
* Container tests: the count of custom resources, not their kinds, is asked for; one `automountServiceAccountToken: false`
  among the patches is enough; only the first container's CPU is bounded.
* `test-forgejo-brick.py`: nothing asks that an ExternalSecret `forgejo-admin` or `forgejo-db` exists (`AcceptedComesUp` has it as a premise);
  schedules are compared as text; a path created twice by `configure.sh` is taken by its last line, while `kv_create` keeps the first; the
  namespace of a route stands for that of its backend.
* Lock cleaners: git's timeout and the single-node volume are assumptions; the `*` of the script's `case` crosses slashes.
* Zitadel: a wanted number 0 never converges; a broken PUT leaves an unknown result.

## 6. Not modelled, and the plan

Abstracted in what is modelled: restic's own formats, the wording of tags and messages, YAML and Helm rendering, the
order of patches in a profile, the PGP checks of `resolve_mode`, the expiry of the 15 minute token
(a call without an answer stands for it), the issuers' default switch, and time other than the UTC
day in the shipper.

Not modelled: the escrow check, the database dumps and the etcd and OpenBao snapshot Jobs (linear pipelines that
fail as a whole; what they leave is judged by `BackupContent` and `DumpLoad`), `restic-stage.sh`, the migration
script of Zitadel and the scripts that drive GitHub or a local cluster (no state of their own); the tests that run a script
on examples (they are what the models were read against); manifests, clusters and documentation (declarative). The clock
of the shipper's hazards `ship.sh:75` and `:142` is outside the runs on purpose: the bounds exclude them and the
hazards say so.

Next:

1. The remaining judgements of `MCChecks`, one world and one theorem each, as in `JudgeProofs`: the Secrets, the routes and the
   child clusters are over sets and records. Of the HA audit, that the cases of the run are of `HaWorld`.
2. `EofIsFinal`, `NeverGoesBack` and `RepeatsNeedALostAck` under truncation, as `shipper_recovery` checks them: `PlaceInv` has
   to say what a position of an earlier incarnation is, and `BytesInv` that an ended one is not written to.
3. `AuditSinkCheck` composed with the sink of `AuditShipper`: an age that grows iff shipping stopped.
