---------------------------- MODULE RestoreTest ----------------------------
(***************************************************************************)
(* The database restore tests (restore_cnpg.py in the modes latest and     *)
(* pitr, apps/base/backup/databases/restore): each run of a CronJob        *)
(* recovers every target (cluster, store) in turn into a disposable        *)
(* Cluster, compares it with the live database, deletes it and publishes   *)
(* the results.  The CronJobs share the scratch namespace.                 *)
(*                                                                         *)
(* A kubectl call takes less than a tick of time; the waits are the loops  *)
(* of the script, bounded by HealthyTimeout and DeleteTimeout.  A call may *)
(* get no answer, a Job may be told to stop (SIGTERM) and killed Grace     *)
(* ticks later, a node may be lost: MaxFaults of these in all.             *)
(* The comparison itself is module CopyJudge; here it is a verdict, a      *)
(* failed and a skipped test are both "not passed", and the published      *)
(* time of a last success is known or not.                                 *)
(***************************************************************************)
EXTENDS Naturals

CONSTANTS Modes,           \* one CronJob per mode
          NTargets,        \* per mode, how many pairs CLUSTERS x STORES, in the order of main()
          HealthyTimeout, DeleteTimeout, Grace, SweepAge,
          MaxFaults

TimesAssumption ==
    /\ {HealthyTimeout, DeleteTimeout, Grace, SweepAge, MaxFaults} \subseteq Nat
    /\ NTargets \in [Modes -> Nat \ {0}]
    /\ HealthyTimeout + DeleteTimeout + Grace <= SweepAge

VARIABLES scratch,    \* the disposable Clusters by name
          published,  \* the targets with a last success, per key of the result ConfigMap
          job,        \* the Job of each CronJob; concurrencyPolicy: Forbid
          faults      \* failures left

vars == <<scratch, published, job, faults>>

Targets(m) == 1..NTargets[m]
Names == UNION {{m} \X Targets(m) : m \in Modes}    \* scratch_name: rt-<cluster>-<store>-<mode>
NoName == <<"none", 0>>

\* A Job that is not running; timer counts the ticks since the last one (up to 1),
\* told those since SIGTERM, plus one.
Idle == [pc |-> "idle", at |-> 1, timer |-> 0, told |-> 0, blind |-> FALSE, lied |-> FALSE, readable |-> TRUE,
         left |-> {}, name |-> NoName, back |-> "sweep", created |-> FALSE,
         verdict |-> "fail", passed |-> {}, borrowed |-> FALSE]

Gone == [state |-> "none", age |-> 0, mine |-> FALSE]
Init == /\ scratch = [n \in Names |-> Gone]
        /\ published = [m \in Modes |-> {}]
        /\ job = [m \in Modes |-> Idle]
        /\ faults = MaxFaults

Exists(n) == scratch[n].state # "none"
Current(m) == <<m, job[m].at>>
Goes(m, j) == job' = [job EXCEPT ![m] = j]

\* The call is answered, or takes one of the failures left and the Job is blind;
\* an exists() without an answer is taken for "not there" and has lied.
Answers == IF faults > 0 THEN BOOLEAN ELSE {TRUE}
Call(answered) == faults' = IF answered THEN faults ELSE faults - 1
Seen(j, answered) == [j EXCEPT !.blind = @ \/ ~answered]
Checked(j, answered) == [Seen(j, answered) EXCEPT !.lied = @ \/ ~answered]

\* The Job is gone, and with it what tells its Clusters from leftovers.
Ends(m) == /\ Goes(m, Idle)
           /\ scratch' = [n \in Names |-> [scratch[n] EXCEPT !.mine = @ /\ n[1] # m]]

-----------------------------------------------------------------------------
\* cleanup(n), then on with back.
Clean(j, n, back) == [j EXCEPT !.pc = "delete", !.name = n, !.back = back]

\* sweep_leftovers: every Cluster older than SweepAge, of any mode, is listed once
\* and cleaned up by name, one after the other.
LeftoversAnyAge == {n \in Names : Exists(n)}   \* mutant: the age is not looked at
Leftovers == {n \in Names : Exists(n) /\ scratch[n].age > SweepAge}
SweepOn(j) == IF j.left = {} THEN [j EXCEPT !.pc = "next"]
              ELSE LET n == CHOOSE n \in j.left : TRUE
                   IN Clean([j EXCEPT !.left = @ \ {n}], n, "sweep")

\* The CronJob creates a Job once the last one is over; main reads the results
\* published before, a read that fails being an empty one, and sweeps.
Start(m) ==
    /\ job[m].pc = "idle" /\ job[m].timer = 1
    /\ \E read, listed \in Answers :
         /\ read \/ listed
         /\ Call(read /\ listed)
         /\ LET found == IF listed THEN Leftovers ELSE {}
            IN Goes(m, SweepOn([Seen(Idle, read /\ listed) EXCEPT
                                  !.readable = read, !.left = found]))
    /\ UNCHANGED <<scratch, published>>

\* The next target, or the publication.
NextTarget(m, j) == [j EXCEPT !.at = @ + 1, !.created = FALSE, !.verdict = "fail",
                           !.name = NoName, !.back = "sweep",
                           !.pc = IF j.at = NTargets[m] THEN "publish" ELSE "next"]

\* run_one: kubectl apply, which creates the Cluster or patches the one that is there.
Apply(m, j, answered) ==
    /\ LET k == [j EXCEPT !.created = TRUE]
       IN Goes(m, IF answered THEN [k EXCEPT !.pc = "wait", !.timer = 0, !.name = NoName, !.back = "sweep"]
                  ELSE Clean(k, Current(m), "result"))
    /\ scratch' = IF answered /\ ~Exists(Current(m))
                  THEN [scratch EXCEPT ![Current(m)] = [state |-> "up", age |-> 0, mine |-> TRUE]]
                  ELSE scratch

\* Mutant: the leftover of the same name is applied over.
PrepareOver(m) ==
    /\ job[m].pc = "next"
    /\ Apply(m, job[m], TRUE)
    /\ UNCHANGED <<published, faults>>

\* run_one up to there.  The live side cannot be read, has no canary, no base backup
\* yet or no row to recover to: a failure or a skip.  A Cluster of the same name is
\* a leftover and goes first; exists() takes no answer for "not there".
Prepare(m) ==
    /\ job[m].pc = "next"
    /\ \E seen, applied \in Answers :
         /\ seen \/ applied
         /\ Call(seen /\ applied)
         /\ LET j == Seen(job[m], seen /\ applied)
            IN \/ Goes(m, NextTarget(m, j)) /\ UNCHANGED scratch
               \/ /\ seen /\ applied /\ Exists(Current(m))
                  /\ Goes(m, Clean(j, Current(m), "apply")) /\ UNCHANGED scratch
               \/ /\ seen => ~Exists(Current(m))
                  /\ Apply(m, j, applied)
    /\ UNCHANGED published

\* The apply after a leftover of the same name, gone or not.
ApplyAfter(m) ==
    /\ job[m].pc = "apply"
    /\ \E answered \in Answers :
         /\ Call(answered)
         /\ Apply(m, Seen(job[m], answered), answered)
    /\ UNCHANGED published

\* wait_healthy, the exec of snapshot.sql and compare; any exception is a failure.
Judge(m) ==
    /\ job[m].pc = "wait"
    /\ \E pass \in {FALSE, Exists(Current(m))} :
         Goes(m, Clean([job[m] EXCEPT
                          !.timer = 0,
                          !.verdict = IF ~pass THEN "fail"
                                      ELSE IF scratch[Current(m)].mine THEN "pass" ELSE "borrowed"],
                       Current(m), "result"))
    /\ UNCHANGED <<scratch, published, faults>>

-----------------------------------------------------------------------------
(* cleanup(name), the subroutine: delete, poll, force, report.             *)

\* Mutant: run_one ignores the answer of its last cleanup.
BackRegardless(m, j, removed) ==
    CASE j.back = "sweep"  -> SweepOn([j EXCEPT !.timer = 0, !.name = NoName])
      [] j.back = "apply"  -> [j EXCEPT !.pc = "apply", !.timer = 0]
      [] OTHER -> NextTarget(m, [j EXCEPT !.timer = 0,
                                          !.passed = IF j.verdict # "fail" THEN @ \cup {j.at} ELSE @])

\* What its caller does with the answer of cleanup.
Back(m, j, removed) ==
    CASE j.back = "sweep"  -> SweepOn([j EXCEPT !.timer = 0, !.name = NoName])
      [] j.back = "apply"  -> [j EXCEPT !.pc = "apply", !.timer = 0]
      [] j.back = "result" ->
            NextTarget(m, [j EXCEPT !.timer = 0,
                                 !.passed = IF removed /\ j.verdict # "fail" THEN @ \cup {j.at} ELSE @,
                                 !.borrowed = @ \/ j.verdict = "borrowed"])
      [] j.back = "terminated" /\ j.created -> Clean(j, j.name, "leave")
      [] OTHER -> [j EXCEPT !.pc = "publish"]

DeleteCluster(m) ==
    /\ job[m].pc = "delete"
    /\ \E answered \in Answers :
         /\ Call(answered)
         /\ Goes(m, [Seen(job[m], answered) EXCEPT !.pc = "await", !.timer = 0])
         /\ scratch' = IF answered /\ Exists(job[m].name)
                       THEN [scratch EXCEPT ![job[m].name].state = "deleting"] ELSE scratch
    /\ UNCHANGED published

\* The delete call times out: cleanup catches the exception and gives up.
GiveUp(m) ==
    /\ job[m].pc = "delete" /\ faults > 0
    /\ Call(FALSE)
    /\ Goes(m, Back(m, Seen(job[m], FALSE), FALSE))
    /\ UNCHANGED <<scratch, published>>

\* The poll ends when the Cluster is gone, or when exists() gets no answer.
AwaitGone(m) ==
    /\ job[m].pc = "await"
    /\ \E answered \in Answers :
         /\ answered => ~Exists(job[m].name)
         /\ Call(answered)
         /\ Goes(m, Back(m, Checked(job[m], answered), TRUE))
    /\ UNCHANGED <<scratch, published>>

\* The poll is over: the finalizers are dropped and the delete sent again.
Force(m) ==
    /\ job[m].pc = "await" /\ job[m].timer = DeleteTimeout /\ Exists(job[m].name)
    /\ \E answered \in Answers :
         /\ Call(answered)
         /\ Goes(m, Back(m, Seen(job[m], answered), answered))
         /\ scratch' = IF answered THEN [scratch EXCEPT ![job[m].name] = Gone] ELSE scratch
    /\ UNCHANGED published

-----------------------------------------------------------------------------
\* Mutant: a target that did not pass loses its last success.
BuildPassed(m) == job[m].passed

\* build_metrics: a target that did not pass, or was not reached, keeps the last
\* success that was read.
BuildMetrics(m) == job[m].passed \cup (IF job[m].readable THEN published[m] ELSE {})

\* publish, the last call of main.
Publish(m) ==
    /\ job[m].pc = "publish"
    /\ \E answered \in Answers :
         /\ Call(answered)
         /\ published' = IF answered THEN [published EXCEPT ![m] = BuildMetrics(m)] ELSE published
    /\ Ends(m)

\* SIGTERM (the deadline, a drain): Terminated is raised where the script stands.
\* Inside run_one it cleans up first; inside a cleanup nothing catches it before
\* main; outside the try of main it ends the script (Kill).
Terminate(m) ==
    LET j == [job[m] EXCEPT !.told = 1]
        cleaning(backs) == j.pc \in {"delete", "await"} /\ j.back \in backs
    IN /\ faults > 0 /\ job[m].told = 0 /\ faults' = faults - 1
       /\ \/ /\ cleaning({"sweep", "result"})
             /\ Goes(m, [j EXCEPT !.pc = "publish"])
          \/ /\ j.pc \in {"next", "apply", "wait"} \/ cleaning({"apply"})
             /\ Goes(m, Clean([j EXCEPT !.timer = 0], Current(m), "terminated"))
       /\ UNCHANGED <<scratch, published>>

\* SIGKILL at the end of the grace period, or a node that is lost.
Kill(m) ==
    /\ job[m].pc # "idle"
    /\ \/ job[m].told = Grace + 1 /\ UNCHANGED faults
       \/ faults > 0 /\ faults' = faults - 1
    /\ Ends(m)
    /\ UNCHANGED published

\* The operator finishes a deletion.
Vanish(n) ==
    /\ scratch[n].state = "deleting"
    /\ scratch' = [scratch EXCEPT ![n] = Gone]
    /\ UNCHANGED <<published, job, faults>>

\* Time passes only where a Job waits, and never past the end of its wait.
Patient(j) == /\ \/ j.pc = "idle"
                 \/ j.pc = "wait" /\ j.timer < HealthyTimeout
                 \/ j.pc = "await" /\ j.timer < DeleteTimeout
              /\ j.told <= Grace
Tick ==
    /\ \A m \in Modes : Patient(job[m])
    /\ job' = [m \in Modes |->
                 [job[m] EXCEPT !.timer = IF job[m].pc = "idle" THEN 1 ELSE @ + 1,
                                !.told = IF @ > 0 THEN @ + 1 ELSE 0]]
    /\ scratch' = [n \in Names |->
                     [scratch[n] EXCEPT !.age = IF Exists(n) /\ @ <= SweepAge THEN @ + 1 ELSE @]]
    /\ UNCHANGED <<published, faults>>

Step(m) == \/ Start(m) \/ Prepare(m) \/ ApplyAfter(m) \/ Judge(m)
           \/ DeleteCluster(m) \/ GiveUp(m) \/ AwaitGone(m) \/ Force(m) \/ Publish(m)

Next == \/ Tick
        \/ \E n \in Names : Vanish(n)
        \/ \E m \in Modes : Step(m) \/ Terminate(m) \/ Kill(m)

Spec == Init /\ [][Next]_vars

-----------------------------------------------------------------------------
\* A pass is the verdict on a Cluster this run created, not on a leftover of the
\* same name, as long as every call of the run was answered (run_one, "a stale
\* object of the same name is a leftover, not an input").
JudgesItsOwnCopy == \A m \in Modes : job[m].borrowed => job[m].blind

\* A target reported as passed has left no Cluster behind, whatever failed or
\* stopped the run, but for an exists() that lied (the finally of run_one).
PassLeavesNothing ==
    \A m \in Modes : \A t \in job[m].passed : Exists(<<m, t>>) => job[m].lied

\* What the sweep takes for a leftover is never the Cluster a Job is restoring
\* into, unless that Job took a leftover for its own after a call without an
\* answer (sweep_leftovers against the waits of run_one).
Restoring(n) == job[n[1]].created /\ job[n[1]].at = n[2]
LeftoversAreDead == \A n \in Leftovers : Restoring(n) => job[n[1]].blind

\* The published time of a last success is only ever lost after a read of the
\* previous results that got no answer (main: previous; build_metrics).
ErasedOnlyUnread ==
    [][\A m \in Modes : published[m] \subseteq published'[m] \/ ~job[m].readable]_vars

=============================================================================
