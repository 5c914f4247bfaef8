--------------------------- MODULE LonghornRestore --------------------------
(***************************************************************************)
(* The weekly Longhorn restore test (restore_longhorn.py) over the canary  *)
(* volume: the newest backup becomes a scratch Volume, a pod verifies it,  *)
(* both are deleted and the result is published.  kubectl calls get no     *)
(* answer, the Job is told to stop, killed, a restore damages a file:      *)
(* MaxFaults of these in all.  One CronJob, concurrencyPolicy: Forbid.     *)
(***************************************************************************)
EXTENDS CanaryVolume

CONSTANTS BackupMaxAge, \* hours after which a newest backup means that backups stopped
          MaxFaults     \* bound: failures

VARIABLES volume,   \* the scratch Volume: none, or restored from which backup
          pod,      \* the verify pod: none, or its phase, its argument and its verdict
          job,      \* the Job
          last,     \* the published last success: known or not
          faults

restoreVars == <<volume, pod, job, last, faults>>
vars == <<canaryVars, restoreVars>>

NoVolume == [there |-> FALSE, img |-> Empty]
NoPod == [there |-> FALSE, created |-> -1, ok |-> FALSE, img |-> Empty]
Idle == [pc |-> "idle", b |-> NoBackup, result |-> "none", readable |-> TRUE, lied |-> FALSE,
         judged |-> Empty]

Init == /\ CanaryInit
        /\ volume = NoVolume
        /\ pod = NoPod
        /\ job = Idle
        /\ last = FALSE
        /\ faults = MaxFaults

Failing == IF faults > 0 THEN BOOLEAN ELSE {FALSE}
Spends(failing) == faults' = IF failing THEN faults - 1 ELSE faults

-----------------------------------------------------------------------------
\* main reads the last success, a read that fails being none; latest_backup looks
\* for the newest backup: nothing found, or no answer, is a skip; one that is too
\* old a failure.
Start ==
    /\ job.pc = "idle"
    /\ \E unread, unfound \in Failing :
         /\ ~(unread /\ unfound)
         /\ Spends(unread \/ unfound)
         /\ LET j == [Idle EXCEPT !.readable = ~unread, !.b = backup]
            IN job' = IF unfound \/ backup = NoBackup
                      THEN [j EXCEPT !.pc = "publish", !.result = "skip"]
                      ELSE IF hour - backup.created > BackupMaxAge
                      THEN [j EXCEPT !.pc = "publish", !.result = "fail"]
                      ELSE [j EXCEPT !.pc = "clean"]
    /\ UNCHANGED <<canaryVars, volume, pod, last>>

\* cleanup: the pod, then the Volume with its finalizers.  In an outage either may
\* stay, and gone() takes no answer for "gone".
\* after[b]: the Job once it believes both are gone, or not.
Cleanup(after) ==
    \E podStays, volumeStays, lies \in Failing :
        /\ Spends(podStays \/ volumeStays \/ lies)
        /\ pod' = IF podStays THEN pod ELSE NoPod
        /\ volume' = IF volumeStays THEN volume ELSE NoVolume
        /\ LET removed == ~pod'.there /\ ~volume'.there
           IN job' = [after[removed \/ lies] EXCEPT !.lied = @ \/ lies]

\* A leftover of a killed run is not an input; whether it went is not looked at.
CleanBefore ==
    /\ job.pc = "clean"
    /\ Cleanup([removed \in BOOLEAN |-> [job EXCEPT !.pc = "apply"]])
    /\ UNCHANGED <<canaryVars, last>>

\* The Volume made from the newest backup, whole or with a damaged file.
Restored == {[there |-> TRUE, img |-> [job.b.img EXCEPT !.bad = bad]] :
               bad \in {{}} \cup {{g} : g \in job.b.img.disk}}

\* kubectl apply and wait_restored: a Volume that is there keeps what it holds.
Restore ==
    /\ job.pc = "apply"
    /\ \/ /\ volume' \in IF volume.there THEN {volume} ELSE Restored
          /\ job' = [job EXCEPT !.pc = "verify"]
          /\ LET damaged == ~volume.there /\ volume'.img.bad # {}
             IN (damaged => faults > 0) /\ Spends(damaged)
       \/ /\ faults > 0 /\ Spends(TRUE)
          /\ volume' \in {volume} \cup (IF volume.there THEN {} ELSE Restored)
          /\ job' = [job EXCEPT !.pc = "cleanup", !.result = "fail"]
    /\ UNCHANGED <<canaryVars, pod, last>>

\* Mutant: the apply over the pod of another backup is taken to succeed.
RunVerifyAnyPod ==
    /\ job.pc = "verify"
    /\ \E failing \in Failing :
         /\ Spends(failing)
         /\ IF failing
            THEN /\ job' = [job EXCEPT !.pc = "cleanup", !.result = "fail"]
                 /\ UNCHANGED pod
            ELSE /\ pod' = IF pod.there THEN pod
                           ELSE [there |-> TRUE, created |-> job.b.created, img |-> volume.img,
                                 ok |-> Verify(volume.img, job.b.created)]
                 /\ job' = [job EXCEPT !.pc = "cleanup", !.judged = pod'.img,
                                       !.result = IF pod'.ok THEN "pass" ELSE "fail"]
    /\ UNCHANGED <<canaryVars, volume, last>>

\* run_verify: the argument of a pod cannot change, so the apply over a leftover pod
\* of another backup fails; the verdict is read from the pod's log.
RunVerify ==
    /\ job.pc = "verify"
    /\ \E failing \in Failing :
         /\ Spends(failing)
         /\ IF failing \/ (pod.there /\ pod.created # job.b.created)
            THEN /\ job' = [job EXCEPT !.pc = "cleanup", !.result = "fail"]
                 /\ UNCHANGED pod
            ELSE /\ pod' = IF pod.there THEN pod
                           ELSE [there |-> TRUE, created |-> job.b.created, img |-> volume.img,
                                 ok |-> Verify(volume.img, job.b.created)]
                 /\ job' = [job EXCEPT !.pc = "cleanup", !.judged = pod'.img,
                                       !.result = IF pod'.ok THEN "pass" ELSE "fail"]
    /\ UNCHANGED <<canaryVars, volume, last>>

\* Mutant: the answer of the last cleanup is ignored too.
CleanRegardless ==
    /\ job.pc = "cleanup"
    /\ Cleanup([removed \in BOOLEAN |-> [job EXCEPT !.pc = "publish"]])
    /\ UNCHANGED <<canaryVars, last>>

\* The finally of run(): what could not be removed is a failure.
CleanAfter ==
    /\ job.pc = "cleanup"
    /\ Cleanup([removed \in BOOLEAN |->
                 [job EXCEPT !.pc = "publish", !.result = IF removed THEN @ ELSE "fail"]])
    /\ UNCHANGED <<canaryVars, last>>

\* SIGTERM, with Terminated raised where the script stands: run() cleans up first,
\* unless it was already cleaning up.
Terminate ==
    /\ job.pc \in {"clean", "apply", "verify", "cleanup"} /\ faults > 0 /\ Spends(TRUE)
    /\ job' = [job EXCEPT !.pc = IF @ = "cleanup" THEN "publish" ELSE "cleanup", !.result = "fail"]
    /\ UNCHANGED <<canaryVars, volume, pod, last>>

Kill ==
    /\ job.pc # "idle" /\ faults > 0 /\ Spends(TRUE)
    /\ job' = Idle
    /\ UNCHANGED <<canaryVars, volume, pod, last>>

\* build_metrics: what did not pass keeps the last success that was read.
BuildMetrics == job.result = "pass" \/ (job.readable /\ last)

\* The patch of the ConfigMap.
Publish ==
    /\ job.pc = "publish"
    /\ \E failing \in Failing :
         /\ Spends(failing)
         /\ last' = IF failing THEN last ELSE BuildMetrics
    /\ job' = Idle
    /\ UNCHANGED <<canaryVars, volume, pod>>

RestoreNext == \/ Start \/ CleanBefore \/ Restore \/ RunVerify \/ CleanAfter
               \/ Terminate \/ Kill \/ Publish

Next == (CanaryNext /\ UNCHANGED restoreVars) \/ RestoreNext
Spec == Init /\ [][Next]_vars

-----------------------------------------------------------------------------
\* A restore test that passes has read the newest Keep generations, whole, of a
\* canary that was being written when the newest backup was made - whichever
\* Volume or pod a failed cleanup or an earlier run left in its way.
PassMeansWhole ==
    job.result = "pass" =>
        /\ \A g \in (job.judged.n - Keep + 1)..job.judged.n :
              g > 0 => g \in job.judged.disk \ job.judged.bad
        /\ job.judged.n > 0
        /\ job.b.created - job.judged.w <= MaxGap

\* A run that passes leaves neither the Volume nor the pod, but for a gone() that lied.
PassLeavesNothing ==
    job.pc = "publish" /\ job.result = "pass" /\ ~job.lied => ~volume.there /\ ~pod.there

\* The published last success is only lost after a read of it that failed.
ErasedOnlyUnread == [][last => last' \/ ~job.readable]_vars
=============================================================================
