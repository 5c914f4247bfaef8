----------------------------- MODULE MCBackups ------------------------------
(***************************************************************************)
(* The three parts of the backup system that run on their own: the         *)
(* database restore tests, the canary volume with its restore test, and    *)
(* the CNPG archive with its copy and its verification.  They share no     *)
(* state, so each is checked with the two others at rest.                  *)
(***************************************************************************)
EXTENDS Integers

CONSTANTS Modes, NTargets, HealthyTimeout, DeleteTimeout, Grace, SweepAge,
          Keep, MaxGap, MaxHours, BackupMaxAge,
          Ids, Timelines, Segments, SampleWals, MinPrune,
          MaxFaults, TestFaults, StoreFaults

VARIABLES part,
          scratch, published, job, faults,
          hour, live, writer, torn, backup, volume, pod, testJob, last, testFaults,
          server, info, store, aged, copy, storeFaults, lost

databases == <<scratch, published, job, faults>>
canary == <<hour, live, writer, torn, backup, volume, pod, testJob, last, testFaults>>
archive == <<server, info, store, aged, copy, storeFaults, lost>>

Databases == INSTANCE RestoreTest
Canary == INSTANCE LonghornRestore WITH job <- testJob, faults <- testFaults, MaxFaults <- TestFaults
Archive == INSTANCE StoreReplicate WITH faults <- storeFaults, MaxFaults <- StoreFaults

\* Two targets for the daily CronJob, one for the weekly one.
MCTargets == [m \in Modes |-> IF m = "latest" THEN 2 ELSE 1]

ASSUME BackupsAssumption ==
    Databases!TimesAssumption /\ Canary!CanaryAssumption /\ Archive!StoreAssumption

Init == /\ part \in {"databases", "canary", "archive"}
        /\ Databases!Init /\ Canary!Init /\ Archive!Init
Next == /\ \/ part = "databases" /\ Databases!Next /\ UNCHANGED <<canary, archive>>
           \/ part = "canary" /\ Canary!Next /\ UNCHANGED <<databases, archive>>
           \/ part = "archive" /\ Archive!Next /\ UNCHANGED <<databases, canary>>
        /\ UNCHANGED part
Spec == Init /\ [][Next]_<<part, databases, canary, archive>>

\* The properties of the parts, as they are stated there.
JudgesItsOwnCopy == Databases!JudgesItsOwnCopy
LeftoversAreDead == Databases!LeftoversAreDead
NextWriteSucceeds == Canary!NextWriteSucceeds
NoFalseAlarm == Canary!NoFalseAlarm
PassMeansWhole == Canary!PassMeansWhole
GreenMeansRestorable == Archive!GreenMeansRestorable
AnnouncedWhole == Archive!AnnouncedWhole
\* Neither restore test leaves anything behind when it reports a pass.
PassLeavesNothing == Databases!PassLeavesNothing /\ Canary!PassLeavesNothing
\* Neither restore test loses a published last success, but after a read that failed.
ErasedOnlyUnread == Databases!ErasedOnlyUnread /\ Canary!ErasedOnlyUnread
=============================================================================
