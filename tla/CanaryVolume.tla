---------------------------- MODULE CanaryVolume ----------------------------
(***************************************************************************)
(* The canary volume (storage-restore-test/scripts/canary_volume.py): an   *)
(* hourly writer adds a generation, drops the oldest beyond Keep and       *)
(* replaces the MANIFEST; Longhorn snapshots the volume and backs it up    *)
(* at any moment; verify says whether an image is a good canary.           *)
(*                                                                         *)
(* A generation is its number, its file holds the right content or not;    *)
(* hours are counted up to MaxHours.  The steps of the writer reach the    *)
(* disk in order.                                                          *)
(***************************************************************************)
EXTENDS Integers, FiniteSets

CONSTANTS Keep,      \* generations kept
          MaxGap,    \* hours a backup may be younger than its newest generation
          MaxHours   \* bound: hours

CanaryAssumption == {Keep, MaxGap, MaxHours} \subseteq Nat \ {0}

VARIABLES hour,
          live,     \* the volume: manifest counter n, written_at w, files, and what is on disk
          writer,   \* the Job that writes: next step, the generation and files in its memory
          torn,     \* ghost: a writer died after os.remove and before the new MANIFEST
          backup    \* the newest backup

canaryVars == <<hour, live, writer, torn, backup>>

\* The image of an empty volume: no MANIFEST, which counts as counter 0.
Empty == [n |-> 0, w |-> 0, files |-> {}, disk |-> {}, bad |-> {}]
NoWriter == [pc |-> "idle", n |-> 0, files |-> {}]
NoBackup == [img |-> Empty, created |-> -1, cut |-> FALSE]

CanaryInit == /\ hour = 0
              /\ live = Empty
              /\ writer = NoWriter
              /\ torn = FALSE
              /\ backup = NoBackup

-----------------------------------------------------------------------------
\* write: the generation after the MANIFEST's, in place by fsync and rename.
WriteGeneration ==
    /\ writer.pc = "idle" /\ (live.n = 0 \/ live.w # hour)      \* hourly
    /\ LET n == live.n + 1
       IN /\ writer' = [pc |-> "remove", n |-> n, files |-> live.files \cup {n}]
          /\ live' = [live EXCEPT !.disk = @ \cup {n}]
    /\ UNCHANGED <<hour, torn, backup>>

\* The files beyond the newest Keep, removed before the MANIFEST forgets them.
Oldest(files) == {k \in files : Cardinality({j \in files : j > k}) >= Keep}
RemoveOldest ==
    /\ writer.pc = "remove"
    /\ IF Oldest(writer.files) \subseteq live.disk
       THEN /\ live' = [live EXCEPT !.disk = @ \ Oldest(writer.files)]
            /\ writer' = [writer EXCEPT !.pc = "manifest", !.files = @ \ Oldest(writer.files)]
       ELSE /\ writer' = NoWriter        \* os.remove raises FileNotFoundError
            /\ UNCHANGED live
    /\ UNCHANGED <<hour, torn, backup>>

\* Mutant: the MANIFEST still lists what was removed.
KeepListed ==
    /\ writer.pc = "manifest"
    /\ live' = [live EXCEPT !.n = writer.n, !.w = hour, !.files = @ \cup writer.files]
    /\ writer' = NoWriter
    /\ UNCHANGED <<hour, torn, backup>>

\* The new MANIFEST, by fsync and rename.
WriteManifest ==
    /\ writer.pc = "manifest"
    /\ live' = [live EXCEPT !.n = writer.n, !.w = hour, !.files = writer.files]
    /\ writer' = NoWriter
    /\ UNCHANGED <<hour, torn, backup>>

\* The writer's pod dies between two steps.
Removed == writer.pc = "manifest" /\ ~(live.files \subseteq live.disk)
KillWriter ==
    /\ writer.pc # "idle"
    /\ torn' = (torn \/ Removed)
    /\ writer' = NoWriter
    /\ UNCHANGED <<hour, live, backup>>

\* Longhorn's recurring job: a snapshot, at any moment of the writer, and its backup.
\* cut is what no one can see: it was taken after a removal the MANIFEST ignores.
TakeBackup ==
    /\ backup.created # hour      \* once a day
    /\ backup' = [img |-> live, created |-> hour, cut |-> torn \/ Removed]
    /\ UNCHANGED <<hour, live, writer, torn>>

HourPasses ==
    /\ hour < MaxHours
    /\ hour' = hour + 1
    /\ UNCHANGED <<live, writer, torn, backup>>

CanaryNext == \/ WriteGeneration \/ RemoveOldest \/ WriteManifest
              \/ KillWriter \/ TakeBackup \/ HourPasses

-----------------------------------------------------------------------------
Contiguous(s) == \A x, y \in s : \A z \in x..y : z \in s
Greatest(s) == CHOOSE x \in s : \A y \in s : y <= x

\* Mutants: no file is opened; nothing but the MANIFEST's files may be there.
VerifyUnread(img, created) ==
    /\ img.files # {} /\ Greatest(img.files) = img.n /\ Contiguous(img.files)
    /\ img.disk \ img.files \subseteq {img.n + 1}
    /\ img.w <= created /\ created - img.w <= MaxGap
VerifyStrict(img, created) ==
    /\ img.files # {} /\ Greatest(img.files) = img.n /\ Contiguous(img.files)
    /\ img.files \subseteq img.disk \ img.bad
    /\ img.disk \subseteq img.files
    /\ img.w <= created /\ created - img.w <= MaxGap

\* verify: the MANIFEST ends at its counter and has no hole, every file it lists is
\* there and holds what its number says, at most the next generation is on disk
\* besides, and the newest is as old as the backup.
Verify(img, created) ==
    /\ img.files # {} /\ Greatest(img.files) = img.n /\ Contiguous(img.files)
    /\ img.files \subseteq img.disk \ img.bad
    /\ img.disk \ img.files \subseteq {img.n + 1}
    /\ img.w <= created /\ created - img.w <= MaxGap

-----------------------------------------------------------------------------
\* The next write finds every file it has to remove, unless a writer once died
\* between os.remove and the new MANIFEST; then no write ever succeeds again.
NextWriteSucceeds ==
    writer.pc = "idle" /\ ~torn => Oldest(live.files \cup {live.n + 1}) \subseteq live.disk

\* Verify accepts every backup of a canary written less than MaxGap before it,
\* but one taken between os.remove and the new MANIFEST, or after a death there.
NoFalseAlarm ==
    backup.img.n > 0 /\ ~backup.cut /\ backup.created - backup.img.w <= MaxGap
        => Verify(backup.img, backup.created)
=============================================================================
