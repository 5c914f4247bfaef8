---------------------------- MODULE BarmanCheck -----------------------------
(***************************************************************************)
(* The verifier of one CNPG archive on one store (databases/verify/        *)
(* barman_check.py, check_cluster).                                        *)
(*                                                                         *)
(* An archive is [obj, info, young]: obj gives every object its content -  *)
(* absent, empty, corrupt, or good -, info what the backup.info of each    *)
(* base backup says, young that its oldest object is younger than 30 h.    *)
(* Segments are numbered along a timeline.  An object too large to be read *)
(* is one that is read: nothing here is above READ_DATA_MAX_BYTES.         *)
(***************************************************************************)
EXTENDS Integers, FiniteSets, FiniteSetsExt

CONSTANTS Ids,          \* base backups, in the order of their names
          Timelines, Segments,
          SampleWals    \* WAL_SAMPLE

Data(b) == <<"data", b>>
Info(b) == <<"info", b>>
Wal(t, n) == <<"wal", t, n>>
History(t) == <<"history", t>>
Objects == {Data(b) : b \in Ids} \cup {Info(b) : b \in Ids}
           \cup {Wal(t, n) : t \in Timelines, n \in Segments} \cup {History(t) : t \in Timelines}
Contents == {"absent", "empty", "corrupt", "good"}

Has(a, o) == a.obj[o] # "absent"

-----------------------------------------------------------------------------
\* parse_info: the base backups whose backup.info reads, and says DONE.
Done(a) == {b \in Ids : a.obj[Info(b)] = "good" /\ a.info[b].status = "DONE"}

\* The segments of timeline t that are archived (mine), and the ones that are read:
\* the two ends of the backup, the newest, and every k-th of them (SAMPLE_WALS).
Mine(a, t) == {n \in Segments : Has(a, Wal(t, n))}
Sampled(a, t, i) ==
    LET mine == Mine(a, t)
        rank(n) == Cardinality({m \in mine : m < n})
        size == Cardinality(mine) \div SampleWals
        step == IF size > 1 THEN size ELSE 1
    IN {i.begin, i.end, Max(mine)}
       \cup {n \in mine : rank(n) % step = 0 /\ rank(n) \div step < SampleWals}

\* Mutant: the verifier does not look whether the end of the backup is archived.
WalEarlyEnd(a, i) ==
    LET mine == Mine(a, i.tl)
        later == {t \in Timelines : t > i.tl /\ \E u \in Timelines : u >= t /\ Mine(a, u) # {}}
    IN /\ mine # {}
       /\ \A n \in i.begin..Max(mine) : n \in mine /\ a.obj[Wal(i.tl, n)] # "empty"
       /\ \A t \in later : Has(a, History(t))
       /\ \A n \in Sampled(a, i.tl, i) \cap mine : a.obj[Wal(i.tl, n)] # "corrupt"

\* The WAL of the backup i: archived to its end at least, without a hole or an empty
\* segment up to the newest of its timeline, with the history of every later one.
WalContinuous(a, i) ==
    LET mine == Mine(a, i.tl)
        later == {t \in Timelines : t > i.tl /\ \E u \in Timelines : u >= t /\ Mine(a, u) # {}}
    IN /\ mine # {} /\ Max(mine) >= i.end
       /\ \A n \in i.begin..Max(mine) : n \in mine /\ a.obj[Wal(i.tl, n)] # "empty"
       /\ \A t \in later : Has(a, History(t))
       /\ \A n \in Sampled(a, i.tl, i) \cap mine : a.obj[Wal(i.tl, n)] # "corrupt"

\* check_cluster: the newest completed base backup decides; without one an archive
\* that is empty or young is a skip.
CheckCluster(a) ==
    IF Done(a) = {}
    THEN IF a.young \/ \A o \in Objects : ~Has(a, o) THEN "skip" ELSE "0"
    ELSE LET b == Max(Done(a))
         IN IF a.obj[Data(b)] = "good" /\ WalContinuous(a, a.info[b]) THEN "1" ELSE "0"

-----------------------------------------------------------------------------
(* What PostgreSQL does with an archive: the reference.                    *)

\* Replay from a backup goes on while the next segment is there and reads.
Replayed(a, b) ==
    {n \in Segments : n >= a.info[b].begin /\
        \A m \in a.info[b].begin..n : a.obj[Wal(a.info[b].tl, m)] = "good"}
Restorable(a) == \E b \in Done(a) : a.obj[Data(b)] = "good" /\ a.info[b].end \in Replayed(a, b)
\* A corrupt segment none of the samples is.
Unseen(a) == \E b \in Done(a), n \in Segments :
                a.obj[Wal(a.info[b].tl, n)] = "corrupt" /\ n \notin Sampled(a, a.info[b].tl, a.info[b])
=============================================================================
