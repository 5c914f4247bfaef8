----------------------------- MODULE CopyJudge ------------------------------
(***************************************************************************)
(* What the database restore tests conclude (restore_cnpg.py): whether     *)
(* there is anything to restore yet, the row a point in time recovery aims *)
(* at, and the comparison of the restored canary with the live one.        *)
(*                                                                         *)
(* A database writes the rows of its canary at the times of a line, and    *)
(* the hash of a row is the line up to it: SHA-256 over the hash before,   *)
(* the counter and the time does not collide.  A copy of a database that   *)
(* was restored in its turn is a line that leaves the first one.  Times    *)
(* are half seconds; rows, budgets and ages are brought down to a few.     *)
(***************************************************************************)
EXTENDS Integers, Sequences, FiniteSets, SequencesExt

CONSTANTS Budget,       \* LAG_BUDGET of a store
          MinAge,       \* PITR_MIN_AGE
          AfterBackup,  \* PITR_AFTER_BACKUP
          Grace,        \* FIRST_BACKUP_GRACE
          Lines         \* bound: the lines databases may have

NoStop == -1            \* a completed Backup without status.stoppedAt
NoRow == [c |-> 0, t |-> 0, sha |-> <<>>]

Row(line, c) == [c |-> c, t |-> line[c], sha |-> SubSeq(line, 1, c)]
Rows(line, a, b) == [k \in 1..(b - a + 1) |-> Row(line, a + k - 1)]
ChainSha(prev, c, t) == IF Len(prev) = c - 1 THEN Append(prev, t) ELSE <<NoStop>>

\* chain_errors: the first row has no predecessor, its own hash is not computed.
ChainErrors(rows) ==
    \E k \in 2..Len(rows) : \/ rows[k].c # rows[k-1].c + 1
                            \/ rows[k].sha # ChainSha(rows[k-1].sha, rows[k].c, rows[k].t)

-----------------------------------------------------------------------------
\* first_backup_wait over completed_backups: go on, skip or fail.
FirstBackup(stops, created, now) ==
    IF stops # {} THEN "go" ELSE IF now - created > Grace THEN "fail" ELSE "skip"

\* Mutant: the newest row whose WAL may not be archived yet.
PickYoung(rows, stops, now) ==
    IF rows = <<>> THEN NoRow ELSE rows[Len(rows)]
\* pick_pitr_target: the newest row that is old enough, and after the last base
\* backup when any Backup tells when it stopped.
PickPitrTarget(rows, stops, now) ==
    LET known == stops \ {NoStop}
        good(r) == r.t <= now - MinAge /\ \A s \in known : r.t >= s + AfterBackup
        ok == {k \in 1..Len(rows) : good(rows[k])}
    IN IF ok = {} THEN NoRow ELSE rows[CHOOSE k \in ok : \A j \in ok : j <= k]

\* target_time: the second of the row plus two.
TargetTime(t) == t - (t % 2) + 4

\* Mutant: a copy that is ahead need not hold the newest live row.
AheadAnyway(src, res) == res[Len(res)].c > src[Len(src)].c
\* The copy goes on after the live snapshot and still holds its newest row.
Ahead(src, res) ==
    LET newest == src[Len(src)]
    IN /\ res[Len(res)].c > newest.c
       /\ \E k \in 1..Len(res) : res[k].c = newest.c /\ res[k].sha = newest.sha

\* compare.  tables: the restored database has any; emptied: a table with more than
\* 1000 live rows came back with none; want: the counter of the target, in mode pitr.
Compare(src, res, tables, emptied, store, mode, want) ==
    /\ tables /\ ~emptied
    /\ res # <<>> /\ ~ChainErrors(res)
    /\ LET last == res[Len(res)]
           live == {k \in 1..Len(src) : src[k].c = last.c}
       IN /\ \A k \in live : src[k].sha = last.sha
          /\ live = {} => Ahead(src, res)
          /\ IF mode = "pitr" THEN last.c = want
             ELSE \A k \in live : src[Len(src)].t - src[k].t <= Budget[store]

-----------------------------------------------------------------------------
(* A case: the live database (its line and the rows it holds), the archive  *)
(* (a line, how many of its rows are archived, the first one kept), damage  *)
(* to what is restored from it, the Backups and the clock.                  *)

\* PostgreSQL replays the commits up to the target, a commit following its row at once.
Recovered(i, target) ==
    LET n == Cardinality({c \in 1..i.archived : i.mode = "latest" \/ i.line[c] <= target})
    IN Rows(i.line, i.first, n)
Damaged(rows, d) ==
    CASE d.what = "hash" -> [k \in 1..Len(rows) |-> IF k = d.at THEN [rows[k] EXCEPT !.sha = <<NoStop>>] ELSE rows[k]]
      [] d.what = "time" -> [k \in 1..Len(rows) |-> IF k = d.at THEN [rows[k] EXCEPT !.t = @ + 1] ELSE rows[k]]
      [] d.what = "hole" -> [k \in 1..(Len(rows) - 1) |-> IF k < d.at THEN rows[k] ELSE rows[k+1]]
      [] OTHER -> rows

Source(i) == Rows(i.live, i.from, i.written)
Target(i) == PickPitrTarget(Source(i), i.stops, i.now)
Restored(i) == Damaged(Recovered(i, TargetTime(Target(i).t)), i.damage)

\* run_one, between its calls.
Verdict(i) ==
    LET first == FirstBackup(i.stops, i.created, i.now)
    IN IF i.written = 0 THEN "skip"
       ELSE IF first # "go" THEN first
       ELSE IF i.mode = "pitr" /\ Target(i) = NoRow THEN "skip"
       ELSE IF Compare(Source(i), Restored(i), i.tables, i.emptied, i.store, i.mode, Target(i).c)
            THEN "pass" ELSE "fail"

-----------------------------------------------------------------------------
\* The restored rows that were live when the snapshot was taken are the live ones, in
\* the first of them but for the time, which no hash before it covers.
Genuine(i) ==
    \A k \in 1..Len(Restored(i)) : Restored(i)[k].c <= i.written =>
        LET r == Restored(i)[k] IN /\ r.sha = SubSeq(i.live, 1, r.c)
                                   /\ k > 1 => r.t = i.live[r.c]
                                   /\ k > 1 => r.c = Restored(i)[k-1].c + 1
Newest(i) == Restored(i)[Len(Restored(i))].c
Fresh(i) == i.mode = "latest" /\ Newest(i) < i.written =>
                i.live[i.written] - i.live[Newest(i)] <= Budget[i.store]

\* A pass: the copy is the history of this database and nothing else, fresh enough,
\* or ends exactly at the target.
PassIsGenuine(i) ==
    Verdict(i) = "pass" => /\ i.tables /\ ~i.emptied /\ Restored(i) # <<>>
                           /\ Genuine(i) /\ Fresh(i)
                           /\ i.mode = "pitr" => Newest(i) = Target(i).c

\* A failure: the archive is another line, damaged, late, or without a base backup
\* though the Cluster is old.  In mode pitr the WAL of the last MinAge may be missing
\* from an archive that is late, and rows two seconds apart cannot be told.
Apart(line) == \A c \in 2..Len(line) : line[c] - line[c-1] > 4
Sound(i) ==
    /\ i.tables /\ ~i.emptied /\ i.damage.what = "none" /\ i.line = i.live
    /\ i.stops = {} => i.now - i.created <= Grace
    /\ i.archived >= i.first /\ i.first <= i.from
    /\ IF i.mode = "pitr"
       THEN Apart(i.line) /\ \A c \in 1..i.written : i.line[c] <= i.now - MinAge => i.archived >= c
       ELSE i.written > 0 /\ i.archived < i.written =>
                /\ i.archived >= i.from
                /\ i.live[i.written] - i.live[i.archived] <= Budget[i.store]
NoFalseFailure(i) == Sound(i) => Verdict(i) # "fail"

\* The cases: damage is tried in mode latest, the Backups and the clock in mode pitr.
NoDamage == [what |-> "none", at |-> 0]
Cases ==
    {[mode |-> "latest", store |-> s, live |-> l, from |-> f, written |-> n, line |-> m,
      archived |-> k, first |-> f, damage |-> d, tables |-> TRUE, emptied |-> FALSE,
      stops |-> {0}, created |-> 0, now |-> 60] :
        s \in DOMAIN Budget, l \in Lines, f \in 1..2, n \in 3..4, m \in Lines, k \in 1..5,
        d \in {NoDamage} \cup [what : {"hash", "time", "hole"}, at : 1..3]}
    \cup
    {[mode |-> o, store |-> "primary", live |-> l, from |-> 1, written |-> n, line |-> l,
      archived |-> k, first |-> 1, damage |-> NoDamage, tables |-> t, emptied |-> e,
      stops |-> b, created |-> a, now |-> w] :
        o \in {"latest", "pitr"}, l \in Lines, n \in {0, 2, 4, 5}, k \in {0, 3, 5}, t, e \in BOOLEAN,
        b \in {{}, {NoStop}, {5}, {5, 22}}, a \in {0, 40}, w \in {51, 60}}

-----------------------------------------------------------------------------
(* What snapshot.sql prints and parse_snapshot reads.  A line is the mark   *)
(* of a block or the fields of a row; -1 is a field that is no number.  The *)
(* output may end anywhere, in the middle of a field too.                   *)

NoText == -1
Mark(block) == [mark |-> block, f |-> <<>>]
Line(f) == [mark |-> "", f |-> f]
Counted(rows, t, n) == [u \in DOMAIN rows \cup {t} |-> IF u = t THEN n ELSE rows[u]]

\* Mutant: a row of the canary is read without its hash.
ParseShort(text) ==
    LET read(out, l) ==
            IF l.mark # "" THEN [out EXCEPT !.block = l.mark]
            ELSE IF out.block = "canary" /\ Len(l.f) > 1 THEN [out EXCEPT !.canary = Append(@, [c |-> l.f[1], t |-> l.f[2], sha |-> <<>>])]
            ELSE out
    IN FoldLeft(read, [block |-> "", tables |-> {}, rows |-> <<>>, canary |-> <<>>], text)

\* parse_snapshot: a row of the wrong shape is skipped; the end mark is not asked for.
ParseSnapshot(text) ==
    LET read(out, l) ==
            IF l.mark # "" THEN [out EXCEPT !.block = l.mark]
            ELSE IF out.block = "tables" THEN [out EXCEPT !.tables = @ \cup {l.f[1]}]
            ELSE IF out.block = "rows" /\ Len(l.f) = 2 /\ l.f[2] # NoText
                 THEN [out EXCEPT !.rows = Counted(@, l.f[1], l.f[2])]
            ELSE IF out.block = "canary" /\ Len(l.f) = 3 /\ l.f[1] # NoText
                 THEN [out EXCEPT !.canary = Append(@, [c |-> l.f[1], t |-> l.f[2], sha |-> l.f[3]])]
            ELSE out
    IN FoldLeft(read, [block |-> "", tables |-> {}, rows |-> <<>>, canary |-> <<>>], text)

\* snapshot.sql, of a database with tables (name to row count) and a canary.
Snapshot(tables, rows) ==
    LET names == SetToSeq(DOMAIN tables)
    IN  <<Mark("tables")>> \o [k \in DOMAIN names |-> Line(<<names[k]>>)]
        \o <<Mark("rows")>> \o [k \in DOMAIN names |-> Line(<<names[k], tables[names[k]]>>)]
        \o <<Mark("canary")>> \o [k \in DOMAIN rows |-> Line(<<rows[k].c, rows[k].t, rows[k].sha>>)]
        \o <<Mark("end")>>

\* The output ends after n lines and k fields, the last of which is cut if half.
HalfOf(x, canary, k) ==
    IF ~canary THEN (IF k = 1 THEN "cut" ELSE IF x < 10 THEN NoText ELSE x \div 10)
    ELSE IF k = 3 THEN <<NoStop>> ELSE NoText
CutAt(text, n, k, half) ==
    LET f == text[n + 1].f
        canary == n > 0 /\ \E j \in 1..n : text[j].mark = "canary"
        last == IF half THEN HalfOf(f[k], canary, k) ELSE f[k]
    IN  IF n = Len(text) \/ k = 0 THEN SubSeq(text, 1, n)
        ELSE SubSeq(text, 1, n) \o <<Line(SubSeq(f, 1, k - 1) \o <<last>>)>>

\* Whatever is lost of the output, the canary read of it is the beginning of the
\* database's, up to a last row whose hash no chain holds; a table with rows is never
\* read as an empty one.  An output that is whole is read as it was printed.
CutIsNeverForged(i) ==
    LET text == Snapshot(i.tables, i.rows)
        out == ParseSnapshot(CutAt(text, i.n, i.k, i.half))
        read == Len(out.canary)
    IN  /\ read <= Len(i.rows)
        /\ \A k \in 1..read : \/ out.canary[k] = i.rows[k]
                              \/ k = read /\ out.canary[k].sha = <<NoStop>>
        /\ \A t \in DOMAIN out.rows : out.rows[t] = 0 => i.tables[t] = 0
        /\ i.n = Len(text) => /\ out.canary = i.rows /\ out.rows = i.tables
                             /\ out.tables = DOMAIN i.tables

SnapshotCases ==
    {i \in [tables : [{"logs", "users"} -> {0, 7, 2000}], rows : {Rows(l, 2, n) : l \in Lines, n \in 1..4},
            n : 0..12, k : 0..3, half : BOOLEAN] :
        LET text == Snapshot(i.tables, i.rows)
        IN  i.n <= Len(text) /\ (IF i.n = Len(text) THEN i.k = 0 ELSE i.k <= Len(text[i.n + 1].f)) /\ (i.k = 0 => ~i.half)}

-----------------------------------------------------------------------------
(* The copy: where it is recovered from, and that it is admitted.           *)

Barman == "barman-cloud.cloudnative-pg.io"
NoServer == ""

\* Mutant: any entry of the plugin, a recovery source too.
AnyServer(source) ==
    LET named == SelectSeq(source.plugins, LAMBDA p : p.name = Barman /\ p.server # NoServer)
    IN IF named = <<>> THEN source.name ELSE named[1].server

\* archive_server: the generation the live Cluster archives under now.
ArchiveServer(source) ==
    LET named == SelectSeq(source.plugins, LAMBDA p : p.name = Barman /\ p.archiver /\ p.server # NoServer)
    IN IF named = <<>> THEN source.name ELSE named[1].server

\* recovery_manifest: of the live Cluster it takes the parameters only.
RecoveryManifest(source, store, mode) ==
    [scratch |-> TRUE, instances |-> 1, plugins |-> <<>>, backup |-> FALSE, synchronous |-> FALSE,
     parameters |-> source.parameters, recovery |-> <<source.name, store, ArchiveServer(source)>>,
     targeted |-> mode = "pitr"]

\* The admission policy restore-test-scratch-only.
Admitted(c) ==
    /\ c.scratch /\ c.recovery # <<>> /\ c.instances = 1 /\ ~c.backup /\ ~c.synchronous
    /\ \A k \in DOMAIN c.plugins : ~c.plugins[k].archiver

\* The plugin: an archiver writes to its server name, else to the Cluster's.
WritesTo(source) ==
    IF \E k \in DOMAIN source.plugins : source.plugins[k].archiver /\ source.plugins[k].server # NoServer
    THEN {source.plugins[k].server : k \in {j \in DOMAIN source.plugins : source.plugins[j].archiver}}
    ELSE {source.name}

\* Whatever generations a Cluster went through, the copy is recovered from the archive it
\* writes now, has the parameters a standby of it needs, and is admitted though the
\* Cluster itself, which archives, is not.
CopiesTheLiveArchive(i) ==
    LET copy == RecoveryManifest(i.source, i.store, i.mode)
    IN  /\ copy.recovery[3] \in WritesTo(i.source)
        /\ copy.parameters = i.source.parameters /\ copy.targeted = (i.mode = "pitr")
        /\ Admitted(copy)
        /\ (\E k \in DOMAIN i.source.plugins : i.source.plugins[k].archiver) =>
              ~Admitted([copy EXCEPT !.plugins = i.source.plugins])

\* At most one plugin archives: CNPG admits no second one.
Plugins == {p \in [name : {Barman, "other"}, archiver : BOOLEAN, server : {NoServer, "db", "db-g2"}] :
              p.name = "other" => ~p.archiver /\ p.server = NoServer}
ManifestCases ==
    [source : [name : {"db"}, parameters : SUBSET {"max_connections"},
               plugins : {s \in BoundedSeq(Plugins, 3) :
                            \A j, k \in DOMAIN s : s[j].archiver /\ s[k].archiver => j = k}],
     store : DOMAIN Budget, mode : {"latest", "pitr"}]
=============================================================================
