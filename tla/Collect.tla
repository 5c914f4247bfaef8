------------------------------ MODULE Collect -------------------------------
(***************************************************************************)
(* The merge of the verification results (databases/verify/collect.py).    *)
(*                                                                         *)
(* A row is [ds, of, s, st, age]: dataset, the cluster of a cnpg row (the  *)
(* prefix of its message, empty for the others), store, status of the      *)
(* stage, and the age of the newest backup or Unknown.  Times are days;    *)
(* what was published is [last: dataset -> time of the last success, or 0, *)
(* ok: dataset -> "absent", "0" or "1"].                                   *)
(***************************************************************************)
EXTENDS Integers, Sequences

Unknown == -1
Stores == {"primary", "replica"}

\* Mutant: a skip is a skip.
PromoteNone(rows) == rows
\* promote_missing: a store without a copy (skip) while another one of the same
\* archive passed has lost it.
PromoteMissing(rows) ==
    {IF r.st = "skip" /\ \E q \in rows : q.ds = r.ds /\ q.of = r.of /\ q.st = "1"
     THEN [r EXCEPT !.st = "0"] ELSE r : r \in rows}

\* main, with the verdict of check_openbao or check_etcd on what a repository restored.
Judged(raw, intact) ==
    {IF r.st = "1" /\ r.ds \in {"openbao", "etcd"} /\ ~intact[r.ds][r.s] THEN [r EXCEPT !.st = "0"] ELSE r :
       r \in {q \in PromoteMissing(raw) : q.st # "skip"}}

\* build: the rows of a dataset are and-ed over its clusters and stores.
Seen(rows, d) == \E r \in rows : r.ds = d
Passed(rows, d) == Seen(rows, d) /\ \A r \in rows : r.ds = d => r.st = "1"
Ok(rows, d) == IF ~Seen(rows, d) THEN "absent" ELSE IF Passed(rows, d) THEN "1" ELSE "0"
\* The age that is published is the worst one that is known.
WorstAge(rows, d, s) == LET ages == {r.age : r \in {q \in rows : q.ds = d /\ q.s = s}} \ {Unknown}
                   IN IF ages = {} THEN Unknown ELSE CHOOSE a \in ages : \A b \in ages : b <= a
\* A dataset that did not pass, or has no row, keeps the last success that was read.
Build(rows, now, previous) ==
    [ok |-> [d \in DOMAIN previous |-> Ok(rows, d)],
     last |-> [d \in DOMAIN previous |-> IF Passed(rows, d) THEN now ELSE previous[d]]]

\* main --publish: a read of the previous results that fails is an empty one, a patch
\* that fails leaves what is there.
Publish(pub, rows, now, read, patched) ==
    IF patched THEN Build(rows, now, IF read THEN pub.last ELSE [d \in DOMAIN pub.last |-> 0]) ELSE pub

-----------------------------------------------------------------------------
(* One repository per store, day after day.  A day is [st, intact, read,    *)
(* patched]: what stage 1 says of each store, whether what it restored is   *)
(* intact, and the answers of kubectl.                                      *)
DayRows(d) == Judged({[ds |-> "etcd", of |-> "", s |-> s, age |-> Unknown, st |-> d.st[s]] : s \in Stores},
                     [ds \in {"etcd"} |-> d.intact])
\* What is published after each day, from the results start of before.
Days(h) ==
    LET after[n \in 0..Len(h.days)] ==
            IF n = 0 THEN [ok |-> [d \in {"etcd"} |-> "absent"], last |-> [d \in {"etcd"} |-> h.start]]
            ELSE LET d == h.days[n]
                 IN Publish(after[n-1], DayRows(d), h.start + n, d.read, d.patched)
    IN after

\* The last success that is published is never forgotten or set back, but by a run
\* that could not read what was published before it.
LastIsKept(h) ==
    \A n \in 1..Len(h.days) : Days(h)[n].last["etcd"] < Days(h)[n-1].last["etcd"] => ~h.days[n].read
\* It is the time of a day on which both stores held the repository, and intact.
LastWasWhole(h) ==
    \A n \in 1..Len(h.days) : Days(h)[n].last["etcd"] = h.start + n =>
        h.days[n].patched /\ \A s \in Stores : h.days[n].st[s] = "1" /\ h.days[n].intact[s]

DayCases == {d \in [st : [Stores -> {"1", "0", "skip"}], intact : [Stores -> BOOLEAN], read : BOOLEAN, patched : BOOLEAN] :
               (d.read \/ d.patched) /\ \A s \in Stores : d.st[s] # "1" => d.intact[s]}
Cases == [days : [1..2 -> DayCases], start : {0, 3}]
=============================================================================
