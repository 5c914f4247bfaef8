------------------------------ MODULE DumpLoad ------------------------------
(***************************************************************************)
(* The dump restore test, from one day to the next (dump_load.py, and      *)
(* restore_cnpg.py --mode dump): the latest dump of one store is loaded    *)
(* into a throwaway server and judged, a repository that does not exist is *)
(* a skip unless this dump passed before, and the result is published with *)
(* the time of the last pass.  What was published is the memory of the     *)
(* test; reading it or writing it may fail.                                *)
(*                                                                         *)
(* A day is [store, loads, newest, read, patched]: what stage 1 left of    *)
(* the repository, whether pg_restore loads the dump, the day of its       *)
(* newest canary row (0 when it has no table, no row or a broken chain),   *)
(* and whether kubectl answers.                                            *)
(***************************************************************************)
EXTENDS Integers, Sequences

CONSTANTS MaxAge,   \* DUMP_MAX_AGE, in days
          MaxDays   \* bound: days in a row

\* check_dump of a dump that was loaded.
CheckDump(newest, today) == newest > 0 /\ today - newest <= MaxAge

\* load_one
LoadOne(d, today) ==
    CASE d.store = "absent" -> "skip"
      [] d.store \in {"error", "missing"} -> "fail"
      [] d.store = "restored" -> IF d.loads /\ CheckDump(d.newest, today) THEN "pass" ELSE "fail"

\* Mutant: results that could not be read look like none.
DumpGoneUnread(ok, d, last) == IF ok = "skip" /\ last > 0 THEN "fail" ELSE ok
\* dump_gone: a skip is a failure when this dump passed before, or nobody can tell.
DumpGone(ok, d, last) == IF ok = "skip" /\ (~d.read \/ last > 0) THEN "fail" ELSE ok

\* main --mode dump: what is published after a day, [ok, last, shown]: shown is what
\* the run itself concluded, published or not.
Day(pub, d, today) ==
    LET known == IF d.read THEN pub.last ELSE 0
        ok == DumpGone(LoadOne(d, today), d, known)
        last == IF ok = "pass" THEN today ELSE known
    IN IF d.patched THEN [ok |-> ok, last |-> last, shown |-> ok] ELSE [pub EXCEPT !.shown = ok]

History(days) ==
    LET after[n \in 0..Len(days)] ==
            IF n = 0 THEN [ok |-> "none", last |-> 0, shown |-> "none"] ELSE Day(after[n-1], days[n], n)
    IN after

-----------------------------------------------------------------------------
\* A dump that passed, and was published, never ends as a skip when its repository is
\* gone - unless the published results could not be read on a day in between: the run
\* of that day fails, but what it publishes has forgotten the pass.
LossIsLoud(days) ==
    \A n \in 1..Len(days) : days[n].store = "absent" /\ History(days)[n].shown = "skip" =>
        \A m \in 1..(n-1) : History(days)[m].shown = "pass" /\ days[m].patched =>
            \E k \in (m+1)..(n-1) : ~days[k].read

\* Before the first dump nothing fails, as long as the results can be read.
YoungIsQuiet(days) ==
    \A n \in 1..Len(days) :
        (\A m \in 1..n : days[m].store = "absent" /\ days[m].read) => History(days)[n].shown = "skip"

\* A pass is a dump that loads, whose chain holds and that is young.
PassIsLoaded(days) ==
    \A n \in 1..Len(days) : History(days)[n].shown = "pass" =>
        /\ days[n].store = "restored" /\ days[n].loads
        /\ days[n].newest \in (n - MaxAge)..n

Kubectl == {a \in [read : BOOLEAN, patched : BOOLEAN] : a.read \/ a.patched}
Dumps(n) == [store : {"absent", "error", "missing"}, loads : {TRUE}, newest : {0}]
            \cup [store : {"restored"}, loads : {TRUE}, newest : 0..n]
            \cup [store : {"restored"}, loads : {FALSE}, newest : {n}]
Today(n) == {[store |-> d.store, loads |-> d.loads, newest |-> d.newest, read |-> a.read, patched |-> a.patched] :
               d \in Dumps(n), a \in Kubectl}
Cases == {days \in [1..MaxDays -> Today(MaxDays)] : \A n \in 1..MaxDays : days[n].newest <= n}
=============================================================================
