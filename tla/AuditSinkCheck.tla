--------------------------- MODULE AuditSinkCheck ---------------------------
(***************************************************************************)
(* The checker of an audit sink (observability-audit-sink/scripts/         *)
(* check.py): every cycle lists the nodes of the sink, the day             *)
(* repositories of each, and the snapshots of its two newest days; a       *)
(* scrape shows the newest object known of each node and its age.          *)
(*                                                                         *)
(* A sink gives each node, per day, how many snapshots it holds: -1 for a  *)
(* day that has no repository yet.  Snapshot n of day d is written at the  *)
(* time d * PerDay + n.  A cycle is [sink, fails]: the lists that fail.    *)
(***************************************************************************)
EXTENDS Integers, Sequences

CONSTANTS Nodes, Days, PerDay   \* bounds: nodes, days, snapshots a day (less than PerDay)

NoTime == -1
\* aws_list, children: the day repositories of a node, when the list answers.
Repositories(sink, node) == {d \in Days : sink[node][d] >= 0}
\* The names sort as the days: today and yesterday.
Last2(days) == {d \in days : ~\E e, f \in days : d < e /\ e < f}
Snapshots(sink, node, d) == {d * PerDay + n : n \in 1..sink[node][d]}
Newest(times) == IF times = {} THEN NoTime ELSE CHOOSE t \in times : \A u \in times : u <= t

\* Mutant: a failed list of a day is an empty one.
AnswersAlways(c) ==
    LET listed == {n \in Nodes : Repositories(c.sink, n) # {} /\ {<<"top">>, <<"days", n>>} \cap c.fails = {}}
        read(n) == {d \in Last2(Repositories(c.sink, n)) : <<"snapshots", n, d>> \notin c.fails}
    IN [ok |-> c.fails \ ({"snapshots"} \X Nodes \X Days) = {},
        nodes |-> [n \in listed |-> Newest(UNION {Snapshots(c.sink, n, d) : d \in read(n)})]]
\* check: the nodes whose days could be listed, with the newest of the objects that
\* could; not ok as soon as one list failed.
Check(c) ==
    LET listed == IF <<"top">> \in c.fails THEN {} ELSE {n \in Nodes : Repositories(c.sink, n) # {}}
        days(n) == Last2(Repositories(c.sink, n))
        read(n) == {d \in days(n) : <<"snapshots", n, d>> \notin c.fails}
    IN [ok |-> /\ <<"top">> \notin c.fails
               /\ \A n \in listed : <<"days", n>> \notin c.fails /\ read(n) = days(n),
        nodes |-> [n \in {m \in listed : <<"days", m>> \notin c.fails} |->
                     Newest(UNION {Snapshots(c.sink, n, d) : d \in read(n)})]]

\* Mutant: a node without an answer is forgotten.
Replaced(known, nodes) == nodes
\* loop: what a cycle found replaces what was known, but never by nothing.
Merged(known, nodes) ==
    [n \in DOMAIN known \cup DOMAIN nodes |->
       IF n \in DOMAIN nodes /\ (nodes[n] # NoTime \/ n \notin DOMAIN known) THEN nodes[n] ELSE known[n]]

\* STATE after each cycle of the process, from its start on.
History(cycles) ==
    LET after[k \in 0..Len(cycles)] ==
            IF k = 0 THEN [ok |-> TRUE, known |-> <<>>]
            ELSE LET res == Check(cycles[k])
                 IN [ok |-> res.ok, known |-> Merged(after[k-1].known, res.nodes)]
    IN after

\* metrics: the age of a node, as of now.
Shown(state) == {n \in DOMAIN state.known : state.known[n] # NoTime}
Age(state, n, now) == IF now > state.known[n] THEN now - state.known[n] ELSE 0

-----------------------------------------------------------------------------
Truth(c, n) == Newest(UNION {Snapshots(c.sink, n, d) : d \in Days})

\* A check that is ok shows every node that delivered on one of its two newest days,
\* with its newest object: the age is the real one.  (A node whose two newest
\* repositories were made and never written to is not shown by a checker that started
\* since.)
OkIsTrue(cycles) ==
    LET s == History(cycles)[Len(cycles)]
        c == cycles[Len(cycles)]
        delivered(n) == \E d \in Last2(Repositories(c.sink, n)) : c.sink[n][d] > 0
    IN s.ok => \A n \in Nodes : delivered(n) => n \in Shown(s) /\ s.known[n] = Truth(c, n)

\* No node that was shown vanishes, and the newest object shown of it is never set
\* back, but when the list of the newest day failed (and the one before did not).
AgeKeepsGrowing(cycles) ==
    \A k \in 1..Len(cycles) : \A n \in Shown(History(cycles)[k-1]) :
        LET was == History(cycles)[k-1]   is == History(cycles)[k]
        IN /\ n \in Shown(is)
           /\ is.known[n] <= Truth(cycles[k], n)
           /\ is.known[n] < was.known[n] =>
                <<"snapshots", n, Newest(Repositories(cycles[k].sink, n))>> \in cycles[k].fails

\* The days of a node fill one after the other and never shrink.
Sinks == [Nodes -> {s \in [Days -> -1..(PerDay - 1)] : \A d, e \in Days : d < e /\ s[e] >= 0 => s[d] >= 0}]
Grown(s, t) == \A n \in Nodes : \A d \in Days : s[n][d] <= t[n][d]
Fails == {{}} \cup {{f} : f \in {<<"top">>} \cup {<<"days", n>> : n \in Nodes}
                                \cup ({"snapshots"} \X Nodes \X Days)}
Cases == {c \in {<<[sink |-> s, fails |-> {}], [sink |-> t, fails |-> f]>> :
                    s \in Sinks, t \in Sinks, f \in Fails} : Grown(c[1].sink, c[2].sink)}
=============================================================================
