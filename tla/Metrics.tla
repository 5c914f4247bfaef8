------------------------------ MODULE Metrics -------------------------------
(***************************************************************************)
(* What is made of metrics: the exposition of the published files          *)
(* (restore/serve_metrics.py), the metrics the alerts read                 *)
(* (dev/alert-metrics.py, dev/test-alert-metrics.py), and the row of a     *)
(* benchmark (cnpg-profile-bench/db-bench-parse.py).                       *)
(***************************************************************************)
EXTENDS Integers, Sequences, FiniteSets

\* The elements of s whose position Test accepts.
At(s, Test(_)) == LET k == SelectSeq([i \in DOMAIN s |-> i], Test) IN [i \in DOMAIN k |-> s[k[i]]]
Concat(ss) == LET upto[n \in 0..Len(ss)] == IF n = 0 THEN <<>> ELSE upto[n-1] \o ss[n] IN upto[Len(ss)]

-----------------------------------------------------------------------------
(* merge: lines [form, name, from]; a directory is the sequence of its files, by name *)

Lines(dirs) == Concat([i \in DOMAIN dirs |-> IF dirs[i].read THEN Concat(dirs[i].files) ELSE <<>>])
\* Mutant: a name without comments of its own is not listed.
OrderOfMeta(ls) ==
    LET named == SelectSeq(ls, LAMBDA l : l.form \in {"HELP", "TYPE"})
        firsts == At(named, LAMBDA j : \A h \in 1..(j-1) : named[h].name # named[j].name)
    IN [i \in DOMAIN firsts |-> firsts[i].name]
\* The names, as they are first met.
Order(ls) ==
    LET named == SelectSeq(ls, LAMBDA l : l.form # "other")
        firsts == At(named, LAMBDA j : \A h \in 1..(j-1) : named[h].name # named[j].name)
    IN [i \in DOMAIN firsts |-> firsts[i].name]
\* The first HELP, the first TYPE, every sample.
Merge(dirs) ==
    LET ls == Lines(dirs)
        of(name, form) == SelectSeq(ls, LAMBDA l : l.form = form /\ l.name = name)
        first(s) == IF s = <<>> THEN <<>> ELSE <<s[1]>>
        order == Order(ls)
    IN Concat([i \in DOMAIN order |-> first(of(order[i], "HELP")) \o first(of(order[i], "TYPE")) \o of(order[i], "sample")])

\* The exposition holds every sample of every directory that could be read, as often and in
\* the order it was published; the lines of a metric stand together, its HELP and TYPE
\* once and before its samples.
ExpositionWhole(c) ==
    LET out == Merge(c.dirs)
        samples(s, n) == SelectSeq(s, LAMBDA l : l.form = "sample" /\ l.name = n)
    IN /\ \A n \in {"m", "w"} : samples(out, n) = samples(Lines(c.dirs), n)
       /\ \A i, j \in DOMAIN out : i < j /\ out[i].name = out[j].name =>
            /\ \A k \in i..j : out[k].name = out[i].name
            /\ out[j].form = "sample" \/ (out[i].form = "HELP" /\ out[j].form = "TYPE")
       /\ \A l \in {Lines(c.dirs)[i] : i \in DOMAIN Lines(c.dirs)} : l.form # "other" =>
            \E k \in DOMAIN out : out[k].form = l.form /\ out[k].name = l.name

-----------------------------------------------------------------------------
(* metrics: an expression is a sequence of words and signs; ' opens and closes a string *)

Signs == {"(", ")", "{", "}", "[", "]", "'", "=", ">"}
Keywords == {"and", "by", "without", "on", "group_left", "offset"}
Grouping == {"by", "without", "on", "group_left"}
Numbers == {"5m", "2"}
\* Where a stretch from an open sign to the next close sign lies.
Between(e, open, close) ==
    {p \in (DOMAIN e) \X (DOMAIN e) :
       p[1] < p[2] /\ e[p[1]] = open /\ e[p[2]] = close /\ \A k \in (p[1]+1)..(p[2]-1) : e[k] \notin {open, close}}
Strings(e) == {p \in Between(e, "'", "'") : Cardinality({k \in 1..(p[1]-1) : e[k] = "'"}) % 2 = 0}
Groups(e) == {<<p[1] - 1, p[2]>> : p \in {q \in Between(e, "(", ")") : q[1] > 1 /\ e[q[1]-1] \in Grouping}}
Without(e, stretches) == At(e, LAMBDA i : \A p \in stretches : i < p[1] \/ p[2] < i)
\* Mutant: strings are left in, and end a matcher they hold a brace in.
AlertMetricsStringsLast(expr) ==
    LET b == Without(expr, Between(expr, "{", "}"))
        s == Without(b, Strings(b))
        g == Without(s, Groups(s))
        r == Without(g, Between(g, "[", "]"))
        e == SelectSeq(r, LAMBDA w : w \notin Numbers)
    IN {e[i] : i \in {j \in DOMAIN e : e[j] \notin Signs \cup Keywords /\ (j = Len(e) \/ e[j+1] # "(")}}
\* Strings, matchers, groupings, ranges and numbers go, in that order; of the words that stay
\* those no parenthesis follows are metrics. A number with an exponent leaves its e behind.
AlertMetrics(expr) ==
    LET s == Without(expr, Strings(expr))
        b == Without(s, Between(s, "{", "}"))
        g == Without(b, Groups(b))
        r == Without(g, Between(g, "[", "]"))
        e == SelectSeq(r, LAMBDA w : w \notin Numbers)
    IN {e[i] : i \in {j \in DOMAIN e : e[j] \notin Signs \cup Keywords /\ (j = Len(e) \/ e[j+1] # "(")}}
\* rules: of two alerts of one name the last is kept.
Rules(alerts) == {alerts[i] : i \in {j \in DOMAIN alerts : \A k \in (j+1)..Len(alerts) : alerts[k].name # alerts[j].name}}
Read(alerts) == UNION {AlertMetrics(a.expr) : a \in Rules(alerts)}
\* problems; the source `scrape` is every scrape's own.
Problems(read, catalogue, scrapes, doc) ==
    {<<"not catalogued", m>> : m \in read \ DOMAIN catalogue}
    \cup {<<"not read", m>> : m \in DOMAIN catalogue \ read}
    \cup {<<"status", m>> : m \in {x \in DOMAIN catalogue : catalogue[x].status \notin {"existing", "UNVERIFIED"}}}
    \cup {<<"no scrape", m>> : m \in {x \in DOMAIN catalogue : catalogue[x].source # "scrape" /\ catalogue[x].source \notin scrapes}}
    \cup {<<"not in the document", m>> : m \in {x \in DOMAIN catalogue : catalogue[x].status = "UNVERIFIED" /\ x \notin doc}}

\* Of an expression every metric it reads is found, and nothing else but the e of a number.
MetricsAreThose(x) ==
    LET found == AlertMetrics(x.expr)
    IN x.reads \subseteq found /\ found \ x.reads \subseteq {"1e9"}
\* Rules that pass: each metric each alert reads comes from a scrape there is, and one no
\* cluster has shown yet is in the document of what to look at.
NoBlindRule(c) ==
    LET read == Read(c.alerts)
    IN Problems(read, c.catalogue, c.scrapes, c.doc) = {} <=>
         /\ UNION {c.alerts[i].reads : i \in DOMAIN c.alerts} = DOMAIN c.catalogue
         /\ \A i \in DOMAIN c.alerts : \A m \in c.alerts[i].reads :
              /\ c.catalogue[m].source \in c.scrapes \cup {"scrape"}
              /\ c.catalogue[m].status = "existing" \/ (c.catalogue[m].status = "UNVERIFIED" /\ m \in c.doc)

-----------------------------------------------------------------------------
(* db-bench-parse.py *)

\* Mutant: the rank is rounded down.
PercentileDown(vals, q) == IF vals = <<>> THEN -1 ELSE vals[IF (q * Len(vals)) \div 100 = 0 THEN 1 ELSE (q * Len(vals)) \div 100]
\* percentile: the nearest rank of an ascending sequence.
Percentile(vals, q) ==
    LET rank == (q * Len(vals) + 99) \div 100
    IN IF vals = <<>> THEN -1 ELSE vals[IF rank = 0 THEN 1 ELSE rank]
\* latencies_us: short lines are passed over; a line with a word for its latency is a failed one.
Times(logs) == SelectSeq(Concat(logs), LAMBDA l : l # "short" /\ l # "failed")
Bad(logs) == Cardinality({p \in UNION {{f} \X DOMAIN logs[f] : f \in DOMAIN logs} : logs[p[1]][p[2]] = "failed"})
Latency(l) == CASE l = "1ms" -> 1 [] l = "2ms" -> 2 [] l = "9ms" -> 9
Sorted(s) == CHOOSE t \in [DOMAIN s -> {s[i] : i \in DOMAIN s}] :
               /\ \A i, j \in DOMAIN t : i < j => t[i] <= t[j]
               /\ \A v \in {s[i] : i \in DOMAIN s} : Cardinality({i \in DOMAIN s : s[i] = v}) = Cardinality({i \in DOMAIN t : t[i] = v})
\* row, with the tps (-1: none) and the failed transactions of the summary; {} when it is refused.
Row(logs, summary) ==
    LET times == Times(logs)
        lat == Sorted([i \in DOMAIN times |-> Latency(times[i])])
    IN IF lat = <<>> \/ summary.tps = -1 THEN {}
       ELSE {[tps |-> summary.tps, p50 |-> Percentile(lat, 50), p95 |-> Percentile(lat, 95), p99 |-> Percentile(lat, 99),
              failed |-> summary.failed + Bad(logs)]}

\* A row is of a run that did something; each percentile is the least latency that at least
\* so many of the transactions kept, and no failed one is left out.
RowIsTheRun(c) ==
    LET all == Concat(c.logs)
        of(v) == Cardinality({i \in DOMAIN all : all[i] \in {"1ms", "2ms", "9ms"} /\ Latency(all[i]) <= v})
        least(p, q) == of(p) * 100 >= q * of(9) /\ \A v \in {1, 2, 9} : v < p => of(v) * 100 < q * of(9)
    IN /\ Row(c.logs, c.summary) = {} <=> of(9) = 0 \/ c.summary.tps = -1
       /\ \A r \in Row(c.logs, c.summary) :
            /\ least(r.p50, 50) /\ least(r.p95, 95) /\ least(r.p99, 99)
            /\ r.failed >= Cardinality({i \in DOMAIN all : all[i] = "failed"})

-----------------------------------------------------------------------------
Line(form, name, from) == [form |-> form, name |-> name, from |-> from]
File(from) == {<<>>, <<Line("HELP", "m", from), Line("TYPE", "m", from), Line("sample", "m", from), Line("sample", "m", 0)>>,
               <<Line("sample", "w", from), Line("other", "", from), Line("HELP", "m", from), Line("sample", "m", from)>>,
               <<Line("HELP", "w", from), Line("TYPE", "w", from), Line("sample", "w", from), Line("sample", "m", from)>>}
MergeCases == {[dirs |-> <<[read |-> r, files |-> <<a, b>>], [read |-> TRUE, files |-> <<d>>]>>] :
                 r \in BOOLEAN, a \in File(1), b \in File(2), d \in File(3)}
Expr(tokens, reads) == [expr |-> tokens, reads |-> reads]
Selectors == UNION {{Expr(<<m>>, {m}), Expr(<<m, "{", "job", "=", "'", "a", "}", "'", "}">>, {m}),
                     Expr(<<m, "[", "5m", "]", "offset", "5m">>, {m})} : m \in {"up", "down"}}
Simple == Selectors \cup UNION {{Expr(<<"rate", "(">> \o s.expr \o <<")">>, s.reads),
                                 Expr(<<"sum", "by", "(", "job", ")", "(">> \o s.expr \o <<")">>, s.reads),
                                 Expr(<<"sum", "(">> \o s.expr \o <<")", "without", "(", "job", ")">>, s.reads)} : s \in Selectors}
Exprs == Simple \cup {Expr(a.expr \o op \o b.expr, a.reads \cup b.reads) : a, b \in Simple,
                        op \in {<<"and">>, <<"and", "on", "(", "job", ")", "group_left", "(", "ns", ")">>}}
         \cup {Expr(s.expr \o <<">", n>>, s.reads) : s \in Simple, n \in {"2", "1e9"}}
Alert(name, e) == [name |-> name, expr |-> e.expr, reads |-> e.reads]
RuleCases ==
    {[alerts |-> <<Alert("a", x), Alert("b", Expr(<<"up">>, {"up"}))>>, scrapes |-> s, doc |-> d,
      catalogue |-> [m \in k |-> [source |-> IF m = "up" THEN "scrape" ELSE "vm", status |-> t]]] :
        x \in Simple, s \in {{}, {"vm"}}, d \in {{}, {"up", "down"}}, k \in {{"up"}, {"up", "down"}}, t \in {"existing", "UNVERIFIED", "maybe"}}
Log(n) == UNION {[1..m -> {"1ms", "2ms", "9ms", "failed", "short"}] : m \in 0..n}
BenchCases == {[logs |-> <<a, b>>, summary |-> [tps |-> t, failed |-> f]] : a \in Log(3), b \in Log(1), t \in {-1, 7}, f \in 0..1}
=============================================================================
