---------------------------- MODULE CheckProofs -----------------------------
(***************************************************************************)
(* The histories among the judgements: what the dump test, the verifier,   *)
(* the sink checker, the Zitadel tool and the two calendars say over days, *)
(* cycles, policies and entries, in any number.  Each history is a         *)
(* recursive function; the first lemmas give the induction over it, in a   *)
(* form that needs no operator as a parameter.                             *)
(***************************************************************************)
EXTENDS MCChecks, FiniteSetTheorems, NaturalsInduction, WellFoundedInduction, TLAPS

\* Induction over the numbers up to n, for a set: an operator could not be instantiated.
LEMMA Induction ==
    ASSUME NEW n \in Nat, NEW P, 0 \in P, \A k \in 1..n : k - 1 \in P => k \in P
    PROVE  0..n \subseteq P
<1>. DEFINE Bad == (0..n) \ P
<1>1. SUFFICES ASSUME Bad # {} PROVE FALSE
  OBVIOUS
<1>2. PICK x \in Bad : \A y \in Bad : ~(<<y, x>> \in OpToRel(<, Nat))
  <2>1. Bad \subseteq Nat
    OBVIOUS
  <2>. QED  BY <1>1, <2>1, WFMin, NatLessThanWellFounded
<1>3. x \in 1..n /\ x - 1 \in 0..n
  OBVIOUS
<1>4. x - 1 \in P
  <2>1. <<x - 1, x>> \in OpToRel(<, Nat)
    BY <1>3 DEF OpToRel
  <2>. QED  BY <1>2, <1>3, <2>1
<1>. QED  BY <1>3, <1>4

Runs(S, init, n, step) == {f \in [0..n -> S] : f[0] = init /\ \A k \in 1..n : f[k] = step[<<k, f[k-1]>>]}

\* A function defined from the value before it exists, and equals its step everywhere: the
\* histories are all CHOSEN as the function that satisfies such an equation.
LEMMA Recursion ==
    ASSUME NEW S, NEW init \in S, NEW n \in Nat, NEW step \in [(1..n) \X S -> S]
    PROVE  Runs(S, init, n, step) # {}
<1>. DEFINE Good(f, m) == f[0] = init /\ \A k \in 1..m : f[k] = step[<<k, f[k-1]>>]
            P == {m \in 0..n : \E f \in [0..m -> S] : Good(f, m)}
<1>1. 0 \in P
  <2>. DEFINE f == [k \in 0..0 |-> init]
  <2>1. f \in [0..0 -> S] /\ Good(f, 0)
    OBVIOUS
  <2>. HIDE DEF f
  <2>. QED  BY <2>1
<1>2. ASSUME NEW m \in 1..n, m - 1 \in P PROVE m \in P
  <2>1. PICK f \in [0..(m-1) -> S] : Good(f, m - 1)
    BY <1>2
  <2>. DEFINE last == step[<<m, f[m-1]>>]
              g == [k \in 0..m |-> IF k = m THEN last ELSE f[k]]
  <2>2. last \in S
    OBVIOUS
  <2>. HIDE DEF last
  <2>3. g \in [0..m -> S]
    BY <2>2
  <2>4. g[0] = init
    BY <2>1
  <2>5. ASSUME NEW k \in 1..m PROVE g[k] = step[<<k, g[k-1]>>]
    <3>1. CASE k = m
      <4>1. g[m] = last /\ g[m-1] = f[m-1]
        OBVIOUS
      <4>. QED  BY <3>1, <4>1 DEF last
    <3>2. CASE k # m
      <4>1. k \in 1..(m-1) /\ g[k] = f[k] /\ g[k-1] = f[k-1]
        BY <3>2
      <4>. QED  BY <2>1, <4>1
    <3>. QED  BY <3>1, <3>2
  <2>. HIDE DEF g
  <2>. QED  BY <2>3, <2>4, <2>5
<1>. HIDE DEF P
<1>3. n \in P
  BY <1>1, <1>2, Induction
<1>. QED  BY <1>3 DEF P, Runs

\* A step of a history and the one before it are both of it.
LEMMA Before ==
    ASSUME NEW n \in Nat, NEW k \in 1..n
    PROVE  k \in 0..n /\ k - 1 \in 0..n
OBVIOUS

\* What satisfies the equations of a recursive function, as long as the value before has
\* its type, is a run of them.
LEMMA RunsWhole ==
    ASSUME NEW S, NEW init \in S, NEW n \in Nat, NEW step \in [(1..n) \X S -> S],
           NEW f, f = [k \in 0..n |-> f[k]], f[0] = init, \A k \in 1..n : f[k-1] \in S => f[k] = step[<<k, f[k-1]>>]
    PROVE  f \in Runs(S, init, n, step)
<1>. DEFINE P == {k \in 0..n : f[k] \in S}
<1>1. 0 \in P
  OBVIOUS
<1>2. ASSUME NEW k \in 1..n, k - 1 \in P PROVE k \in P /\ f[k] = step[<<k, f[k-1]>>]
  <2>1. f[k] = step[<<k, f[k-1]>>] /\ <<k, f[k-1]>> \in (1..n) \X S
    BY <1>2
  <2>. QED  BY <2>1
<1>3. 0..n \subseteq P
  <2>. HIDE DEF P
  <2>. QED  BY <1>1, <1>2, Induction
<1>4. \A k \in 0..n : f[k] \in S
  BY <1>3
<1>5. f \in [0..n -> S]
  BY <1>4
<1>6. ASSUME NEW k \in 1..n PROVE f[k] = step[<<k, f[k-1]>>]
  <2>1. k - 1 \in P
    BY <1>3
  <2>. HIDE DEF P
  <2>. QED  BY <1>2, <2>1
<1>. QED  BY <1>5, <1>6 DEF Runs

-----------------------------------------------------------------------------
DumpOk == {"none", "pass", "skip", "fail"}
DumpPub == [ok : DumpOk, last : Nat, shown : DumpOk]
DumpNone == [ok |-> "none", last |-> 0, shown |-> "none"]
DumpDay == [store : {"absent", "error", "missing", "restored"}, loads : BOOLEAN, newest : Nat, read : BOOLEAN, patched : BOOLEAN]
DumpStep(n, days) == [p \in (1..n) \X DumpPub |-> Dump!Day(p[2], days[p[1]], p[1])]

\* A day of the dump test publishes a result of the known shape.
LEMMA DumpDayType ==
    ASSUME NEW pub \in DumpPub, NEW d \in DumpDay, NEW today \in Nat
    PROVE  Dump!Day(pub, d, today) \in DumpPub
BY DEF DumpPub, DumpDay, DumpOk, Dump!Day, Dump!DumpGone, Dump!LoadOne, Dump!CheckDump

\* The history of the dump test is a run of its days.
LEMMA DumpHistory ==
    ASSUME NEW n \in Nat, NEW days \in [1..n -> DumpDay]
    PROVE  Dump!History(days) \in Runs(DumpPub, DumpNone, n, DumpStep(n, days))
<1>. DEFINE step == DumpStep(n, days)
            Is(g) == g = [k \in 0..n |-> IF k = 0 THEN DumpNone ELSE Dump!Day(g[k-1], days[k], k)]
            h == Dump!History(days)
<1>1. step \in [(1..n) \X DumpPub -> DumpPub]
  <2>1. ASSUME NEW p \in (1..n) \X DumpPub PROVE Dump!Day(p[2], days[p[1]], p[1]) \in DumpPub
    <3>1. p[1] \in Nat /\ days[p[1]] \in DumpDay /\ p[2] \in DumpPub
      OBVIOUS
    <3>. QED  BY <3>1, DumpDayType
  <2>. QED  BY <2>1 DEF DumpStep
<1>2. DumpNone \in DumpPub
  BY DEF DumpNone, DumpPub, DumpOk
<1>3. ASSUME NEW k \in 1..n, NEW was \in DumpPub PROVE step[<<k, was>>] = Dump!Day(was, days[k], k)
  BY DEF DumpStep
<1>. HIDE DEF step
<1>4. PICK f \in Runs(DumpPub, DumpNone, n, step) : TRUE
  BY <1>1, <1>2, Recursion
<1>5. Is(f)
  <2>1. /\ f \in [0..n -> DumpPub]
        /\ f[0] = DumpNone
        /\ \A k \in 1..n : f[k] = Dump!Day(f[k-1], days[k], k)
    <3>1. f \in [0..n -> DumpPub] /\ f[0] = DumpNone
      BY <1>4 DEF Runs
    <3>2. ASSUME NEW k \in 1..n PROVE f[k] = Dump!Day(f[k-1], days[k], k)
      <4>1. f[k-1] \in DumpPub
        BY <3>1, Before
      <4>2. f[k] = step[<<k, f[k-1]>>]
        BY <1>4 DEF Runs
      <4>. QED  BY <1>3, <4>1, <4>2
    <3>. QED  BY <3>1, <3>2
  <2>. QED  BY <2>1
<1>6. h = CHOOSE g : Is(g)
  <2>1. Len(days) = n
    OBVIOUS
  <2>. QED  BY <2>1 DEF Dump!History, DumpNone
<1>7. Is(h)
  <2>. HIDE DEF Is
  <2>. QED  BY <1>5, <1>6
<1>8. /\ h = [k \in 0..n |-> h[k]]
      /\ h[0] = DumpNone
      /\ \A k \in 1..n : h[k-1] \in DumpPub => h[k] = step[<<k, h[k-1]>>]
  <2>. HIDE DEF h
  <2>. QED  BY <1>3, <1>7
<1>. QED
  <2>. HIDE DEF h
  <2>1. h \in Runs(DumpPub, DumpNone, n, step)
    BY <1>1, <1>2, <1>8, RunsWhole
  <2>. QED  BY <2>1 DEF h, step

\* However many days the dump test runs: a dump that passed never ends as a skip when its repository
\* is gone, unless an unread result lies between; before the first dump nothing fails; and a pass that is
\* published is a dump that loads and is young (check_dump, dump_gone).
THEOREM DumpFaithful ==
    ASSUME NEW n \in Nat, NEW days \in [1..n -> DumpDay], \A k \in 1..n : days[k].newest <= k
    PROVE  Dump!LossIsLoud(days) /\ Dump!YoungIsQuiet(days) /\ Dump!PassIsLoaded(days)
<1>. DEFINE h == Dump!History(days)
<1>1. /\ Len(days) = n
      /\ DumpMaxAge \in Nat
  BY ChecksAssumption
<1>2. /\ h \in [0..n -> DumpPub]
      /\ h[0] = DumpNone
      /\ \A k \in 1..n : h[k] = Dump!Day(h[k-1], days[k], k)
  <2>1. h \in Runs(DumpPub, DumpNone, n, DumpStep(n, days))
    BY DumpHistory
  <2>. HIDE DEF h
  <2>2. h \in [0..n -> DumpPub] /\ h[0] = DumpNone
    BY <2>1 DEF Runs
  <2>3. ASSUME NEW k \in 1..n PROVE h[k] = Dump!Day(h[k-1], days[k], k)
    <3>1. h[k-1] \in DumpPub
      BY <2>2, Before
    <3>2. h[k] = DumpStep(n, days)[<<k, h[k-1]>>]
      BY <2>1 DEF Runs
    <3>. QED  BY <3>1, <3>2 DEF DumpStep
  <2>. QED  BY <2>2, <2>3
<1>. HIDE DEF h
<1>3. ASSUME NEW k \in 1..n
      PROVE  /\ h[k-1] \in DumpPub /\ h[k] \in DumpPub /\ days[k] \in DumpDay
             /\ h[k].shown = Dump!DumpGone(Dump!LoadOne(days[k], k), days[k], IF days[k].read THEN h[k-1].last ELSE 0)
             /\ days[k].patched => h[k].last = IF h[k].shown = "pass" THEN k ELSE IF days[k].read THEN h[k-1].last ELSE 0
             /\ ~days[k].patched => h[k].last = h[k-1].last
  <2>1. k - 1 \in 0..n /\ k \in 0..n
    OBVIOUS
  <2>2. h[k-1] \in DumpPub /\ h[k] \in DumpPub /\ days[k] \in DumpDay
    BY <1>2, <2>1
  <2>3. h[k] = Dump!Day(h[k-1], days[k], k)
    BY <1>2
  <2>. QED  BY <2>2, <2>3 DEF Dump!Day, DumpPub
<1>4. ASSUME NEW k \in 1..n, h[k].shown = "skip"
      PROVE  days[k].store = "absent" /\ days[k].read /\ h[k-1].last = 0
  BY <1>3, <1>4 DEF Dump!DumpGone, Dump!LoadOne, DumpPub, DumpDay
<1>5. ASSUME NEW k \in 1..n, h[k].shown = "pass"
      PROVE  days[k].store = "restored" /\ days[k].loads /\ days[k].newest > 0 /\ k - days[k].newest <= DumpMaxAge
  <2>1. Dump!LoadOne(days[k], k) = "pass"
    BY <1>3, <1>5 DEF Dump!DumpGone
  <2>. QED  BY <2>1, <1>3 DEF Dump!LoadOne, Dump!CheckDump, DumpDay
<1>6. Dump!PassIsLoaded(days)
  BY <1>1, <1>5 DEF Dump!PassIsLoaded, h, DumpDay
<1>7. Dump!YoungIsQuiet(days)
  <2>. SUFFICES ASSUME NEW m \in 1..n, \A k \in 1..m : days[k].store = "absent" /\ days[k].read
                PROVE  h[m].shown = "skip"
    BY <1>1 DEF Dump!YoungIsQuiet, h
  <2>. DEFINE Quiet == {k \in 0..m : h[k].last = 0}
  <2>1. 0 \in Quiet
    BY <1>2 DEF DumpNone
  <2>2. ASSUME NEW k \in 1..m, k - 1 \in Quiet PROVE k \in Quiet /\ h[k].shown = "skip"
    <3>1. k \in 1..n /\ h[k-1].last = 0 /\ days[k].store = "absent" /\ days[k].read
      BY <2>2
    <3>2. Dump!LoadOne(days[k], k) = "skip"
      BY <3>1 DEF Dump!LoadOne
    <3>3. h[k].shown = "skip"
      BY <3>1, <3>2, <1>3 DEF Dump!DumpGone
    <3>. QED  BY <3>1, <3>3, <1>3
  <2>3. 0..m \subseteq Quiet
    <3>1. m \in Nat
      OBVIOUS
    <3>. HIDE DEF Quiet
    <3>. QED  BY <2>1, <2>2, <3>1, Induction
  <2>4. m - 1 \in Quiet
    BY <2>3
  <2>. QED  BY <2>2, <2>4
<1>8. Dump!LossIsLoud(days)
  <2>. SUFFICES ASSUME NEW k \in 1..n, h[k].shown = "skip", NEW m \in 1..(k-1), h[m].shown = "pass", days[m].patched,
                       \A j \in (m+1)..(k-1) : days[j].read
                PROVE  FALSE
    BY <1>1 DEF Dump!LossIsLoud, h
  <2>. DEFINE Known == {j \in 0..(k-1) : j >= m => h[j].last > 0}
  <2>1. 0 \in Known
    OBVIOUS
  <2>2. ASSUME NEW j \in 1..(k-1), j - 1 \in Known PROVE j \in Known
    <3>1. CASE j < m
      BY <3>1
    <3>2. CASE j = m
      <4>1. h[m].last = m
        BY <1>3
      <4>. QED  BY <3>2, <4>1
    <3>3. CASE j > m
      <4>1. j \in 1..n /\ days[j].read /\ h[j-1].last > 0
        BY <2>2, <3>3
      <4>2. h[j].last = j \/ h[j].last = h[j-1].last
        BY <4>1, <1>3 DEF DumpDay
      <4>. QED  BY <4>1, <4>2
    <3>. QED  BY <3>1, <3>2, <3>3
  <2>3. 0..(k-1) \subseteq Known
    <3>. HIDE DEF Known
    <3>1. k - 1 \in Nat
      OBVIOUS
    <3>. QED  BY <2>1, <2>2, <3>1, Induction
  <2>4. h[k-1].last > 0
    BY <2>3
  <2>. QED  BY <1>4, <2>4
<1>. QED  BY <1>6, <1>7, <1>8

\* The cases of the run are such days.
LEMMA DumpCases ==
    ASSUME NEW days \in Dump!Cases
    PROVE  days \in [1..DumpDays -> DumpDay] /\ \A k \in 1..DumpDays : days[k].newest <= k
<1>1. ASSUME NEW d \in Dump!Dumps(DumpDays)
      PROVE  d.store \in {"absent", "error", "missing", "restored"} /\ d.loads \in BOOLEAN /\ d.newest \in Nat
  <2>1. d.store \in {"absent", "error", "missing", "restored"}
    BY DEF Dump!Dumps
  <2>2. d.loads \in BOOLEAN
    BY Zenon DEF Dump!Dumps
  <2>3. d.newest \in {0} \cup (0..DumpDays) \cup {DumpDays}
    BY Zenon DEF Dump!Dumps
  <2>4. d.newest \in Nat
    BY <2>3, ChecksAssumption
  <2>. QED  BY <2>1, <2>2, <2>4
<1>2. Dump!Today(DumpDays) \subseteq DumpDay
  BY <1>1 DEF Dump!Today, Dump!Kubectl, DumpDay
<1>. QED  BY <1>2 DEF Dump!Cases

-----------------------------------------------------------------------------
VerifyDay == [st : [Verify!Stores -> {"1", "0", "skip"}], intact : [Verify!Stores -> BOOLEAN], read : BOOLEAN, patched : BOOLEAN]
VerifyPub == [ok : [{"etcd"} -> {"absent", "0", "1"}], last : [{"etcd"} -> Nat]]
VerifyStart(start) == [ok |-> [d \in {"etcd"} |-> "absent"], last |-> [d \in {"etcd"} |-> start]]
VerifyPublish(pub, d, now) == Verify!Publish(pub, Verify!DayRows(d), now, d.read, d.patched)
VerifyStep(n, h) == [p \in (1..n) \X VerifyPub |-> VerifyPublish(p[2], h.days[p[1]], h.start + p[1])]

VerifyRow(d, s, st) == [ds |-> "etcd", of |-> "", s |-> s, age |-> Verify!Unknown, st |-> st]
VerifyRaw(d) == {VerifyRow(d, s, d.st[s]) : s \in Verify!Stores}

\* A row of the day is that of a store: as stage 1 left it, or failed since the other one passed.
LEMMA VerifyPromoted ==
    ASSUME NEW d \in VerifyDay
    PROVE  /\ \A s \in Verify!Stores : d.st[s] # "skip" => VerifyRow(d, s, d.st[s]) \in Verify!PromoteMissing(VerifyRaw(d))
           /\ \A s, q \in Verify!Stores : d.st[s] = "skip" /\ d.st[q] = "1" => \E r \in Verify!PromoteMissing(VerifyRaw(d)) : r.ds = "etcd" /\ r.st = "0"
           /\ (\A s \in Verify!Stores : d.st[s] = "skip") => \A r \in Verify!PromoteMissing(VerifyRaw(d)) : r.st = "skip"
<1>. DEFINE raw == VerifyRaw(d)
            new(r) == IF r.st = "skip" /\ \E q \in raw : q.ds = r.ds /\ q.of = r.of /\ q.st = "1" THEN [r EXCEPT !.st = "0"] ELSE r
<1>1. Verify!PromoteMissing(raw) = {new(r) : r \in raw}
  BY DEF Verify!PromoteMissing
<1>2. ASSUME NEW s \in Verify!Stores, NEW st \in {"0", "1", "skip"}
      PROVE  VerifyRow(d, s, st).st = st /\ VerifyRow(d, s, st).ds = "etcd" /\ VerifyRow(d, s, st).of = ""
  BY DEF VerifyRow
<1>3. ASSUME NEW s \in Verify!Stores PROVE VerifyRow(d, s, d.st[s]) \in raw /\ d.st[s] \in {"0", "1", "skip"}
  BY DEF VerifyRaw, VerifyDay
<1>4. ASSUME NEW r \in raw PROVE \E s \in Verify!Stores : r = VerifyRow(d, s, d.st[s])
  BY DEF VerifyRaw
<1>. HIDE DEF raw
<1>5. ASSUME NEW s \in Verify!Stores, d.st[s] # "skip" PROVE VerifyRow(d, s, d.st[s]) \in {new(r) : r \in raw}
  <2>1. new(VerifyRow(d, s, d.st[s])) = VerifyRow(d, s, d.st[s])
    BY <1>2, <1>3, <1>5
  <2>. QED  BY <1>3, <2>1
<1>6. ASSUME NEW s \in Verify!Stores, NEW q \in Verify!Stores, d.st[s] = "skip", d.st[q] = "1"
      PROVE  \E r \in raw : new(r).ds = "etcd" /\ new(r).st = "0"
  <2>1. \E p \in raw : p.ds = "etcd" /\ p.of = "" /\ p.st = "1"
    <3>1. VerifyRow(d, q, d.st[q]) \in raw
      BY <1>3
    <3>2. VerifyRow(d, q, d.st[q]).st = "1" /\ VerifyRow(d, q, d.st[q]).ds = "etcd" /\ VerifyRow(d, q, d.st[q]).of = ""
      BY <1>6 DEF VerifyRow
    <3>. HIDE DEF new
    <3>. QED  BY <3>1, <3>2, Zenon
  <2>. DEFINE r == VerifyRow(d, s, d.st[s])
  <2>2. r \in raw /\ r.st = "skip" /\ r.ds = "etcd" /\ r.of = ""
    <3>1. r \in raw
      BY <1>3
    <3>2. r.st = "skip" /\ r.ds = "etcd" /\ r.of = ""
      BY <1>6 DEF VerifyRow
    <3>. QED  BY <3>1, <3>2
  <2>3. [r EXCEPT !.st = "0"].st = "0" /\ [r EXCEPT !.st = "0"].ds = "etcd"
    BY DEF VerifyRow
  <2>. HIDE DEF r
  <2>4. new(r).ds = "etcd" /\ new(r).st = "0"
    BY <2>1, <2>2, <2>3
  <2>. HIDE DEF new
  <2>. QED  BY <2>2, <2>4
<1>7. ASSUME \A s \in Verify!Stores : d.st[s] = "skip", NEW r \in raw PROVE r.st = "skip" /\ new(r) = r
  <2>1. ASSUME NEW p \in raw PROVE p.st = "skip"
    <3>1. PICK s \in Verify!Stores : p = VerifyRow(d, s, d.st[s])
      BY <1>4
    <3>2. VerifyRow(d, s, d.st[s]).st = d.st[s]
      BY <1>2, <1>3
    <3>. QED  BY <1>7, <3>1, <3>2
  <2>. QED  BY <2>1
<1>. QED
  <2>1. \A s \in Verify!Stores : d.st[s] # "skip" => VerifyRow(d, s, d.st[s]) \in Verify!PromoteMissing(raw)
    BY <1>1, <1>5
  <2>2. \A s, q \in Verify!Stores : d.st[s] = "skip" /\ d.st[q] = "1" => \E r \in Verify!PromoteMissing(raw) : r.ds = "etcd" /\ r.st = "0"
    BY <1>1, <1>6
  <2>3. (\A s \in Verify!Stores : d.st[s] = "skip") => \A r \in Verify!PromoteMissing(raw) : r.st = "skip"
    BY <1>1, <1>7
  <2>. QED  BY <2>1, <2>2, <2>3 DEF raw

\* A day on which etcd passes is one on which both stores held it, and intact.
LEMMA VerifyPassed ==
    ASSUME NEW d \in VerifyDay, Verify!Passed(Verify!DayRows(d), "etcd")
    PROVE  \A s \in Verify!Stores : d.st[s] = "1" /\ d.intact[s]
<1>. DEFINE raw == VerifyRaw(d)
            intact == [ds \in {"etcd"} |-> d.intact]
            judged == Verify!Judged(raw, intact)
            promoted == Verify!PromoteMissing(raw)
<1>1. Verify!DayRows(d) = judged
  BY DEF Verify!DayRows, VerifyRaw, VerifyRow
<1>2. /\ \E r \in judged : r.ds = "etcd"
      /\ \A r \in judged : r.ds = "etcd" => r.st = "1"
  BY <1>1 DEF Verify!Passed, Verify!Seen
<1>3. ASSUME NEW s \in Verify!Stores, NEW st \in {"0", "1"}, VerifyRow(d, s, st) \in promoted
      PROVE  st = "1" /\ d.intact[s]
  <2>. DEFINE r == VerifyRow(d, s, st)
  <2>1. /\ r.ds = "etcd" /\ r.s = s /\ r.st = st
        /\ [r EXCEPT !.st = "0"].ds = "etcd" /\ [r EXCEPT !.st = "0"].st = "0"
    BY DEF VerifyRow
  <2>2. intact[r.ds][r.s] = d.intact[s]
    BY <2>1
  <2>. HIDE DEF r
  <2>3. (IF r.st = "1" /\ r.ds \in {"openbao", "etcd"} /\ ~intact[r.ds][r.s] THEN [r EXCEPT !.st = "0"] ELSE r) \in judged
    <3>1. r \in promoted /\ r.st # "skip"
      BY <1>3, <2>1 DEF r
    <3>. QED  BY <3>1 DEF Verify!Judged
  <2>4. CASE st = "1" /\ ~d.intact[s]
    <3>1. [r EXCEPT !.st = "0"] \in judged
      BY <2>1, <2>2, <2>3, <2>4
    <3>. QED  BY <1>2, <2>1, <3>1
  <2>5. CASE ~(st = "1" /\ ~d.intact[s])
    <3>1. r \in judged
      BY <2>1, <2>2, <2>3, <2>5
    <3>. QED  BY <1>2, <2>1, <2>5, <3>1
  <2>. QED  BY <2>4, <2>5
<1>4. \E s \in Verify!Stores : d.st[s] # "skip"
  <2>1. \E r \in promoted : r.st # "skip"
    BY <1>2 DEF Verify!Judged
  <2>. QED  BY <2>1, VerifyPromoted
<1>. HIDE DEF judged, promoted
<1>5. ASSUME NEW s \in Verify!Stores, d.st[s] # "skip" PROVE d.st[s] = "1" /\ d.intact[s]
  <2>1. VerifyRow(d, s, d.st[s]) \in promoted
    BY <1>5, VerifyPromoted DEF promoted
  <2>2. d.st[s] \in {"0", "1"}
    BY <1>5 DEF VerifyDay
  <2>. QED  BY <1>3, <2>1, <2>2
<1>6. ASSUME NEW s \in Verify!Stores PROVE d.st[s] # "skip"
  <2>. SUFFICES ASSUME d.st[s] = "skip" PROVE FALSE
    OBVIOUS
  <2>1. PICK r \in promoted : r.ds = "etcd" /\ r.st = "0"
    BY <1>4, <1>5, VerifyPromoted DEF promoted
  <2>2. r \in judged
    BY <2>1 DEF judged, promoted, Verify!Judged
  <2>. QED  BY <1>2, <2>1, <2>2
<1>. QED  BY <1>5, <1>6

\* A day of the verifier publishes rows of the known shape, and a last success of today, of before,
\* or none.
LEMMA VerifyPublishType ==
    ASSUME NEW pub \in VerifyPub, NEW d \in VerifyDay, NEW now \in Nat
    PROVE  /\ VerifyPublish(pub, d, now) \in VerifyPub
           /\ VerifyPublish(pub, d, now).last["etcd"] =
                IF ~d.patched THEN pub.last["etcd"]
                ELSE IF Verify!Passed(Verify!DayRows(d), "etcd") THEN now
                ELSE IF d.read THEN pub.last["etcd"] ELSE 0
<1>. DEFINE rows == Verify!DayRows(d)
            passed == Verify!Passed(rows, "etcd")
<1>2. Verify!Ok(rows, "etcd") \in {"absent", "0", "1"}
  BY DEF Verify!Ok
<1>3. /\ pub.last \in [{"etcd"} -> Nat]
      /\ pub.last["etcd"] \in Nat
  BY DEF VerifyPub
<1>. HIDE DEF rows
<1>4. CASE ~d.patched
  <2>1. VerifyPublish(pub, d, now) = pub
    BY <1>4 DEF VerifyPublish, Verify!Publish
  <2>. QED  BY <1>4, <2>1
<1>5. CASE d.patched
  <2>. DEFINE known == IF d.read THEN pub.last["etcd"] ELSE 0
              last == IF passed THEN now ELSE known
  <2>1. (IF d.read THEN pub.last ELSE [e \in DOMAIN pub.last |-> 0]) = [e \in {"etcd"} |-> known]
    BY <1>3
  <2>2. VerifyPublish(pub, d, now) = [ok |-> [e \in {"etcd"} |-> Verify!Ok(rows, e)], last |-> [e \in {"etcd"} |-> IF Verify!Passed(rows, e) THEN now ELSE known]]
    BY <1>5, <2>1, Zenon DEF VerifyPublish, Verify!Publish, Verify!Build, rows
  <2>3. VerifyPublish(pub, d, now).last["etcd"] = last
    BY <2>2
  <2>4. last \in Nat
    BY <1>3
  <2>5. VerifyPublish(pub, d, now) \in VerifyPub
    BY <1>2, <2>2, <2>4 DEF VerifyPub
  <2>. QED  BY <1>5, <2>3, <2>5 DEF rows
<1>. QED  BY <1>4, <1>5

\* What today publishes, by what passed.
LEMMA VerifyPublishes ==
    ASSUME NEW pub \in VerifyPub, NEW d \in VerifyDay, NEW now \in Nat, pub.last["etcd"] < now
    PROVE  /\ VerifyPublish(pub, d, now).last["etcd"] <= now
           /\ VerifyPublish(pub, d, now).last["etcd"] < pub.last["etcd"] => ~d.read
           /\ VerifyPublish(pub, d, now).last["etcd"] = now =>
                d.patched /\ \A s \in Verify!Stores : d.st[s] = "1" /\ d.intact[s]
<1>1. pub.last["etcd"] \in Nat
  BY DEF VerifyPub
<1>. QED  BY <1>1, VerifyPublishType, VerifyPassed

\* However many days the verifier runs, it publishes an older last success only when it could not
\* read the previous one, and a last success of its own is of a day on which both stores held the
\* repository, intact (collect.py).
THEOREM VerifyFaithful ==
    ASSUME NEW n \in Nat, NEW h, h.days \in [1..n -> VerifyDay], h.start \in Nat
    PROVE  Verify!LastIsKept(h) /\ Verify!LastWasWhole(h)
<1>. DEFINE Is(g) == g = [k \in 0..n |-> IF k = 0 THEN VerifyStart(h.start) ELSE VerifyPublish(g[k-1], h.days[k], h.start + k)]
            step == VerifyStep(n, h)
            f == Verify!Days(h)
<1>1. Len(h.days) = n
  OBVIOUS
<1>2. VerifyStart(h.start) \in VerifyPub /\ VerifyStart(h.start).last["etcd"] = h.start
  BY DEF VerifyStart, VerifyPub
<1>3. ASSUME NEW k \in 1..n, NEW pub \in VerifyPub
      PROVE  VerifyPublish(pub, h.days[k], h.start + k) \in VerifyPub /\ h.days[k] \in VerifyDay /\ h.start + k \in Nat
  <2>1. h.days[k] \in VerifyDay /\ h.start + k \in Nat
    OBVIOUS
  <2>. QED  BY <2>1, VerifyPublishType
<1>4. step \in [(1..n) \X VerifyPub -> VerifyPub] /\ \A k \in 1..n : \A pub \in VerifyPub : step[<<k, pub>>] = VerifyPublish(pub, h.days[k], h.start + k)
  BY <1>3 DEF VerifyStep
<1>. HIDE DEF step
<1>5. PICK g \in Runs(VerifyPub, VerifyStart(h.start), n, step) : TRUE
  BY <1>2, <1>4, Recursion
<1>6. Is(g)
  <2>1. g \in [0..n -> VerifyPub] /\ g[0] = VerifyStart(h.start)
    BY <1>5 DEF Runs
  <2>2. ASSUME NEW k \in 1..n PROVE g[k] = VerifyPublish(g[k-1], h.days[k], h.start + k)
    <3>1. g[k-1] \in VerifyPub
      BY <2>1, Before
    <3>2. g[k] = step[<<k, g[k-1]>>]
      BY <1>5 DEF Runs
    <3>. QED  BY <1>4, <3>1, <3>2
  <2>. QED  BY <2>1, <2>2
<1>7. f = CHOOSE x : Is(x)
  BY <1>1 DEF Verify!Days, VerifyStart, VerifyPublish
<1>8. Is(f)
  <2>. HIDE DEF Is
  <2>. QED  BY <1>6, <1>7
<1>. HIDE DEF f
<1>9. f[0] = VerifyStart(h.start) /\ \A k \in 1..n : f[k] = VerifyPublish(f[k-1], h.days[k], h.start + k)
  BY <1>8
<1>10. ASSUME NEW k \in 1..n
       PROVE  f[k-1] \in VerifyPub /\ f[k-1].last["etcd"] < h.start + k
  <2>. DEFINE Past == {j \in 0..n : f[j] \in VerifyPub /\ f[j].last["etcd"] <= h.start + j}
  <2>1. 0 \in Past
    BY <1>2, <1>9
  <2>2. ASSUME NEW j \in 1..n, j - 1 \in Past PROVE j \in Past
    <3>1. f[j-1] \in VerifyPub /\ f[j-1].last["etcd"] < h.start + j
      <4>1. f[j-1] \in VerifyPub /\ f[j-1].last["etcd"] <= h.start + (j - 1)
        BY <2>2
      <4>2. f[j-1].last["etcd"] \in Nat /\ h.start \in Nat
        BY <4>1 DEF VerifyPub
      <4>3. \A x, y \in Nat : x <= y + (j - 1) => x < y + j
        OBVIOUS
      <4>4. f[j-1].last["etcd"] < h.start + j
        BY ONLY <4>1, <4>2, <4>3
      <4>. QED  BY ONLY <4>1, <4>4
    <3>. DEFINE was == f[j-1]
                now == h.start + j
                d == h.days[j]
    <3>2. f[j] = VerifyPublish(was, d, now) /\ was \in VerifyPub /\ was.last["etcd"] < now
      BY <1>9, <3>1
    <3>3. VerifyPublish(was, d, now) \in VerifyPub /\ d \in VerifyDay /\ now \in Nat
      BY <1>3, <3>1
    <3>. HIDE DEF was, d, now
    <3>4. VerifyPublish(was, d, now).last["etcd"] <= now
      BY <3>2, <3>3, VerifyPublishes
    <3>. QED  BY <3>2, <3>3, <3>4 DEF now
  <2>3. 0..n \subseteq Past
    <3>. HIDE DEF Past
    <3>. QED  BY <2>1, <2>2, Induction
  <2>4. k - 1 \in Past
    BY <2>3
  <2>. QED  BY <2>4 DEF VerifyPub
<1>11. ASSUME NEW k \in 1..n
       PROVE  /\ f[k].last["etcd"] < f[k-1].last["etcd"] => ~h.days[k].read
              /\ f[k].last["etcd"] = h.start + k =>
                   h.days[k].patched /\ \A s \in Verify!Stores : h.days[k].st[s] = "1" /\ h.days[k].intact[s]
  <2>. DEFINE day == h.days[k]
              now == h.start + k
  <2>1. f[k-1] \in VerifyPub /\ day \in VerifyDay /\ now \in Nat /\ f[k-1].last["etcd"] < now
    BY <1>3, <1>2, <1>10
  <2>2. f[k] = VerifyPublish(f[k-1], day, now)
    BY <1>9
  <2>. HIDE DEF day, now
  <2>3. /\ f[k].last["etcd"] < f[k-1].last["etcd"] => ~day.read
        /\ f[k].last["etcd"] = now => day.patched /\ \A s \in Verify!Stores : day.st[s] = "1" /\ day.intact[s]
    BY <2>1, <2>2, VerifyPublishes
  <2>. QED  BY <2>3 DEF day, now
<1>. QED  BY <1>1, <1>11 DEF f, Verify!LastIsKept, Verify!LastWasWhole

\* The cases of the run are such days.
LEMMA VerifyCases ==
    ASSUME NEW h \in Verify!Cases
    PROVE  h.days \in [1..2 -> VerifyDay] /\ h.start \in Nat
BY DEF Verify!Cases, Verify!DayCases, VerifyDay

-----------------------------------------------------------------------------
SinkSet == [SinkNodes -> [1..SinkDays -> -1..(PerDay - 1)]]
Snaps(c, n) == UNION {Sink!Snapshots(c.sink, n, d) : d \in 1..SinkDays}

\* A bounded set of numbers has a greatest.
LEMMA GreatestExists ==
    ASSUME NEW b \in Nat, NEW S \in SUBSET (0..b), S # {}
    PROVE  \E m \in S : \A u \in S : u <= m
<1>. DEFINE Rest == {b - u : u \in S}
<1>1. Rest \subseteq Nat /\ Rest # {}
  <2>1. PICK u \in S : TRUE
    OBVIOUS
  <2>2. b - u \in Rest
    OBVIOUS
  <2>. QED  BY <2>2
<1>2. PICK x \in Rest : \A y \in Rest : ~(<<y, x>> \in OpToRel(<, Nat))
  BY <1>1, WFMin, NatLessThanWellFounded
<1>3. PICK m \in S : x = b - m
  OBVIOUS
<1>4. ASSUME NEW u \in S PROVE u <= m
  <2>1. ~(<<b - u, b - m>> \in OpToRel(<, Nat))
    BY <1>2, <1>3
  <2>2. b - u \in Nat /\ b - m \in Nat
    OBVIOUS
  <2>. QED  BY <2>1, <2>2 DEF OpToRel
<1>. QED  BY <1>4

\* What `Newest` finds.
LEMMA NewestIs ==
    ASSUME NEW b \in Nat, NEW S \in SUBSET (0..b)
    PROVE  /\ S = {} => Sink!Newest(S) = Sink!NoTime
           /\ S # {} => Sink!Newest(S) \in S /\ \A u \in S : u <= Sink!Newest(S)
<1>1. CASE S # {}
  <2>1. \E m \in S : \A u \in S : u <= m
    BY <1>1, GreatestExists
  <2>. QED  BY <1>1, <2>1 DEF Sink!Newest
<1>. QED  BY <1>1 DEF Sink!Newest

\* A later day's snapshots are later.
LEMMA DaysOrdered ==
    ASSUME NEW p \in Nat, NEW d \in Nat, NEW e \in Nat, d < e, NEW i \in 1..(p - 1), NEW j \in 1..(p - 1)
    PROVE  d * p + i < e * p + j
<1>1. PICK g \in Nat : e = d + 1 + g
  <2>1. e - d - 1 \in Nat /\ e = d + 1 + (e - d - 1)
    OBVIOUS
  <2>. QED  BY <2>1
<1>2. e * p = d * p + p + g * p
  BY <1>1
<1>3. g * p >= 0 /\ d * p \in Int /\ g * p \in Int /\ e * p \in Int
  OBVIOUS
<1>. QED  BY <1>2, <1>3

\* A snapshot is a time within its day.
LEMMA SnapTimes ==
    ASSUME NEW c, c.sink \in SinkSet, NEW n \in SinkNodes, NEW d \in 1..SinkDays
    PROVE  /\ Sink!Snapshots(c.sink, n, d) \subseteq 0..((SinkDays + 1) * PerDay)
           /\ \A t \in Sink!Snapshots(c.sink, n, d) : \E i \in 1..(PerDay - 1) : i <= c.sink[n][d] /\ t = d * PerDay + i
           /\ c.sink[n][d] > 0 => Sink!Snapshots(c.sink, n, d) # {}
<1>1. c.sink[n][d] \in -1..(PerDay - 1) /\ PerDay \in Nat /\ SinkDays \in Nat
  BY ChecksAssumption DEF SinkSet
<1>2. \A t \in Sink!Snapshots(c.sink, n, d) : \E i \in 1..(PerDay - 1) : i <= c.sink[n][d] /\ t = d * PerDay + i
  BY <1>1 DEF Sink!Snapshots
<1>3. ASSUME NEW i \in 1..(PerDay - 1) PROVE d * PerDay + i \in 0..((SinkDays + 1) * PerDay)
  <2>1. PICK g \in Nat : SinkDays = d + g
    <3>1. SinkDays - d \in Nat /\ SinkDays = d + (SinkDays - d)
      BY <1>1
    <3>. QED  BY <3>1
  <2>2. (SinkDays + 1) * PerDay = d * PerDay + g * PerDay + PerDay
    BY <1>1, <2>1
  <2>3. g * PerDay >= 0 /\ d * PerDay >= 0 /\ g * PerDay \in Int /\ d * PerDay \in Int
    BY <1>1
  <2>. QED  BY <1>1, <2>2, <2>3
<1>4. c.sink[n][d] > 0 => Sink!Snapshots(c.sink, n, d) # {}
  BY <1>1 DEF Sink!Snapshots
<1>. QED  BY <1>2, <1>3, <1>4

\* A day that was shipped has a snapshot, and none later than its last.
LEMMA SnapsAre ==
    ASSUME NEW c, c.sink \in SinkSet, NEW n \in SinkNodes
    PROVE  /\ Snaps(c, n) \subseteq 0..((SinkDays + 1) * PerDay)
           /\ (SinkDays + 1) * PerDay \in Nat
           /\ \A t \in Snaps(c, n) : \E d \in Sink!Repositories(c.sink, n) : t \in Sink!Snapshots(c.sink, n, d) /\ c.sink[n][d] > 0
           /\ Sink!Repositories(c.sink, n) \subseteq 1..SinkDays
<1>1. PerDay \in Nat /\ SinkDays \in Nat
  BY ChecksAssumption
<1>2. (SinkDays + 1) * PerDay \in Nat
  BY <1>1
<1>3. ASSUME NEW d \in 1..SinkDays, NEW t \in Sink!Snapshots(c.sink, n, d) PROVE c.sink[n][d] > 0 /\ d \in Sink!Repositories(c.sink, n)
  <2>1. c.sink[n][d] \in -1..(PerDay - 1)
    BY DEF SinkSet
  <2>2. \E i \in 1..(PerDay - 1) : i <= c.sink[n][d]
    BY SnapTimes
  <2>. QED  BY <1>1, <2>1, <2>2 DEF Sink!Repositories
<1>4. Sink!Repositories(c.sink, n) \subseteq 1..SinkDays
  BY DEF Sink!Repositories
<1>5. ASSUME NEW t \in Snaps(c, n) PROVE \E d \in 1..SinkDays : t \in Sink!Snapshots(c.sink, n, d)
  BY DEF Snaps
<1>6. Snaps(c, n) \subseteq 0..((SinkDays + 1) * PerDay)
  BY <1>5, SnapTimes
<1>. QED  BY <1>2, <1>3, <1>4, <1>5, <1>6

\* The two newest days.
LEMMA Last2Is ==
    ASSUME NEW days \in SUBSET (1..SinkDays)
    PROVE  /\ Sink!Last2(days) \subseteq days
           /\ \A d \in Sink!Last2(days) : \A e \in days : e > d => e \in Sink!Last2(days)
           /\ \A m \in days : (\A d \in days : d <= m) => m \in Sink!Last2(days)
           /\ \A d \in Sink!Last2(days) : \A e, f \in days : ~(d < e /\ e < f)
<1>1. days \subseteq Nat
  OBVIOUS
<1>. QED  BY <1>1 DEF Sink!Last2

\* A snapshot of a day is a time within it.
OfDay(t, d) == \E i \in 1..(PerDay - 1) : t = d * PerDay + i
LEMMA SnapOfDay ==
    ASSUME NEW c, c.sink \in SinkSet, NEW n \in SinkNodes, NEW d \in 1..SinkDays, NEW t \in Sink!Snapshots(c.sink, n, d)
    PROVE  OfDay(t, d)
<1>1. c.sink[n][d] \in -1..(PerDay - 1) /\ PerDay \in Nat
  BY ChecksAssumption DEF SinkSet
<1>2. PICK i \in 1..c.sink[n][d] : t = d * PerDay + i
  BY DEF Sink!Snapshots
<1>3. i \in 1..(PerDay - 1)
  BY <1>1
<1>. QED  BY <1>2, <1>3, Zenon DEF OfDay

\* And older than every one of a later day.
LEMMA LaterDaysAreNewer ==
    ASSUME NEW c, c.sink \in SinkSet, NEW n \in SinkNodes, NEW d \in 1..SinkDays, NEW e \in 1..SinkDays, d < e,
           NEW t \in Sink!Snapshots(c.sink, n, d), NEW u \in Sink!Snapshots(c.sink, n, e)
    PROVE  t < u
<1>1. PICK i \in 1..(PerDay - 1) : t = d * PerDay + i
  BY SnapOfDay DEF OfDay
<1>2. PICK j \in 1..(PerDay - 1) : u = e * PerDay + j
  BY SnapOfDay DEF OfDay
<1>3. d \in Nat /\ e \in Nat /\ PerDay \in Nat
  BY ChecksAssumption
<1>4. d * PerDay + i < e * PerDay + j
  BY <1>3, DaysOrdered
<1>. QED  BY <1>1, <1>2, <1>4

SinkRead(c, n) == {d \in Sink!Last2(Sink!Repositories(c.sink, n)) : <<"snapshots", n, d>> \notin c.fails}
SinkFound(c, n) == UNION {Sink!Snapshots(c.sink, n, d) : d \in SinkRead(c, n)}

\* What is found of a node was written.
LEMMA FoundIsThere ==
    ASSUME NEW c, c.sink \in SinkSet, NEW n \in SinkNodes
    PROVE  /\ SinkFound(c, n) \subseteq Snaps(c, n)
           /\ SinkRead(c, n) \subseteq Sink!Repositories(c.sink, n)
           /\ Sink!Repositories(c.sink, n) \in SUBSET (1..SinkDays)
           /\ \A d \in SinkRead(c, n) : Sink!Snapshots(c.sink, n, d) \subseteq SinkFound(c, n)
           /\ \A t \in SinkFound(c, n) : \E d \in SinkRead(c, n) : t \in Sink!Snapshots(c.sink, n, d)
<1>1. Sink!Repositories(c.sink, n) \in SUBSET (1..SinkDays)
  BY SnapsAre
<1>2. SinkRead(c, n) \subseteq Sink!Repositories(c.sink, n)
  BY <1>1, Last2Is DEF SinkRead
<1>. QED  BY <1>1, <1>2 DEF SinkFound, Snaps

\* What a cycle found of a node is older than a snapshot only if it did not read the
\* newest day.
LEMMA NewestDayUnread ==
    ASSUME NEW c, c.sink \in SinkSet, NEW n \in SinkNodes, SinkFound(c, n) # {},
           NEW t \in Snaps(c, n), \A u \in SinkFound(c, n) : u < t
    PROVE  <<"snapshots", n, Sink!Newest(Sink!Repositories(c.sink, n))>> \in c.fails
<1>. DEFINE days == Sink!Repositories(c.sink, n)
            newest == Sink!Newest(days)
<1>0. days \in SUBSET (1..SinkDays) /\ days \in SUBSET (0..SinkDays) /\ SinkDays \in Nat
  BY FoundIsThere, ChecksAssumption
<1>1. PICK d \in days : t \in Sink!Snapshots(c.sink, n, d)
  BY SnapsAre
<1>2. newest \in days /\ \A e \in days : e <= newest
  <2>. HIDE DEF days
  <2>. QED  BY <1>0, <1>1, NewestIs
<1>3. newest \in Sink!Last2(days)
  <2>. HIDE DEF days, newest
  <2>. QED  BY <1>0, <1>2, Last2Is
<1>4. PICK u \in SinkFound(c, n) : TRUE
  OBVIOUS
<1>5. PICK e \in SinkRead(c, n) : u \in Sink!Snapshots(c.sink, n, e)
  BY FoundIsThere
<1>6. e \in days /\ e \in Sink!Last2(days)
  BY <1>5, FoundIsThere DEF SinkRead
<1>7. SUFFICES ASSUME newest \in SinkRead(c, n) PROVE FALSE
  BY <1>3 DEF SinkRead
<1>8. d \notin SinkRead(c, n)
  <2>. SUFFICES ASSUME d \in SinkRead(c, n) PROVE FALSE
    OBVIOUS
  <2>1. t \in SinkFound(c, n)
    BY <1>1, FoundIsThere
  <2>2. t \in Nat
    BY <1>0, SnapsAre
  <2>. QED  BY <2>1, <2>2
<1>9. d \in Nat /\ e \in Nat /\ newest \in Nat /\ d \in 1..SinkDays /\ e \in 1..SinkDays
  BY <1>0, <1>1, <1>2, <1>6
<1>10. d < newest
  BY <1>2, <1>7, <1>8, <1>9
<1>11. u < t /\ u \in Nat /\ t \in Nat
  BY <1>4, FoundIsThere, SnapsAre
<1>12. e < d
  <2>1. ~(d < e)
    BY <1>1, <1>5, <1>9, <1>11, LaterDaysAreNewer
  <2>2. d # e
    BY <1>5, <1>8
  <2>. QED  BY <2>1, <2>2, <1>9
<1>. QED  BY <1>0, <1>1, <1>2, <1>6, <1>10, <1>12, Last2Is

SinkTime == Nat \cup {Sink!NoTime}
SinkKnown == UNION {[nodes -> SinkTime] : nodes \in SUBSET SinkNodes}

\* What a cycle answers: the nodes it could list, each with the newest snapshot it could read.
LEMMA CheckFinds ==
    ASSUME NEW c, c.sink \in SinkSet
    PROVE  /\ Sink!Check(c).ok \in BOOLEAN
           /\ Sink!Check(c).nodes \in SinkKnown
           /\ \A n \in DOMAIN Sink!Check(c).nodes :
                /\ n \in SinkNodes
                /\ Sink!Check(c).nodes[n] = Sink!Newest(SinkFound(c, n))
                /\ Sink!Check(c).nodes[n] = Sink!NoTime \/ Sink!Check(c).nodes[n] \in Snaps(c, n)
           /\ Sink!Check(c).ok => \A n \in SinkNodes :
                Sink!Repositories(c.sink, n) # {} =>
                  n \in DOMAIN Sink!Check(c).nodes /\ SinkRead(c, n) = Sink!Last2(Sink!Repositories(c.sink, n))
<1>. DEFINE listed == IF <<"top">> \in c.fails THEN {} ELSE {n \in SinkNodes : Sink!Repositories(c.sink, n) # {}}
            nodes == {n \in listed : <<"days", n>> \notin c.fails}
            res == Sink!Check(c)
<1>1. /\ res.nodes = [n \in nodes |-> Sink!Newest(SinkFound(c, n))]
      /\ res.ok = (/\ <<"top">> \notin c.fails
                   /\ \A n \in listed : <<"days", n>> \notin c.fails /\ SinkRead(c, n) = Sink!Last2(Sink!Repositories(c.sink, n)))
  BY DEF Sink!Check, SinkFound, SinkRead
<1>2. ASSUME NEW n \in SinkNodes
      PROVE  /\ Sink!Newest(SinkFound(c, n)) = Sink!NoTime \/ Sink!Newest(SinkFound(c, n)) \in Snaps(c, n)
             /\ Sink!Newest(SinkFound(c, n)) \in SinkTime
  <2>1. SinkFound(c, n) \in SUBSET (0..((SinkDays + 1) * PerDay)) /\ (SinkDays + 1) * PerDay \in Nat /\ SinkFound(c, n) \subseteq Snaps(c, n)
    BY SnapsAre, FoundIsThere
  <2>2. Sink!Newest(SinkFound(c, n)) = Sink!NoTime \/ Sink!Newest(SinkFound(c, n)) \in SinkFound(c, n)
    BY <2>1, NewestIs
  <2>. QED  BY <2>1, <2>2 DEF SinkTime
<1>3. nodes \in SUBSET SinkNodes /\ listed \subseteq SinkNodes
  OBVIOUS
<1>. HIDE DEF res
<1>4. res.nodes \in SinkKnown
  <2>. HIDE DEF nodes
  <2>1. res.nodes \in [nodes -> SinkTime]
    BY <1>1, <1>2, <1>3
  <2>. QED  BY <1>3, <2>1 DEF SinkKnown
<1>5. ASSUME NEW n \in DOMAIN res.nodes
      PROVE  n \in SinkNodes /\ res.nodes[n] = Sink!Newest(SinkFound(c, n)) /\ (res.nodes[n] = Sink!NoTime \/ res.nodes[n] \in Snaps(c, n))
  <2>. HIDE DEF nodes
  <2>. QED  BY <1>1, <1>2, <1>3
<1>6. res.ok \in BOOLEAN
  BY <1>1, Zenon
<1>7. ASSUME res.ok, NEW n \in SinkNodes, Sink!Repositories(c.sink, n) # {}
      PROVE  n \in DOMAIN res.nodes /\ SinkRead(c, n) = Sink!Last2(Sink!Repositories(c.sink, n))
  <2>1. n \in listed
    BY <1>1, <1>7, Zenon
  <2>2. n \in nodes /\ SinkRead(c, n) = Sink!Last2(Sink!Repositories(c.sink, n))
    BY <1>1, <1>7, <2>1, Zenon
  <2>3. DOMAIN res.nodes = nodes
    BY <1>1
  <2>. QED  BY <2>2, <2>3
<1>. QED  BY <1>4, <1>5, <1>6, <1>7 DEF res

SinkState == [ok : BOOLEAN, known : SinkKnown]
SinkInit == [ok |-> TRUE, known |-> <<>>]
SinkCycle(was, c) == LET res == Sink!Check(c) IN [ok |-> res.ok, known |-> Sink!Merged(was.known, res.nodes)]
SinkStep(m, cycles) == [p \in (1..m) \X SinkState |-> SinkCycle(p[2], cycles[p[1]])]

\* A cycle keeps the time of every node it found nothing of.
LEMMA CycleKeeps ==
    ASSUME NEW was \in SinkState, NEW c, c.sink \in SinkSet
    PROVE  /\ SinkCycle(was, c) \in SinkState
           /\ SinkCycle(was, c).ok = Sink!Check(c).ok
           /\ \A n \in DOMAIN SinkCycle(was, c).known :
                \/ /\ n \in DOMAIN Sink!Check(c).nodes
                   /\ SinkCycle(was, c).known[n] = Sink!Check(c).nodes[n]
                   /\ Sink!Check(c).nodes[n] # Sink!NoTime \/ n \notin DOMAIN was.known
                \/ n \in DOMAIN was.known /\ SinkCycle(was, c).known[n] = was.known[n]
           /\ \A n \in DOMAIN was.known : n \in DOMAIN SinkCycle(was, c).known
           /\ \A n \in DOMAIN Sink!Check(c).nodes :
                /\ n \in DOMAIN SinkCycle(was, c).known
                /\ Sink!Check(c).nodes[n] # Sink!NoTime => SinkCycle(was, c).known[n] = Sink!Check(c).nodes[n]
<1>. DEFINE nodes == Sink!Check(c).nodes
            is == SinkCycle(was, c)
<1>1. /\ is.ok = Sink!Check(c).ok
      /\ is.known = Sink!Merged(was.known, nodes)
      /\ is = [ok |-> is.ok, known |-> is.known]
  BY DEF SinkCycle
<1>2. /\ Sink!Check(c).ok \in BOOLEAN
      /\ nodes \in SinkKnown
  BY CheckFinds
<1>. HIDE DEF nodes, is
<1>3. is.known = [n \in DOMAIN was.known \cup DOMAIN nodes |->
                    IF n \in DOMAIN nodes /\ (nodes[n] # Sink!NoTime \/ n \notin DOMAIN was.known) THEN nodes[n] ELSE was.known[n]]
  BY <1>1 DEF Sink!Merged
<1>4. /\ \A n \in DOMAIN nodes : n \in SinkNodes /\ nodes[n] \in SinkTime
      /\ \A n \in DOMAIN was.known : n \in SinkNodes /\ was.known[n] \in SinkTime
  BY <1>2 DEF SinkKnown, SinkState
<1>5. is.known \in [DOMAIN was.known \cup DOMAIN nodes -> SinkTime] /\ DOMAIN was.known \cup DOMAIN nodes \in SUBSET SinkNodes
  BY <1>3, <1>4
<1>6. is.known \in SinkKnown
  BY <1>5 DEF SinkKnown
<1>7. is \in SinkState
  BY <1>1, <1>2, <1>6 DEF SinkState
<1>. QED  BY <1>1, <1>3, <1>7 DEF is, nodes

KnownIsReal(known, c) == \A n \in DOMAIN known : n \in SinkNodes /\ (known[n] = Sink!NoTime \/ known[n] \in Snaps(c, n))

\* What is known after a cycle is in the sink, if what was known before is.
LEMMA CycleIsReal ==
    ASSUME NEW was \in SinkState, NEW c, c.sink \in SinkSet, KnownIsReal(was.known, c)
    PROVE  KnownIsReal(SinkCycle(was, c).known, c)
<1>. DEFINE is == SinkCycle(was, c)
            nodes == Sink!Check(c).nodes
<1>1. /\ \A n \in DOMAIN is.known : \/ n \in DOMAIN nodes /\ is.known[n] = nodes[n]
                                    \/ n \in DOMAIN was.known /\ is.known[n] = was.known[n]
  BY CycleKeeps
<1>2. \A n \in DOMAIN nodes : n \in SinkNodes /\ (nodes[n] = Sink!NoTime \/ nodes[n] \in Snaps(c, n))
  BY CheckFinds
<1>. HIDE DEF is, nodes
<1>3. KnownIsReal(is.known, c)
  BY <1>1, <1>2 DEF KnownIsReal
<1>. QED  BY <1>3 DEF is

\* The newest snapshot of a node that ever delivered.
LEMMA TruthIs ==
    ASSUME NEW c, c.sink \in SinkSet, NEW n \in SinkNodes, NEW t \in Snaps(c, n)
    PROVE  /\ Sink!Truth(c, n) \in Snaps(c, n) /\ t <= Sink!Truth(c, n)
           /\ t \in Nat /\ Sink!Truth(c, n) \in Nat
<1>. DEFINE Top == (SinkDays + 1) * PerDay
<1>1. Snaps(c, n) \in SUBSET (0..Top) /\ Top \in Nat
  BY SnapsAre
<1>2. Sink!Truth(c, n) = Sink!Newest(Snaps(c, n))
  BY DEF Sink!Truth, Snaps
<1>. HIDE DEF Top
<1>3. Sink!Truth(c, n) \in Snaps(c, n) /\ t <= Sink!Truth(c, n)
  BY <1>1, <1>2, NewestIs
<1>. QED  BY <1>1, <1>3

\* What a cycle found of a node, when it found something.
LEMMA FoundIs ==
    ASSUME NEW c, c.sink \in SinkSet, NEW n \in SinkNodes
    PROVE  /\ SinkFound(c, n) = {} => Sink!Newest(SinkFound(c, n)) = Sink!NoTime
           /\ SinkFound(c, n) # {} => /\ Sink!Newest(SinkFound(c, n)) \in SinkFound(c, n)
                                      /\ \A u \in SinkFound(c, n) : u \in Nat /\ u <= Sink!Newest(SinkFound(c, n))
           /\ SinkFound(c, n) \subseteq Snaps(c, n)
<1>. DEFINE Top == (SinkDays + 1) * PerDay
<1>1. Snaps(c, n) \in SUBSET (0..Top) /\ Top \in Nat
  BY SnapsAre
<1>2. SinkFound(c, n) \subseteq Snaps(c, n)
  BY FoundIsThere
<1>. DEFINE found == SinkFound(c, n)
<1>. HIDE DEF Top
<1>3. found \in SUBSET (0..Top)
  BY <1>1, <1>2
<1>. HIDE DEF found
<1>4. /\ found = {} => Sink!Newest(found) = Sink!NoTime
      /\ found # {} => Sink!Newest(found) \in found /\ \A u \in found : u <= Sink!Newest(found)
  BY <1>1, <1>3, NewestIs
<1>5. \A u \in found : u \in Nat
  BY <1>1, <1>3
<1>. QED  BY <1>2, <1>4, <1>5 DEF found

\* A node that was shown stays so, with an age that is real, and older than before only
\* where the newest day was not read.
LEMMA CycleKeepsGrowing ==
    ASSUME NEW was \in SinkState, NEW c, c.sink \in SinkSet, KnownIsReal(was.known, c), NEW n \in Sink!Shown(was)
    PROVE  /\ n \in Sink!Shown(SinkCycle(was, c))
           /\ SinkCycle(was, c).known[n] <= Sink!Truth(c, n)
           /\ SinkCycle(was, c).known[n] < was.known[n] =>
                <<"snapshots", n, Sink!Newest(Sink!Repositories(c.sink, n))>> \in c.fails
<1>. DEFINE is == SinkCycle(was, c)
            nodes == Sink!Check(c).nodes
<1>1. n \in DOMAIN was.known /\ n \in SinkNodes /\ was.known[n] # Sink!NoTime /\ was.known[n] \in Snaps(c, n)
  BY DEF Sink!Shown, KnownIsReal
<1>2. /\ n \in DOMAIN is.known
      /\ \/ n \in DOMAIN nodes /\ is.known[n] = nodes[n] /\ nodes[n] # Sink!NoTime
         \/ is.known[n] = was.known[n]
  BY <1>1, CycleKeeps
<1>3. n \in DOMAIN nodes => nodes[n] = Sink!Newest(SinkFound(c, n))
  BY CheckFinds
<1>. HIDE DEF is, nodes
<1>4. is.known[n] \in Snaps(c, n)
  BY <1>1, <1>2, <1>3, FoundIs
<1>5. n \in Sink!Shown(is)
  <2>1. is.known[n] \in Nat
    BY <1>1, <1>4, TruthIs
  <2>. QED  BY <1>2, <2>1 DEF Sink!Shown, Sink!NoTime
<1>6. is.known[n] <= Sink!Truth(c, n)
  BY <1>1, <1>4, TruthIs
<1>7. ASSUME is.known[n] < was.known[n]
      PROVE  <<"snapshots", n, Sink!Newest(Sink!Repositories(c.sink, n))>> \in c.fails
  <2>1. was.known[n] \in Nat /\ is.known[n] \in Nat
    BY <1>1, <1>4, TruthIs
  <2>2. n \in DOMAIN nodes /\ is.known[n] = nodes[n] /\ nodes[n] # Sink!NoTime
    BY <1>2, <1>7, <2>1
  <2>3. SinkFound(c, n) # {} /\ \A u \in SinkFound(c, n) : u \in Nat /\ u <= is.known[n]
    BY <1>1, <1>3, <2>2, FoundIs
  <2>4. \A u \in SinkFound(c, n) : u < was.known[n]
    BY <1>7, <2>1, <2>3
  <2>. QED  BY <1>1, <2>3, <2>4, NewestDayUnread
<1>. QED  BY <1>5, <1>6, <1>7 DEF is

\* A cycle that is ok shows the truth of a node that delivered.
LEMMA CycleOkIsTrue ==
    ASSUME NEW was \in SinkState, NEW c, c.sink \in SinkSet, SinkCycle(was, c).ok = TRUE, NEW n \in SinkNodes,
           NEW d \in Sink!Last2(Sink!Repositories(c.sink, n)), c.sink[n][d] > 0
    PROVE  n \in Sink!Shown(SinkCycle(was, c)) /\ SinkCycle(was, c).known[n] = Sink!Truth(c, n)
<1>. DEFINE is == SinkCycle(was, c)
            nodes == Sink!Check(c).nodes
            days == Sink!Repositories(c.sink, n)
<1>1. days \in SUBSET (1..SinkDays) /\ d \in days /\ d \in 1..SinkDays
  BY FoundIsThere, Last2Is
<1>2. Sink!Check(c).ok
  BY CycleKeeps
<1>3. n \in DOMAIN nodes /\ SinkRead(c, n) = Sink!Last2(days) /\ nodes[n] = Sink!Newest(SinkFound(c, n))
  BY <1>1, <1>2, CheckFinds
<1>4. Sink!Snapshots(c.sink, n, d) # {} /\ Sink!Snapshots(c.sink, n, d) \subseteq SinkFound(c, n)
  BY <1>1, <1>3, SnapTimes, FoundIsThere
<1>5. /\ nodes[n] \in SinkFound(c, n) /\ nodes[n] \in Snaps(c, n) /\ nodes[n] \in Nat
      /\ \A u \in SinkFound(c, n) : u \in Nat /\ u <= nodes[n]
  BY <1>3, <1>4, FoundIs
<1>6. n \in DOMAIN is.known /\ (nodes[n] # Sink!NoTime => is.known[n] = nodes[n])
  BY <1>3, CycleKeeps
<1>7. ASSUME NEW t \in Snaps(c, n) PROVE t <= nodes[n]
  <2>1. PICK e \in days : t \in Sink!Snapshots(c.sink, n, e)
    BY SnapsAre
  <2>2. CASE e \in SinkRead(c, n)
    <3>1. t \in SinkFound(c, n)
      BY <2>1, <2>2, FoundIsThere
    <3>. QED  BY <1>5, <3>1
  <2>3. CASE e \notin SinkRead(c, n)
    <3>1. ~(d < e) /\ d # e
      BY <1>1, <1>3, <2>3, Last2Is
    <3>2. e < d /\ e \in 1..SinkDays
      BY <1>1, <3>1
    <3>3. PICK u \in Sink!Snapshots(c.sink, n, d) : TRUE
      BY <1>4
    <3>4. t < u
      BY <1>1, <2>1, <3>2, LaterDaysAreNewer
    <3>5. u <= nodes[n] /\ u \in Nat
      BY <1>4, <1>5
    <3>6. t \in Nat
      BY TruthIs
    <3>. HIDE DEF nodes
    <3>. QED  BY <1>5, <3>4, <3>5, <3>6
  <2>. QED  BY <2>2, <2>3
<1>8. Sink!Truth(c, n) \in Snaps(c, n) /\ nodes[n] <= Sink!Truth(c, n) /\ Sink!Truth(c, n) \in Nat
  BY <1>5, TruthIs
<1>9. Sink!Truth(c, n) <= nodes[n]
  BY <1>7, <1>8
<1>. HIDE DEF nodes, is
<1>10. nodes[n] = Sink!Truth(c, n) /\ nodes[n] # Sink!NoTime
  BY <1>5, <1>8, <1>9 DEF Sink!NoTime
<1>11. n \in Sink!Shown(is) /\ is.known[n] = Sink!Truth(c, n)
  BY <1>6, <1>10 DEF Sink!Shown
<1>. QED  BY <1>11 DEF is

\* The history of the checker is a run of its cycles.
LEMMA SinkHistory ==
    ASSUME NEW m \in Nat, NEW cycles, Len(cycles) = m, \A k \in 1..m : cycles[k].sink \in SinkSet
    PROVE  Sink!History(cycles) \in Runs(SinkState, SinkInit, m, SinkStep(m, cycles))
<1>. DEFINE Is(g) == g = [k \in 0..m |-> IF k = 0 THEN SinkInit ELSE SinkCycle(g[k-1], cycles[k])]
            step == SinkStep(m, cycles)
            f == Sink!History(cycles)
<1>2. SinkInit \in SinkState
  <2>1. <<>> \in [{} -> SinkTime]
    OBVIOUS
  <2>2. <<>> \in SinkKnown
    BY <2>1 DEF SinkKnown
  <2>. QED  BY <2>2 DEF SinkInit, SinkState
<1>3. step \in [(1..m) \X SinkState -> SinkState]
  BY CycleKeeps DEF SinkStep
<1>4. \A k \in 1..m : \A was \in SinkState : step[<<k, was>>] = SinkCycle(was, cycles[k])
  BY DEF SinkStep
<1>. HIDE DEF step
<1>5. PICK g \in Runs(SinkState, SinkInit, m, step) : TRUE
  <2>1. Runs(SinkState, SinkInit, m, step) # {}
    BY ONLY m \in Nat, <1>2, <1>3, Recursion
  <2>. QED  BY <2>1
<1>6. Is(g)
  <2>1. g \in [0..m -> SinkState] /\ g[0] = SinkInit
    BY <1>5 DEF Runs
  <2>2. ASSUME NEW k \in 1..m PROVE g[k] = SinkCycle(g[k-1], cycles[k])
    <3>1. g[k-1] \in SinkState
      BY <2>1, Before
    <3>2. g[k] = step[<<k, g[k-1]>>]
      BY <1>5 DEF Runs
    <3>. QED  BY <1>4, <3>1, <3>2
  <2>. QED  BY <2>1, <2>2
<1>7. f = CHOOSE x : Is(x)
  BY DEF Sink!History, SinkInit, SinkCycle
<1>8. Is(f)
  <2>. HIDE DEF Is
  <2>. QED  BY <1>6, <1>7
<1>. HIDE DEF f
<1>9. /\ f = [k \in 0..m |-> f[k]]
      /\ f[0] = SinkInit
      /\ \A k \in 1..m : f[k-1] \in SinkState => f[k] = step[<<k, f[k-1]>>]
  BY <1>4, <1>8
<1>10. f \in Runs(SinkState, SinkInit, m, step)
  BY <1>2, <1>3, <1>9, RunsWhole
<1>. QED  BY <1>10 DEF f, step

\* However many cycles the checker runs, over any number of nodes: one that is ok shows the truth of
\* every node that delivered, and a node once shown stays so, with an age that falls back only where the
\* newest day could not be read (check.py).
THEOREM SinkFaithful ==
    ASSUME NEW m \in Nat, m > 0, NEW cycles, Len(cycles) = m,
           \A k \in 1..m : cycles[k].sink \in SinkSet,
           \A k \in 2..m : Sink!Grown(cycles[k-1].sink, cycles[k].sink)
    PROVE  Sink!OkIsTrue(cycles) /\ Sink!AgeKeepsGrowing(cycles)
<1>. DEFINE f == Sink!History(cycles)
<1>1. f \in Runs(SinkState, SinkInit, m, SinkStep(m, cycles))
  BY SinkHistory
<1>. HIDE DEF f
<1>2. f[0] = SinkInit /\ f[0] \in SinkState
  BY <1>1 DEF Runs
<1>3. ASSUME NEW k \in 1..m
      PROVE  f[k-1] \in SinkState /\ f[k] = SinkCycle(f[k-1], cycles[k]) /\ cycles[k].sink \in SinkSet
  <2>1. f[k-1] \in SinkState
    BY <1>1, Before DEF Runs
  <2>2. f[k] = SinkStep(m, cycles)[<<k, f[k-1]>>]
    BY <1>1 DEF Runs
  <2>. QED  BY <2>1, <2>2 DEF SinkStep
<1>4. ASSUME NEW k \in 1..m, k > 1, NEW n \in SinkNodes PROVE Snaps(cycles[k-1], n) \subseteq Snaps(cycles[k], n)
  <2>0. k \in 2..m
    BY <1>4
  <2>. SUFFICES ASSUME NEW d \in 1..SinkDays
                PROVE  Sink!Snapshots(cycles[k-1].sink, n, d) \subseteq Sink!Snapshots(cycles[k].sink, n, d)
    BY DEF Snaps
  <2>1. cycles[k-1].sink[n][d] <= cycles[k].sink[n][d]
    <3>1. Sink!Grown(cycles[k-1].sink, cycles[k].sink)
      BY <2>0
    <3>. QED  BY ONLY <3>1, n \in SinkNodes, d \in 1..SinkDays DEF Sink!Grown
  <2>2. k - 1 \in 1..m /\ k \in 1..m
    BY <1>4
  <2>3. cycles[k-1].sink[n][d] \in -1..(PerDay - 1) /\ cycles[k].sink[n][d] \in -1..(PerDay - 1) /\ PerDay \in Nat
    <3>1. cycles[k-1].sink \in SinkSet /\ cycles[k].sink \in SinkSet
      BY <2>2
    <3>2. \A x \in SinkSet : x[n][d] \in -1..(PerDay - 1)
      BY DEF SinkSet
    <3>. QED  BY <3>1, <3>2, ChecksAssumption
  <2>4. 1..cycles[k-1].sink[n][d] \subseteq 1..cycles[k].sink[n][d]
    BY <2>1, <2>3
  <2>. QED  BY <2>4, Zenon DEF Sink!Snapshots
\* What is known of a node is a snapshot of it.
<1>. DEFINE Kept == {k \in 0..m : \/ k = 0
                                  \/ KnownIsReal(f[k].known, cycles[k])}
<1>5. ASSUME NEW k \in 1..m, k - 1 \in Kept PROVE KnownIsReal(f[k-1].known, cycles[k])
  <2>1. CASE k = 1
    <3>1. DOMAIN <<>> = {}
      OBVIOUS
    <3>. QED  BY <1>2, <2>1, <3>1 DEF KnownIsReal, SinkInit
  <2>2. CASE k > 1
    <3>1. KnownIsReal(f[k-1].known, cycles[k-1])
      BY <1>5, <2>2
    <3>. QED  BY <1>4, <2>2, <3>1 DEF KnownIsReal
  <2>. QED  BY <2>1, <2>2
<1>6. ASSUME NEW k \in 1..m, k - 1 \in Kept PROVE k \in Kept
  <2>1. KnownIsReal(f[k].known, cycles[k])
    BY <1>3, <1>5, <1>6, CycleIsReal
  <2>. QED  BY <2>1
<1>7. ASSUME NEW k \in 1..m PROVE KnownIsReal(f[k-1].known, cycles[k])
  <2>1. 0 \in Kept
    OBVIOUS
  <2>2. 0..m \subseteq Kept
    <3>. HIDE DEF Kept
    <3>. QED  BY <2>1, <1>6, Induction
  <2>. QED  BY <1>5, <2>2
<1>. HIDE DEF Kept
<1>8. Sink!AgeKeepsGrowing(cycles)
  <2>1. ASSUME NEW k \in 1..m, NEW n \in Sink!Shown(f[k-1])
        PROVE  /\ n \in Sink!Shown(f[k])
               /\ f[k].known[n] <= Sink!Truth(cycles[k], n)
               /\ f[k].known[n] < f[k-1].known[n] =>
                    <<"snapshots", n, Sink!Newest(Sink!Repositories(cycles[k].sink, n))>> \in cycles[k].fails
    BY <1>3, <1>7, CycleKeepsGrowing
  <2>. QED  BY <2>1 DEF Sink!AgeKeepsGrowing, f
<1>9. Sink!OkIsTrue(cycles)
  <2>. DEFINE c == cycles[m]
  <2>1. m \in 1..m
    OBVIOUS
  <2>2. f[m-1] \in SinkState /\ f[m] = SinkCycle(f[m-1], c) /\ c.sink \in SinkSet
    BY <1>3, <2>1
  <2>3. ASSUME f[m].ok, NEW n \in SinkNodes, NEW d \in Sink!Last2(Sink!Repositories(c.sink, n)), c.sink[n][d] > 0
        PROVE  n \in Sink!Shown(f[m]) /\ f[m].known[n] = Sink!Truth(c, n)
    <3>1. f[m] \in SinkState
      BY <2>2, CycleKeeps
    <3>2. f[m].ok = TRUE
      BY <2>3, <3>1, Zenon DEF SinkState
    <3>3. SinkCycle(f[m-1], c).ok = TRUE
      BY <2>2, <3>2, Zenon
    <3>4. n \in Sink!Shown(SinkCycle(f[m-1], c)) /\ SinkCycle(f[m-1], c).known[n] = Sink!Truth(c, n)
      <4>. DEFINE was == f[m-1]
      <4>1. was \in SinkState /\ c.sink \in SinkSet /\ SinkCycle(was, c).ok = TRUE
        BY <2>2, <3>3
      <4>. HIDE DEF was, c
      <4>2. n \in Sink!Shown(SinkCycle(was, c)) /\ SinkCycle(was, c).known[n] = Sink!Truth(c, n)
        BY <4>1, <2>3, CycleOkIsTrue
      <4>. QED  BY <4>2 DEF was
    <3>. HIDE DEF c
    <3>. QED  BY <2>2, <3>4
  <2>. QED  BY <2>3 DEF Sink!OkIsTrue, f
<1>. QED  BY <1>8, <1>9

\* The cases of the run are such cycles.
LEMMA SinkCases ==
    ASSUME NEW cycles \in Sink!Cases
    PROVE  /\ Len(cycles) = 2
           /\ \A k \in 1..2 : cycles[k].sink \in SinkSet
           /\ \A k \in 2..2 : Sink!Grown(cycles[k-1].sink, cycles[k].sink)
<1>1. PICK s \in Sink!Sinks, t \in Sink!Sinks, x \in Sink!Fails :
        cycles = <<[sink |-> s, fails |-> {}], [sink |-> t, fails |-> x]>> /\ Sink!Grown(cycles[1].sink, cycles[2].sink)
  BY DEF Sink!Cases
<1>2. Sink!Sinks \subseteq SinkSet
  BY DEF Sink!Sinks, SinkSet
<1>3. cycles[1].sink = s /\ cycles[2].sink = t
  BY <1>1
<1>4. \A k \in 1..2 : k = 1 \/ k = 2
  OBVIOUS
<1>. QED  BY <1>1, <1>2, <1>3, <1>4

-----------------------------------------------------------------------------
VexWorld(c) == /\ c.days \subseteq Int
               /\ \A s \in c.doc.statements : s.expires \in Seq(Int) /\ s.timestamp \in Int
               /\ \A e \in c.ignore.entries : e.expiredAt \in Int

\* A statement without an error today: it has its date, and fails later for that date only.
LEMMA VexStatementHolds ==
    ASSUME NEW s, s.expires \in Seq(Int), s.timestamp \in Int, NEW day \in Int, Dates!VexStatement(s, day) = {}
    PROVE  /\ s.expires[1] \in Int /\ day <= s.expires[1] /\ s.expires[1] <= s.timestamp + VexMaxDays
           /\ s.action /\ s.named /\ (s.status = "not_affected" => s.justified /\ s.impact)
           /\ \A later \in Int : later <= s.expires[1] => Dates!VexStatement(s, later) = {}
<1>1. VexMaxDays \in Nat /\ s.timestamp \in Int /\ s.expires \in Seq(Int)
  BY ChecksAssumption
<1>2. /\ Dates!VexDates(s, day) = {} /\ s.action /\ s.named /\ (s.status = "not_affected" => s.justified /\ s.impact)
      /\ s.products # {} /\ s.status \in Dates!Statuses
  BY DEF Dates!VexStatement, Dates!When
<1>3. Len(s.expires) = 1 /\ Dates!IsDate(s.expires[1]) /\ Dates!IsDate(s.timestamp)
  BY <1>2 DEF Dates!VexDates
<1>4. s.expires[1] \in Int
  BY <1>1, <1>3
<1>5. ~(s.expires[1] < day) /\ ~(s.expires[1] < s.timestamp \/ s.expires[1] - s.timestamp > VexMaxDays)
  BY <1>2, <1>3 DEF Dates!VexDates, Dates!When
<1>6. ASSUME NEW later \in Int, later <= s.expires[1] PROVE Dates!VexStatement(s, later) = {}
  <2>1. Dates!VexDates(s, later) = {}
    BY <1>1, <1>3, <1>4, <1>5, <1>6 DEF Dates!VexDates, Dates!When
  <2>. QED  BY <1>2, <2>1 DEF Dates!VexStatement, Dates!When
<1>. QED  BY <1>1, <1>2, <1>4, <1>5, <1>6

\* The same of an entry of the ignore file.
LEMMA VexEntryHolds ==
    ASSUME NEW e, e.expiredAt \in Int, NEW day \in Int, Dates!IgnoreEntry(e, day) = {}
    PROVE  /\ e.statement /\ day \in (e.expiredAt - VexMaxDays)..e.expiredAt
           /\ \A later \in Int : day < later /\ later <= e.expiredAt => Dates!IgnoreEntry(e, later) = {}
<1>1. e.expiredAt \in Int /\ VexMaxDays \in Nat
  BY ChecksAssumption
<1>2. e.statement /\ Dates!IsDate(e.expiredAt) /\ ~(e.expiredAt < day) /\ ~(e.expiredAt - day > VexMaxDays)
  BY DEF Dates!IgnoreEntry, Dates!When
<1>3. ASSUME NEW later \in Int, day < later, later <= e.expiredAt PROVE Dates!IgnoreEntry(e, later) = {}
  <2>1. ~(e.expiredAt < later) /\ ~(e.expiredAt - later > VexMaxDays)
    BY <1>1, <1>2, <1>3
  <2>. QED  BY <1>2, <2>1 DEF Dates!IgnoreEntry, Dates!When
<1>. QED  BY <1>1, <1>2, <1>3

\* For any number of statements and waivers, of any dates: check-vex.py accepts none for longer than
\* MaxDays, and a file that passed fails on a later day only for one that has expired since.
THEOREM VexFaithful ==
    ASSUME NEW c, VexWorld(c)
    PROVE  Dates!NothingForEver(c)
<1>. DEFINE passes(d) == Dates!VexExit(c.doc, c.ignore, d) = 0
<1>1. SUFFICES ASSUME NEW day \in c.days, passes(day)
      PROVE  /\ \A s \in c.doc.statements : day <= s.timestamp + VexMaxDays /\ s.action /\ s.named
             /\ c.ignore.there => \A e \in c.ignore.entries : e.statement /\ day \in (e.expiredAt - VexMaxDays)..e.expiredAt
             /\ \A s \in c.doc.statements : s.status = "not_affected" => s.justified /\ s.impact
             /\ \A later \in c.days : later > day /\ ~passes(later) =>
                  \/ \E s \in c.doc.statements : s.expires[1] < later
                  \/ c.ignore.there /\ \E e \in c.ignore.entries : e.expiredAt < later
  BY DEF Dates!NothingForEver
<1>2. /\ day \in Int /\ c.days \subseteq Int /\ VexMaxDays \in Nat
      /\ \A s \in c.doc.statements : s.expires \in Seq(Int) /\ s.timestamp \in Int
      /\ \A e \in c.ignore.entries : e.expiredAt \in Int
  BY ChecksAssumption DEF VexWorld
<1>3. /\ c.doc.readable /\ ~(c.ignore.there /\ ~c.ignore.readable)
      /\ \A s \in c.doc.statements : Dates!VexStatement(s, day) = {}
      /\ c.ignore.there => \A e \in c.ignore.entries : Dates!IgnoreEntry(e, day) = {}
  BY <1>1 DEF Dates!VexExit
<1>4. ASSUME NEW s \in c.doc.statements
      PROVE  /\ s.expires[1] \in Int /\ s.timestamp \in Int /\ day <= s.timestamp + VexMaxDays /\ s.action /\ s.named
             /\ s.status = "not_affected" => s.justified /\ s.impact
             /\ \A later \in Int : later <= s.expires[1] => Dates!VexStatement(s, later) = {}
  BY <1>2, <1>3, VexStatementHolds
<1>5. ASSUME NEW e \in c.ignore.entries, c.ignore.there
      PROVE  /\ e.statement /\ day \in (e.expiredAt - VexMaxDays)..e.expiredAt /\ e.expiredAt \in Int
             /\ \A later \in Int : day < later /\ later <= e.expiredAt => Dates!IgnoreEntry(e, later) = {}
  BY <1>2, <1>3, <1>5, VexEntryHolds
<1>6. ASSUME NEW later \in c.days, later > day, ~passes(later)
      PROVE  \/ \E s \in c.doc.statements : s.expires[1] < later
             \/ c.ignore.there /\ \E e \in c.ignore.entries : e.expiredAt < later
  <2>. SUFFICES ASSUME \A s \in c.doc.statements : ~(s.expires[1] < later),
                       c.ignore.there => \A e \in c.ignore.entries : ~(e.expiredAt < later)
                PROVE  FALSE
    OBVIOUS
  <2>1. later \in Int
    BY <1>2
  <2>2. \A s \in c.doc.statements : Dates!VexStatement(s, later) = {}
    BY <2>1, <1>4
  <2>3. c.ignore.there => \A e \in c.ignore.entries : Dates!IgnoreEntry(e, later) = {}
    BY <2>1, <1>2, <1>5, <1>6
  <2>. QED  BY <2>2, <2>3, <1>3, <1>6 DEF Dates!VexExit
<1>. QED  BY <1>4, <1>5, <1>6

\* The cases of the run are such worlds.
LEMMA VexCasesAre ==
    ASSUME NEW c \in Dates!VexCases
    PROVE  VexWorld(c)
<1>1. ASSUME NEW st, NEW j, NEW i, NEW a, NEW e \in Seq(Int), NEW t \in Int
      PROVE  /\ Dates!Statement(st, j, i, a, e, t).expires \in Seq(Int)
             /\ Dates!Statement(st, j, i, a, e, t).timestamp \in Int
  BY DEF Dates!Statement
<1>2. <<>> \in Seq(Int) /\ <<2, 3>> \in Seq(Int) /\ <<3>> \in Seq(Int) /\ \A d \in Int : <<d>> \in Seq(Int)
  OBVIOUS
<1>. DEFINE D == {Dates!Bad, 0, 2, 4, 5, 7}
            E == {<<>>, <<2, 3>>} \cup {<<d>> : d \in D}
            T == {Dates!Bad, 0, 1, 2}
<1>3. D \subseteq Int /\ T \subseteq Int /\ {Dates!Bad, 1, 3, 6} \subseteq Int /\ 0..8 \subseteq Int /\ 1 \in Int
  BY DEF Dates!Bad
<1>. HIDE DEF D, T
<1>4. E \subseteq Seq(Int)
  BY <1>2, <1>3
<1>. HIDE DEF E
<1>5. ASSUME NEW s \in Dates!Statements PROVE s.expires \in Seq(Int) /\ s.timestamp \in Int
  <2>1. \/ \E e \in E, t \in T : s = Dates!Dated(e, t)
        \/ \E st \in {"not_affected", "fixed", "maybe"}, j, i, a \in BOOLEAN : s = Dates!Statement(st, j, i, a, <<3>>, 1)
    <3>. DEFINE A == {Dates!Dated(e, t) : e \in E, t \in T}
                B == {Dates!Statement(st, j, i, a, <<3>>, 1) : st \in {"not_affected", "fixed", "maybe"}, j, i, a \in BOOLEAN}
    <3>1. Dates!Statements = A \cup B
      BY DEF Dates!Statements, E, T, D
    <3>2. s \in A => \E e \in E, t \in T : s = Dates!Dated(e, t)
      OBVIOUS
    <3>3. s \in B => \E st \in {"not_affected", "fixed", "maybe"}, j, i, a \in BOOLEAN : s = Dates!Statement(st, j, i, a, <<3>>, 1)
      OBVIOUS
    <3>. HIDE DEF A, B
    <3>. QED  BY <3>1, <3>2, <3>3
  <2>2. ASSUME NEW e \in E, NEW t \in T PROVE Dates!Dated(e, t).expires \in Seq(Int) /\ Dates!Dated(e, t).timestamp \in Int
    BY <1>1, <1>2, <1>3, <1>4 DEF Dates!Dated
  <2>3. ASSUME NEW st, NEW j, NEW i, NEW a
        PROVE  Dates!Statement(st, j, i, a, <<3>>, 1).expires \in Seq(Int) /\ Dates!Statement(st, j, i, a, <<3>>, 1).timestamp \in Int
    BY <1>1, <1>2, <1>3, Zenon
  <2>. QED  BY <2>1, <2>2, <2>3, Zenon
<1>6. Dates!Dated(<<3>>, 1).expires \in Seq(Int) /\ Dates!Dated(<<3>>, 1).timestamp \in Int
  BY <1>1, <1>2, <1>3 DEF Dates!Dated
<1>7. ASSUME NEW i \in Dates!Ignores, NEW e \in i.entries PROVE e.expiredAt \in Int
  BY <1>3 DEF Dates!Ignores
<1>8. CASE \E s \in Dates!Statements : c = [doc |-> [readable |-> TRUE, statements |-> {s}], ignore |-> Dates!NoIgnore, days |-> 0..8]
  BY <1>3, <1>5, <1>8 DEF VexWorld, Dates!NoIgnore
<1>9. CASE \E r \in BOOLEAN, i \in Dates!Ignores : c = [doc |-> [readable |-> r, statements |-> {Dates!Dated(<<3>>, 1)}], ignore |-> i, days |-> 0..8]
  BY <1>3, <1>6, <1>7, <1>9 DEF VexWorld
<1>10. \/ \E s \in Dates!Statements : c = [doc |-> [readable |-> TRUE, statements |-> {s}], ignore |-> Dates!NoIgnore, days |-> 0..8]
       \/ \E r \in BOOLEAN, i \in Dates!Ignores : c = [doc |-> [readable |-> r, statements |-> {Dates!Dated(<<3>>, 1)}], ignore |-> i, days |-> 0..8]
  BY DEF Dates!VexCases
<1>. QED  BY <1>8, <1>9, <1>10

EolRow(r) == r.eol.day \in Int /\ r.review \in Int /\ (r.waiver # <<>> => r.waiver[1].until \in Int)
EolWorld(c) == /\ c.days \subseteq Int /\ c.cal.snapshot \in Int
               /\ \A r \in Dates!ToSet(c.cal.rows) : EolRow(r)

\* What a row warns of tomorrow: all it warned of today, but for an end that was near.
LEMMA RowWarningsStay ==
    ASSUME NEW r, EolRow(r), NEW tree, NEW today \in Int, NEW later \in Int, later > today, NEW w \in Dates!RowWarnings(r, tree, today)
    PROVE  w = <<r.id, "soon">> \/ w \in Dates!RowWarnings(r, tree, later)
<1>1. Dates!RowUnread(r, tree) = {}
  BY DEF Dates!RowWarnings
<1>2. ~Dates!Waived(r, today) => ~Dates!Waived(r, later)
  BY DEF Dates!Waived, EolRow
<1>3. Dates!Past(r, today) => Dates!Past(r, later)
  BY DEF Dates!Past, EolRow
<1>4. CASE w = <<r.id, "waiver expired">> /\ r.waiver # <<>> /\ ~Dates!Waived(r, today)
  BY <1>1, <1>2, <1>4 DEF Dates!RowWarnings, Dates!When
<1>5. CASE w = <<r.id, "past">> /\ Dates!Past(r, today) /\ ~Dates!Waived(r, today)
  BY <1>1, <1>2, <1>3, <1>5 DEF Dates!RowWarnings, Dates!When
<1>6. CASE w = <<r.id, "review overdue">> /\ Dates!IsDate(r.review) /\ r.review < today
  <2>1. r.review < today
    BY <1>6
  <2>2. r.review < later
    BY <2>1 DEF EolRow
  <2>. QED  BY <1>1, <1>6, <2>2 DEF Dates!RowWarnings, Dates!When
<1>. QED  BY <1>1, <1>4, <1>5, <1>6 DEF Dates!RowWarnings, Dates!When

\* An end that is said to be near is.
LEMMA RowSoonIsNear ==
    ASSUME NEW r, EolRow(r), NEW tree, NEW today \in Int, NEW id, <<id, "soon">> \in Dates!RowWarnings(r, tree, today)
    PROVE  r.id = id /\ r.eol.day \in (today + 1)..(today + Soon)
<1>1. /\ r.id = id /\ r.eol.is = "date" /\ ~Dates!Past(r, today) /\ r.eol.day - today <= Soon
  BY DEF Dates!RowWarnings, Dates!When
<1>. QED  BY <1>1, ChecksAssumption DEF Dates!Past, EolRow

\* An end that has come is said, or waived for a reason.
LEMMA RowPastIsSaid ==
    ASSUME NEW r, EolRow(r), NEW tree, NEW today \in Int, Dates!RowErrors(r, tree) = {}, Dates!Past(r, today)
    PROVE  \/ <<r.id, "past">> \in Dates!RowWarnings(r, tree, today)
           \/ r.waiver # <<>> /\ r.waiver[1].reason /\ today <= r.waiver[1].until
<1>1. Dates!RowUnread(r, tree) = {}
  BY DEF Dates!RowErrors
<1>2. CASE Dates!Waived(r, today)
  <2>1. r.waiver # <<>> /\ today <= r.waiver[1].until
    BY <1>2 DEF Dates!Waived, EolRow
  <2>2. r.waiver[1].reason
    BY <1>1, <2>1 DEF Dates!RowErrors, Dates!When
  <2>. QED  BY <2>1, <2>2
<1>3. CASE ~Dates!Waived(r, today)
  BY <1>1, <1>3 DEF Dates!RowWarnings
<1>. QED  BY <1>2, <1>3

\* For any calendar, any tree and any days: check-eol.py lets no component past its end go unwaived
\* and unsaid nor stay out of the calendar, warns of an end to come only when it is near, and of one that
\* has come on every later day.
THEOREM EolFaithful ==
    ASSUME NEW c, EolWorld(c)
    PROVE  Dates!CalendarKeepsFaith(c)
<1>. DEFINE rows == Dates!ToSet(c.cal.rows)
            warns(d) == Dates!EolWarnings(c.cal, c.tree, d)
<1>1. /\ \A r \in rows : EolRow(r)
      /\ c.days \subseteq Int /\ c.cal.snapshot \in Int /\ StaleDays \in Nat
  BY ChecksAssumption DEF EolWorld
<1>2. ASSUME NEW d \in c.days, NEW r \in rows PROVE Dates!RowWarnings(r, c.tree, d) \subseteq warns(d)
  BY DEF Dates!EolWarnings
<1>3. ASSUME NEW d \in c.days, NEW w \in warns(d)
      PROVE  \/ \E r \in rows : w \in Dates!RowWarnings(r, c.tree, d)
             \/ w = <<"calendar", "stale snapshot">> /\ Dates!IsDate(c.cal.snapshot) /\ d - c.cal.snapshot > StaleDays
  BY DEF Dates!EolWarnings, Dates!When
<1>4. ASSUME NEW d \in c.days, Dates!IsDate(c.cal.snapshot), d - c.cal.snapshot > StaleDays
      PROVE  <<"calendar", "stale snapshot">> \in warns(d)
  BY <1>4 DEF Dates!EolWarnings, Dates!When
<1>5. ASSUME Dates!EolErrors(c.cal, c.tree) = {}
      PROVE  (\A r \in rows : Dates!RowErrors(r, c.tree) = {}) /\ Dates!Uncovered(c.cal.rows, c.tree) = {}
  BY <1>5 DEF Dates!EolErrors
<1>6. ASSUME NEW d \in c.days, Dates!EolPasses(c.cal, c.tree, d, TRUE) PROVE Dates!EolPasses(c.cal, c.tree, d, FALSE)
  BY <1>6 DEF Dates!EolPasses
<1>. HIDE DEF warns, rows
<1>7. ASSUME NEW d \in c.days, Dates!EolErrors(c.cal, c.tree) = {}, NEW r \in rows,
             r.eol.is = "unsupported" \/ (r.eol.is = "date" /\ d >= r.eol.day)
      PROVE  \/ \E w \in warns(d) : w[1] = r.id
             \/ r.waiver # <<>> /\ r.waiver[1].reason /\ d <= r.waiver[1].until
  <2>1. Dates!Past(r, d) /\ EolRow(r) /\ Dates!RowErrors(r, c.tree) = {} /\ d \in Int
    BY <1>1, <1>5, <1>7 DEF Dates!Past, EolRow
  <2>2. \/ <<r.id, "past">> \in Dates!RowWarnings(r, c.tree, d)
        \/ r.waiver # <<>> /\ r.waiver[1].reason /\ d <= r.waiver[1].until
    BY <2>1, RowPastIsSaid
  <2>3. <<r.id, "past">>[1] = r.id
    OBVIOUS
  <2>. QED  BY <1>2, <2>2, <2>3
<1>8. ASSUME Dates!EolErrors(c.cal, c.tree) = {}, NEW f \in DOMAIN c.tree, c.tree[f].vendored \/ c.tree[f].charts # {}
      PROVE  \E r \in rows : r.file = f /\ r.pin = c.tree[f].pin
  <2>1. \E r \in rows : r.file = f
    <3>1. CASE c.tree[f].vendored
      BY <1>5, <1>8, <3>1 DEF Dates!Uncovered, rows
    <3>2. CASE c.tree[f].charts # {}
      <4>. DEFINE missed(g) == {<<g, "chart without a row">> : x \in {y \in c.tree[g].charts : ~\E r \in rows : r.file = g /\ r.names = y}}
      <4>1. UNION {missed(g) : g \in DOMAIN c.tree} = {}
        BY <1>5, <1>8 DEF Dates!Uncovered, rows
      <4>. HIDE DEF missed
      <4>2. missed(f) = {}
        BY <4>1
      <4>. QED  BY <4>2, <3>2 DEF missed
    <3>. QED  BY <1>8, <3>1, <3>2
  <2>2. PICK r \in rows : r.file = f
    BY <2>1
  <2>3. Dates!RowErrors(r, c.tree) = {}
    BY <1>5, <1>8
  <2>4. Dates!Pin(r, c.tree) = r.pin
    BY <2>3 DEF Dates!RowErrors, Dates!RowUnread
  <2>. QED  BY <2>2, <2>4 DEF Dates!Pin
<1>9. ASSUME NEW d \in c.days, NEW w \in warns(d), w[2] # "soon", NEW later \in c.days, later > d
      PROVE  w \in warns(later)
  <2>1. d \in Int /\ later \in Int
    BY <1>1
  <2>2. CASE \E r \in rows : w \in Dates!RowWarnings(r, c.tree, d)
    <3>1. PICK r \in rows : w \in Dates!RowWarnings(r, c.tree, d)
      BY <2>2
    <3>2. w # <<r.id, "soon">>
      BY <1>9
    <3>3. w \in Dates!RowWarnings(r, c.tree, later)
      BY <1>1, <1>9, <2>1, <3>1, <3>2, RowWarningsStay
    <3>. QED  BY <1>2, <3>3
  <2>3. CASE w = <<"calendar", "stale snapshot">> /\ Dates!IsDate(c.cal.snapshot) /\ d - c.cal.snapshot > StaleDays
    <3>1. later > d /\ d - c.cal.snapshot > StaleDays
      BY <1>9, <2>3
    <3>2. later - c.cal.snapshot > StaleDays
      BY <1>1, <2>1, <3>1
    <3>. QED  BY <1>4, <2>3, <3>2
  <2>. QED  BY <1>3, <2>2, <2>3
<1>10. ASSUME NEW d \in c.days, NEW r \in rows, <<r.id, "soon">> \in warns(d)
       PROVE  \E q \in rows : q.id = r.id /\ q.eol.day \in (d + 1)..(d + Soon)
  <2>1. <<r.id, "soon">> # <<"calendar", "stale snapshot">> /\ d \in Int
    BY <1>1
  <2>2. PICK q \in rows : <<r.id, "soon">> \in Dates!RowWarnings(q, c.tree, d)
    BY <1>3, <1>10, <2>1
  <2>. QED  BY <1>1, <2>1, <2>2, RowSoonIsNear
<1>. QED  BY <1>6, <1>7, <1>8, <1>9, <1>10 DEF Dates!CalendarKeepsFaith, rows, warns

\* The cases of the run are such calendars.
LEMMA EolCasesAre ==
    ASSUME NEW c \in Dates!EolCases
    PROVE  EolWorld(c)
<1>1. /\ {Dates!Bad, 4} \subseteq Int /\ {Dates!Bad, 0, 4} \subseteq Int /\ 0..8 \subseteq Int
      /\ {Dates!Bad, 2, 5} \subseteq Int /\ {Dates!Bad, 3, 7} \subseteq Int
  BY DEF Dates!Bad
<1>2. ASSUME NEW e \in Dates!Eols PROVE e.day \in Int
  BY <1>1 DEF Dates!Eols
<1>3. ASSUME NEW w \in Dates!Waivers, w # <<>> PROVE w[1].until \in Int
  BY <1>1, <1>3 DEF Dates!Waivers
<1>4. ASSUME NEW id, NEW pin, NEW e, e.day \in Int, NEW w, w # <<>> => w[1].until \in Int, NEW r \in Int
      PROVE  EolRow(Dates!Row(id, pin, e, w, r))
  BY <1>4 DEF EolRow, Dates!Row
<1>5. ASSUME NEW id, NEW is PROVE EolRow(Dates!Unending(id, is))
  BY <1>4 DEF Dates!Unending
<1>6. EolRow(Dates!Misnamed)
  BY DEF Dates!Misnamed, Dates!Unending, Dates!Row, EolRow
<1>7. ASSUME NEW rows \in Dates!Alone \cup Dates!Pairs \cup {<<>>, <<Dates!Misnamed>>}, NEW i \in DOMAIN rows
      PROVE  EolRow(rows[i])
  <2>1. CASE rows \in Dates!Alone
    <3>1. PICK e \in Dates!Eols, w \in Dates!Waivers, r \in {Dates!Bad, 4} : rows = <<Dates!Row("a", "1", e, w, r)>>
      BY <2>1 DEF Dates!Alone
    <3>2. EolRow(Dates!Row("a", "1", e, w, r))
      BY <1>1, <1>2, <1>3, <1>4
    <3>. QED  BY <3>1, <3>2
  <2>2. CASE rows \in Dates!Pairs
    <3>. DEFINE r == Dates!Row("a", "1", [is |-> "date", day |-> 5], <<>>, 6)
    <3>1. PICK id : rows = <<r, Dates!Unending(id, "unknown")>>
      BY <2>2 DEF Dates!Pairs
    <3>2. EolRow(r) /\ EolRow(Dates!Unending(id, "unknown"))
      BY <1>4, <1>5
    <3>. HIDE DEF r
    <3>. QED  BY <3>1, <3>2
  <2>3. CASE rows = <<>> \/ rows = <<Dates!Misnamed>>
    BY <2>3, <1>6
  <2>. QED  BY <2>1, <2>2, <2>3
<1>8. PICK rows \in Dates!Alone \cup Dates!Pairs \cup {<<>>, <<Dates!Misnamed>>}, snap \in {Dates!Bad, 0, 4}, tree \in Dates!Trees :
        c = [cal |-> [rows |-> rows, snapshot |-> snap], tree |-> tree, days |-> 0..8]
  BY DEF Dates!EolCases
<1>9. \A r \in Dates!ToSet(rows) : EolRow(r)
  BY <1>7 DEF Dates!ToSet
<1>. QED  BY <1>1, <1>8, <1>9 DEF EolWorld

-----------------------------------------------------------------------------
\* A policy with what is wanted of it on top.
Merged(p, want) == [f \in Zitadel!Fields |-> IF f \in DOMAIN Zitadel!Desired(want) THEN Zitadel!Desired(want)[f] ELSE p[f]]
Got == {"503", "error", "cut", "ok"}
AnswerSet == [get : [1..5 -> Got], put : [1..5 -> Got \cup {"late"}]]
ToDo(p, want) == Zitadel!Plan(Zitadel!Answer(p), Zitadel!Desired(want))
Fit(want) == "flag" \in DOMAIN want => want["flag"] \in BOOLEAN

\* What is wanted names the same fields as the declaration.
LEMMA DesiredIs ==
    ASSUME NEW want
    PROVE  DOMAIN Zitadel!Desired(want) = DOMAIN want
BY DEF Zitadel!Desired

\* What is left out of the answer is at its default.
LEMMA AnswerIs ==
    ASSUME NEW V, NEW p \in [Zitadel!Fields -> V]
    PROVE  /\ DOMAIN Zitadel!Answer(p) \subseteq Zitadel!Fields
           /\ \A f \in DOMAIN Zitadel!Answer(p) : Zitadel!Answer(p)[f] = p[f]
           /\ \A f \in Zitadel!Fields \ DOMAIN Zitadel!Answer(p) : f \in {"flag", "number"} /\ p[f] = Zitadel!Default[f]
BY DEF Zitadel!Answer, Zitadel!Restrict

\* A PUT of what the plan sends leaves the policy with what is wanted on top.
LEMMA PutMerges ==
    ASSUME NEW V, NEW p \in [Zitadel!Fields -> V], NEW want
    PROVE  Zitadel!Put(Zitadel!Body(Zitadel!Answer(p), Zitadel!Desired(want))) = Merged(p, want)
<1>. DEFINE current == Zitadel!Answer(p)
            wanted == Zitadel!Desired(want)
            body == Zitadel!Body(current, wanted)
<1>1. /\ DOMAIN current \subseteq Zitadel!Fields
      /\ \A f \in DOMAIN current : current[f] = p[f]
      /\ \A f \in Zitadel!Fields \ DOMAIN current : p[f] = Zitadel!Default[f]
  BY AnswerIs
<1>. HIDE DEF current, wanted
<1>2. /\ DOMAIN body = DOMAIN current \cup DOMAIN wanted
      /\ \A f \in DOMAIN body : body[f] = IF f \in DOMAIN wanted THEN wanted[f] ELSE current[f]
  BY DEF Zitadel!Body
<1>. HIDE DEF body
<1>3. ASSUME NEW f \in Zitadel!Fields
      PROVE  (IF f \in DOMAIN body THEN body[f] ELSE Zitadel!Default[f]) = IF f \in DOMAIN wanted THEN wanted[f] ELSE p[f]
  BY <1>1, <1>2
<1>4. Zitadel!Put(body) = [f \in Zitadel!Fields |-> IF f \in DOMAIN wanted THEN wanted[f] ELSE p[f]]
  BY <1>3 DEF Zitadel!Put
<1>. QED  BY <1>4 DEF Merged, body, current, wanted

\* Nothing to change is as wanted; as wanted, only a number that is 0 asks for a change.
LEMMA PlanIs ==
    ASSUME NEW V, NEW p \in [Zitadel!Fields -> V], NEW want, Zitadel!Readable(want), Fit(want)
    PROVE  /\ ToDo(p, want) = {} => Zitadel!AsWanted(p, want)
           /\ Zitadel!AsWanted(p, want) /\ ToDo(p, want) # {} =>
                "number" \in DOMAIN want /\ want["number"] = 0
<1>. DEFINE current == Zitadel!Answer(p)
            wanted == Zitadel!Desired(want)
<1>1. /\ \A f \in DOMAIN current : current[f] = p[f]
      /\ \A f \in Zitadel!Fields \ DOMAIN current : f \in {"flag", "number"} /\ p[f] = Zitadel!Default[f]
  BY AnswerIs
<1>2. DOMAIN wanted = DOMAIN want /\ DOMAIN want \subseteq {"flag", "number", "lifetime"} /\ DOMAIN want \subseteq Zitadel!Fields
  BY DesiredIs DEF Zitadel!Readable, Zitadel!Fields, Zitadel!Managed
<1>3. ("flag" \in DOMAIN want => wanted["flag"] = want["flag"]) /\ ("number" \in DOMAIN want => wanted["number"] = want["number"])
  BY DEF Zitadel!Desired
<1>4. Zitadel!Default["flag"] = FALSE /\ Zitadel!Default["number"] = 0
  BY DEF Zitadel!Default, Zitadel!Fields, Zitadel!Managed
<1>. HIDE DEF current, wanted
<1>5. ASSUME NEW f \in DOMAIN wanted, f \notin Zitadel!Plan(current, wanted) PROVE p[f] = wanted[f]
  <2>1. CASE f \in DOMAIN current
    BY <1>1, <1>5, <2>1 DEF Zitadel!Plan
  <2>2. CASE f \notin DOMAIN current
    <3>1. f = "flag" /\ ~wanted[f]
      BY <1>5, <2>2 DEF Zitadel!Plan
    <3>2. p[f] = FALSE
      BY <1>1, <1>2, <1>4, <2>2, <3>1
    <3>3. wanted[f] = FALSE
      BY <1>2, <1>3, <3>1 DEF Fit
    <3>. QED  BY <3>2, <3>3
  <2>. QED  BY <2>1, <2>2
<1>6. ASSUME Zitadel!AsWanted(p, want), NEW f \in Zitadel!Plan(current, wanted) PROVE f = "number" /\ want["number"] = 0
  <2>1. f \in DOMAIN want /\ p[f] = wanted[f] /\ f \in Zitadel!Fields
    BY <1>2, <1>6 DEF Zitadel!Plan, Zitadel!AsWanted, wanted
  <2>2. f \notin DOMAIN current /\ (f # "flag" \/ wanted[f])
    BY <1>1, <1>6, <2>1 DEF Zitadel!Plan
  <2>3. f # "flag"
    BY <1>1, <1>2, <1>4, <2>1, <2>2
  <2>. QED  BY <1>1, <1>2, <1>3, <1>4, <2>1, <2>2, <2>3
<1>. QED  BY <1>2, <1>5, <1>6 DEF Zitadel!AsWanted, Zitadel!Plan, ToDo, current, wanted

\* What a call answers: one of the replies; "ok" when it comes within four attempts.
LEMMA CallIs ==
    ASSUME NEW R, NEW replies \in [1..5 -> R]
    PROVE  /\ Zitadel!Call(replies) \in R
           /\ \A n \in 0..4 : replies = Zitadel!Busy(n, "ok") => Zitadel!Call(replies) = "ok"
<1>. DEFINE S == {k \in 1..5 : replies[k] # "503"} \cup {5}
            m == Zitadel!Min(S)
<1>1. m \in S /\ \A y \in S : m <= y
  <2>1. \E x \in S : \A y \in S : x <= y
    <3>1. S \subseteq Nat /\ S # {}
      OBVIOUS
    <3>. HIDE DEF S
    <3>2. PICK x \in S : \A y \in S : ~(<<y, x>> \in OpToRel(<, Nat))
      BY <3>1, WFMin, NatLessThanWellFounded
    <3>3. ASSUME NEW y \in S PROVE x <= y
      <4>1. y \in Nat /\ x \in Nat
        BY <3>1
      <4>2. ~(<<y, x>> \in OpToRel(<, Nat))
        BY <3>2
      <4>. QED  BY <4>1, <4>2 DEF OpToRel
    <3>. QED  BY <3>3
  <2>. HIDE DEF S
  <2>. QED  BY <2>1 DEF Zitadel!Min
<1>2. Zitadel!Call(replies) = replies[m]
  BY DEF Zitadel!Call
<1>. HIDE DEF m
<1>3. m \in 1..5
  BY <1>1
<1>4. ASSUME NEW n \in 0..4, replies = Zitadel!Busy(n, "ok") PROVE replies[m] = "ok"
  <2>1. replies[n + 1] = "ok" /\ replies[5] = "ok"
    BY <1>4 DEF Zitadel!Busy
  <2>2. n + 1 \in S
    BY <2>1
  <2>3. m <= n + 1 /\ (m = 5 \/ replies[m] # "503")
    BY <1>1, <2>2
  <2>. QED  BY <1>3, <1>4, <2>1, <2>3 DEF Zitadel!Busy
<1>. QED  BY <1>2, <1>3, <1>4

Applied(was, p, want, apply, a) ==
    Zitadel!Apply([policy |-> p, changed |-> was.changed, failed |-> was.failed, stopped |-> FALSE], want, apply, a)
AllOk(a) == Zitadel!Call(a.get) = "ok" /\ Zitadel!Call(a.put) = "ok"

\* What a policy's turn has done: it stays or takes what is wanted, whole; what went
\* wrong before is kept.
Done(was, p, want, apply, a, st) ==
    /\ st.changed \in BOOLEAN /\ st.failed \in BOOLEAN /\ st.stopped \in BOOLEAN
    /\ st.policy = p \/ (apply /\ st.policy = Merged(p, want))
    /\ was.failed => st.failed
    /\ apply /\ ~st.failed /\ ~st.stopped => st.policy = Merged(p, want) \/ ToDo(p, want) = {}
    /\ ~st.changed \/ was.changed \/ ToDo(p, want) # {}
    /\ AllOk(a) => st.failed = was.failed /\ st.stopped = FALSE

\* What the body of the loop does to one policy.
LEMMA ApplyIs ==
    ASSUME NEW V, NEW p \in [Zitadel!Fields -> V], NEW want, NEW apply \in BOOLEAN, NEW a \in AnswerSet,
           NEW was, was.changed \in BOOLEAN, was.failed \in BOOLEAN
    PROVE  Done(was, p, want, apply, a, Applied(was, p, want, apply, a))
<1>. DEFINE st == Applied(was, p, want, apply, a)
            changed == was.changed
            failed == was.failed
            is == [policy |-> p, changed |-> changed, failed |-> failed, stopped |-> FALSE]
            plan == Zitadel!Plan(Zitadel!Answer(p), Zitadel!Desired(want))
            get == Zitadel!Call(a.get)
            put == Zitadel!Call(a.put)
            new == Zitadel!Put(Zitadel!Body(Zitadel!Answer(p), Zitadel!Desired(want)))
<1>11. st = Applied(was, p, want, apply, a)
  OBVIOUS
<1>1. get \in Got /\ put \in Got \cup {"late"}
  <2>1. a.get \in [1..5 -> Got] /\ a.put \in [1..5 -> Got \cup {"late"}]
    BY DEF AnswerSet
  <2>. QED  BY <2>1, CallIs
<1>2. new = Merged(p, want)
  BY PutMerges
<1>3. st = CASE get \in {"503", "error"} -> [is EXCEPT !.failed = TRUE]
             [] get = "cut" -> [is EXCEPT !.stopped = TRUE]
             [] get = "ok" /\ ~(plan # {}) -> is
             [] get = "ok" /\ plan # {} /\ ~apply -> [is EXCEPT !.changed = TRUE]
             [] get = "ok" /\ plan # {} /\ apply ->
                  [is EXCEPT !.changed = TRUE, !.failed = @ \/ put \in {"503", "error"}, !.stopped = put \in {"cut", "late"},
                             !.policy = IF put \in {"ok", "late"} THEN new ELSE @]
  BY DEF Zitadel!Apply, Applied
<1>10. changed \in BOOLEAN /\ failed \in BOOLEAN
  OBVIOUS
<1>. HIDE DEF st, plan, get, put, new, changed, failed
<1>4. CASE get \in {"503", "error"}
  <2>1. st = [is EXCEPT !.failed = TRUE]
    BY <1>3, <1>4
  <2>2. st.policy = p /\ st.changed = changed /\ st.failed = TRUE /\ st.stopped = FALSE
    BY <2>1, <1>10
  <2>. QED  BY <1>4, <2>2 DEF st, Done, changed, failed, plan, get, ToDo, AllOk
<1>5. CASE get = "cut"
  <2>1. st = [is EXCEPT !.stopped = TRUE]
    BY <1>3, <1>5
  <2>2. st.policy = p /\ st.changed = changed /\ st.failed = failed /\ st.stopped = TRUE
    BY <2>1, <1>10
  <2>. QED  BY <1>5, <2>2 DEF st, Done, changed, failed, plan, get, ToDo, AllOk
<1>6. CASE get = "ok" /\ plan = {}
  <2>1. st = is
    BY <1>3, <1>6
  <2>2. st.policy = p /\ st.changed = changed /\ st.failed = failed /\ st.stopped = FALSE
    BY <2>1, <1>10
  <2>. QED  BY <1>6, <2>2 DEF st, Done, changed, failed, plan, get, ToDo, AllOk
<1>7. CASE get = "ok" /\ plan # {} /\ ~apply
  <2>1. st = [is EXCEPT !.changed = TRUE]
    BY <1>3, <1>7
  <2>2. st.policy = p /\ st.changed = TRUE /\ st.failed = failed /\ st.stopped = FALSE
    BY <2>1, <1>10
  <2>. QED  BY <1>7, <2>2 DEF st, Done, changed, failed, plan, get, ToDo, AllOk
<1>8. CASE get = "ok" /\ plan # {} /\ apply
  <2>1. st = [is EXCEPT !.changed = TRUE, !.failed = @ \/ put \in {"503", "error"}, !.stopped = put \in {"cut", "late"},
                        !.policy = IF put \in {"ok", "late"} THEN new ELSE @]
    BY <1>3, <1>8
  <2>2. /\ st.policy = IF put \in {"ok", "late"} THEN new ELSE p
        /\ st.changed = TRUE
        /\ st.failed = (failed \/ put \in {"503", "error"})
        /\ st.stopped = (put \in {"cut", "late"})
    BY <1>10, <2>1
  <2>. DEFINE lost == put \in {"503", "error"}
              cut == put \in {"cut", "late"}
  <2>3. lost \in BOOLEAN /\ cut \in BOOLEAN /\ (put = "ok" => ~lost /\ ~cut) /\ (~lost /\ ~cut => put = "ok")
    BY <1>1 DEF Got
  <2>4. st.failed = (failed \/ lost) /\ st.stopped = cut /\ st.changed = TRUE
    BY <2>2
  <2>. HIDE DEF lost, cut
  <2>5. st.changed \in BOOLEAN /\ st.failed \in BOOLEAN /\ st.stopped \in BOOLEAN
    BY <1>10, <2>3, <2>4
  <2>6. /\ ~st.failed /\ ~st.stopped => put = "ok"
        /\ put = "ok" => st.failed = failed /\ st.stopped = FALSE
        /\ failed => st.failed
    BY <1>10, <2>3, <2>4
  <2>. QED  BY <1>2, <1>8, <2>2, <2>5, <2>6 DEF st, Done, changed, failed, plan, get, put, ToDo, AllOk
<1>9. get = "503" \/ get = "error" \/ get = "cut" \/ get = "ok"
  BY <1>1 DEF Got
<1>. QED  BY <1>4, <1>5, <1>6, <1>7, <1>8, <1>9

ZitadelState(V, n) == [policies : [1..n -> [Zitadel!Fields -> V]], changed : BOOLEAN, failed : BOOLEAN, stopped : BOOLEAN]
Holds(V, want) == \A f \in DOMAIN Zitadel!Desired(want) : Zitadel!Desired(want)[f] \in V

TurnDoes(V, n, k, was, p, want, apply, a, t) ==
    /\ t \in ZitadelState(V, n)
    /\ was.stopped => t = was
    /\ ~was.stopped =>
         /\ \A i \in 1..n : i # k => t.policies[i] = was.policies[i]
         /\ t.policies[k] = p \/ (apply /\ t.policies[k] = Merged(p, want))
         /\ was.failed => t.failed
         /\ apply /\ ~t.failed /\ ~t.stopped => t.policies[k] = Merged(p, want) \/ ToDo(p, want) = {}
         /\ ~t.changed \/ was.changed \/ ToDo(p, want) # {}
         /\ AllOk(a) => t.failed = was.failed /\ t.stopped = FALSE

\* A turn of the loop, whatever stopped or failed before it.
LEMMA TurnIs ==
    ASSUME NEW V, NEW n \in Nat, NEW k \in 1..n, NEW was, was \in ZitadelState(V, n), NEW p \in [Zitadel!Fields -> V],
           NEW want, Holds(V, want), NEW apply \in BOOLEAN, NEW a \in AnswerSet
    PROVE  TurnDoes(V, n, k, was, p, want, apply, a, Zitadel!Turn(was, k, p, want, apply, a))
<1>. DEFINE t == Zitadel!Turn(was, k, p, want, apply, a)
<1>3. t = Zitadel!Turn(was, k, p, want, apply, a)
  OBVIOUS
<1>. HIDE DEF t
<1>1. CASE was.stopped
  BY <1>1, <1>3 DEF Zitadel!Turn, TurnDoes, t
<1>2. CASE ~was.stopped
  <2>. DEFINE st == Applied(was, p, want, apply, a)
  <2>1. /\ was.policies \in [1..n -> [Zitadel!Fields -> V]]
        /\ was.changed \in BOOLEAN /\ was.failed \in BOOLEAN /\ was.stopped \in BOOLEAN
    BY DEF ZitadelState
  <2>2. t = [policies |-> [was.policies EXCEPT ![k] = st.policy], changed |-> st.changed, failed |-> st.failed, stopped |-> st.stopped]
    BY <1>2, <1>3 DEF Zitadel!Turn, Applied
  <2>3. /\ st.changed \in BOOLEAN /\ st.failed \in BOOLEAN /\ st.stopped \in BOOLEAN
        /\ st.policy = p \/ (apply /\ st.policy = Merged(p, want))
        /\ was.failed => st.failed
        /\ apply /\ ~st.failed /\ ~st.stopped => st.policy = Merged(p, want) \/ ToDo(p, want) = {}
        /\ ~st.changed \/ was.changed \/ ToDo(p, want) # {}
        /\ AllOk(a) => st.failed = was.failed /\ st.stopped = FALSE
    <3>1. st = Applied(was, p, want, apply, a)
      OBVIOUS
    <3>. HIDE DEF st
    <3>2. Done(was, p, want, apply, a, Applied(was, p, want, apply, a))
      <4>1. was.changed \in BOOLEAN
        BY <2>1
      <4>2. was.failed \in BOOLEAN
        BY <2>1
      <4>. QED  BY ONLY <4>1, <4>2, ApplyIs, p \in [Zitadel!Fields -> V], apply \in BOOLEAN, a \in AnswerSet
    <3>3. Done(was, p, want, apply, a, st)
      BY <3>1, <3>2
    <3>. QED  BY <3>3 DEF Done
  <2>4. Merged(p, want) \in [Zitadel!Fields -> V]
    BY DEF Merged, Holds
  <2>. HIDE DEF st
  <2>5. st.policy \in [Zitadel!Fields -> V]
    BY <2>3, <2>4
  <2>6. /\ t.policies = [was.policies EXCEPT ![k] = st.policy]
        /\ t.changed = st.changed /\ t.failed = st.failed /\ t.stopped = st.stopped
    BY <2>2
  <2>7. /\ t.policies \in [1..n -> [Zitadel!Fields -> V]]
        /\ t.policies[k] = st.policy
        /\ \A i \in 1..n : i # k => t.policies[i] = was.policies[i]
    BY <2>1, <2>5, <2>6
  <2>8. t \in ZitadelState(V, n)
    BY <2>2, <2>3, <2>6, <2>7 DEF ZitadelState
  <2>. QED  BY <1>2, <2>3, <2>6, <2>7, <2>8 DEF TurnDoes, t
<1>. QED  BY <1>1, <1>2

RunsAs(V, n, policies, wants, apply, answers, r) ==
    \E g \in [0..n -> ZitadelState(V, n)] :
       /\ g[0] = Zitadel!Start(policies, wants)
       /\ \A k \in 1..n : g[k] = Zitadel!Turn(g[k-1], k, policies[k], wants[k], apply, answers[k])
       /\ r = g[n]

\* A run over the policies is a run of its turns.
LEMMA RunIs ==
    ASSUME NEW V, NEW n \in Nat, NEW policies \in [1..n -> [Zitadel!Fields -> V]], NEW wants, \A k \in 1..n : Holds(V, wants[k]),
           NEW apply \in BOOLEAN, NEW answers \in [1..n -> AnswerSet]
    PROVE  RunsAs(V, n, policies, wants, apply, answers, Zitadel!Run(policies, wants, apply, answers))
<1>. DEFINE S == ZitadelState(V, n)
            start == Zitadel!Start(policies, wants)
            turn(k, was) == Zitadel!Turn(was, k, policies[k], wants[k], apply, answers[k])
            step == [q \in (1..n) \X S |-> turn(q[1], q[2])]
            Is(g) == g = [k \in 0..n |-> IF k = 0 THEN start ELSE turn(k, g[k-1])]
            h == CHOOSE g : Is(g)
<1>1. start \in S
  BY DEF Zitadel!Start, ZitadelState
<1>2. ASSUME NEW k \in 1..n, NEW was \in S PROVE turn(k, was) \in S
  <2>1. policies[k] \in [Zitadel!Fields -> V] /\ answers[k] \in AnswerSet /\ Holds(V, wants[k])
    OBVIOUS
  <2>2. TurnDoes(V, n, k, was, policies[k], wants[k], apply, answers[k], turn(k, was))
    BY <2>1, TurnIs
  <2>. QED  BY <2>2 DEF TurnDoes
<1>3. Zitadel!Run(policies, wants, apply, answers) = h[n]
  <2>1. Len(policies) = n
    OBVIOUS
  <2>. QED  BY <2>1 DEF Zitadel!Run
<1>. HIDE DEF turn, start, S
<1>4. step \in [(1..n) \X S -> S] /\ \A k \in 1..n : \A was \in S : step[<<k, was>>] = turn(k, was)
  BY <1>2
<1>. HIDE DEF step
<1>5. PICK g \in Runs(S, start, n, step) : TRUE
  BY <1>1, <1>4, Recursion
<1>6. Is(g)
  <2>1. g \in [0..n -> S] /\ g[0] = start
    BY <1>5 DEF Runs
  <2>2. ASSUME NEW k \in 1..n PROVE g[k] = turn(k, g[k-1])
    <3>1. g[k-1] \in S
      BY <2>1, Before
    <3>2. g[k] = step[<<k, g[k-1]>>]
      BY <1>5 DEF Runs
    <3>. QED  BY <1>4, <3>1, <3>2
  <2>. QED  BY <2>1, <2>2
<1>7. Is(h)
  <2>. HIDE DEF Is
  <2>. QED  BY <1>6
<1>. HIDE DEF h
<1>8. /\ h = [k \in 0..n |-> h[k]] /\ h[0] = start
      /\ \A k \in 1..n : h[k] = turn(k, h[k-1])
  <2>1. h[0] = start /\ h = [k \in 0..n |-> h[k]]
    BY <1>7
  <2>2. ASSUME NEW k \in 1..n PROVE h[k] = turn(k, h[k-1])
    <3>1. k \in 0..n /\ k # 0
      OBVIOUS
    <3>2. h[k] = IF k = 0 THEN start ELSE turn(k, h[k-1])
      BY <1>7, <3>1
    <3>. QED  BY <3>1, <3>2
  <2>. QED  BY <2>1, <2>2
<1>9. \A k \in 1..n : h[k-1] \in S => h[k] = step[<<k, h[k-1]>>]
  BY <1>4, <1>8
<1>10. h \in Runs(S, start, n, step)
  BY <1>1, <1>4, <1>8, <1>9, RunsWhole
<1>11. h \in [0..n -> S]
  BY <1>10 DEF Runs
<1>. QED  BY <1>3, <1>8, <1>11 DEF start, turn, S, RunsAs

AllReadable(n, wants) == \A k \in 1..n : Zitadel!Readable(wants[k])

\* What a run over n policies does.
Ran(V, n, policies, wants, apply, answers, r) ==
    /\ r \in ZitadelState(V, n)
    /\ \A i \in 1..n : \/ r.policies[i] = policies[i]
                       \/ AllReadable(n, wants) /\ apply /\ r.policies[i] = Merged(policies[i], wants[i])
    /\ apply /\ ~r.failed /\ ~r.stopped =>
         \A i \in 1..n : r.policies[i] = Merged(policies[i], wants[i]) \/ (r.policies[i] = policies[i] /\ ToDo(policies[i], wants[i]) = {})
    /\ AllReadable(n, wants) /\ (\A k \in 1..n : AllOk(answers[k])) => ~r.failed /\ ~r.stopped
    /\ r.changed => \E k \in 1..n : ToDo(policies[k], wants[k]) # {}

\* By induction over the policies: what a run has done once it ended.
LEMMA RunDoes ==
    ASSUME NEW V, NEW n \in Nat, NEW policies \in [1..n -> [Zitadel!Fields -> V]], NEW wants, \A k \in 1..n : Holds(V, wants[k]),
           NEW apply, apply \in BOOLEAN, NEW answers \in [1..n -> AnswerSet]
    PROVE  Ran(V, n, policies, wants, apply, answers, Zitadel!Run(policies, wants, apply, answers))
<1>. DEFINE r == Zitadel!Run(policies, wants, apply, answers)
<1>8. r = Zitadel!Run(policies, wants, apply, answers)
  OBVIOUS
<1>. HIDE DEF r
<1>1. PICK g \in [0..n -> ZitadelState(V, n)] :
        /\ g[0] = Zitadel!Start(policies, wants)
        /\ \A k \in 1..n : g[k] = Zitadel!Turn(g[k-1], k, policies[k], wants[k], apply, answers[k])
        /\ r = g[n]
  <2>1. RunsAs(V, n, policies, wants, apply, answers, Zitadel!Run(policies, wants, apply, answers))
    BY RunIs
  <2>. QED  BY <2>1, <1>8 DEF RunsAs
<1>. DEFINE M(i) == Merged(policies[i], wants[i])
            T(i) == ToDo(policies[i], wants[i])
            start == Zitadel!Start(policies, wants)
            Kept(j) == \A i \in 1..n : g[j].policies[i] = policies[i] \/ (~start.stopped /\ apply /\ g[j].policies[i] = M(i))
            Untouched(j) == \A i \in (j+1)..n : g[j].policies[i] = policies[i]
            Right(j) == apply /\ ~g[j].failed /\ ~g[j].stopped =>
                          \A i \in 1..j : g[j].policies[i] = M(i) \/ (g[j].policies[i] = policies[i] /\ T(i) = {})
            Quiet(j) == ~start.stopped /\ (\A k \in 1..n : AllOk(answers[k])) => ~g[j].failed /\ ~g[j].stopped
            Said(j) == g[j].changed => \E k \in 1..n : T(k) # {}
            Ended(j) == start.stopped => g[j].stopped
            Good == {j \in 0..n : Kept(j) /\ Right(j) /\ Quiet(j) /\ Said(j) /\ Ended(j)}
<1>2. /\ start.policies = policies /\ start.changed = FALSE /\ start.failed = FALSE
      /\ start.stopped = ~AllReadable(n, wants)
  <2>1. Len(policies) = n
    OBVIOUS
  <2>. QED  BY <2>1 DEF Zitadel!Start, AllReadable
<1>. HIDE DEF M, T, start
<1>3. g[0] = start
  BY <1>1 DEF start
<1>4. 0 \in Good
  BY <1>2, <1>3
<1>5. ASSUME NEW k \in 1..n, k - 1 \in Good PROVE k \in Good
  <2>. DEFINE was == g[k-1]
              is == g[k]
  <2>1. TurnDoes(V, n, k, was, policies[k], wants[k], apply, answers[k], is)
    <3>1. policies[k] \in [Zitadel!Fields -> V] /\ answers[k] \in AnswerSet /\ Holds(V, wants[k])
      OBVIOUS
    <3>2. was \in ZitadelState(V, n)
      BY Before
    <3>3. is = Zitadel!Turn(was, k, policies[k], wants[k], apply, answers[k])
      BY <1>1
    <3>. HIDE DEF was, is
    <3>4. TurnDoes(V, n, k, was, policies[k], wants[k], apply, answers[k], Zitadel!Turn(was, k, policies[k], wants[k], apply, answers[k]))
      BY <3>1, <3>2, TurnIs
    <3>. QED  BY <3>3, <3>4
  <2>7. /\ is \in ZitadelState(V, n)
        /\ was.stopped => is = was
        /\ ~was.stopped =>
             /\ \A i \in 1..n : i # k => is.policies[i] = was.policies[i]
             /\ is.policies[k] = policies[k] \/ (apply /\ is.policies[k] = M(k))
             /\ was.failed => is.failed
             /\ apply /\ ~is.failed /\ ~is.stopped => is.policies[k] = M(k) \/ T(k) = {}
             /\ ~is.changed \/ was.changed \/ T(k) # {}
             /\ AllOk(answers[k]) => is.failed = was.failed /\ is.stopped = FALSE
    BY <2>1 DEF TurnDoes, M, T
  <2>2. was \in ZitadelState(V, n) /\ Kept(k-1) /\ Right(k-1) /\ Quiet(k-1) /\ Said(k-1) /\ Ended(k-1)
    BY <1>5, Before
  <2>3. CASE was.stopped
    <3>1. is = was
      BY <2>7, <2>3
    <3>2. Kept(k) /\ Quiet(k) /\ Said(k) /\ Ended(k) /\ Right(k)
      BY <2>2, <2>3, <3>1
    <3>. HIDE DEF Kept, Right, Quiet, Said, Ended
    <3>. QED  BY <3>2, Before
  <2>4. CASE ~was.stopped
    <3>1. ~start.stopped
      BY <2>2, <2>4
    <3>2. Kept(k)
      BY <2>7, <2>2, <2>4, <3>1
    <3>3. Right(k)
      <4>1. SUFFICES ASSUME apply, ~is.failed, ~is.stopped, NEW i \in 1..k
                     PROVE  is.policies[i] = M(i) \/ (is.policies[i] = policies[i] /\ T(i) = {})
        OBVIOUS
      <4>2. CASE i = k
        BY <2>7, <2>4, <4>1, <4>2
      <4>3. CASE i # k
        <5>1. ~was.failed /\ i \in 1..(k-1) /\ i \in 1..n
          BY <2>7, <2>4, <4>1, <4>3
        <5>2. was.policies[i] = M(i) \/ (was.policies[i] = policies[i] /\ T(i) = {})
          BY <2>2, <2>4, <4>1, <5>1
        <5>3. is.policies[i] = was.policies[i]
          BY <2>7, <2>4, <4>3, <5>1
        <5>. QED  BY <5>2, <5>3
      <4>. QED  BY <4>2, <4>3
    <3>4. Quiet(k)
      BY <2>7, <2>2, <2>4, <3>1
    <3>5. Said(k)
      BY <2>7, <2>2, <2>4
    <3>6. Ended(k)
      BY <3>1
    <3>. HIDE DEF Kept, Right, Quiet, Said, Ended
    <3>. QED  BY <3>2, <3>3, <3>4, <3>5, <3>6, Before
  <2>. QED  BY <2>3, <2>4
<1>6. n \in Good
  <2>1. 0..n \subseteq Good
    <3>. HIDE DEF Good
    <3>. QED  BY <1>4, <1>5, Induction
  <2>. QED  BY <2>1
<1>7. /\ r = g[n] /\ g[n] \in ZitadelState(V, n) /\ Kept(n) /\ Right(n) /\ Quiet(n) /\ Said(n)
  BY <1>1, <1>6
<1>9. Ran(V, n, policies, wants, apply, answers, r)
  BY <1>2, <1>7 DEF M, T, Ran
<1>. QED  BY <1>8, <1>9

\* What is wanted on top is as wanted, and the fields that are not ours stay.
LEMMA MergedIs ==
    ASSUME NEW p, NEW want, Zitadel!Readable(want)
    PROVE  /\ Zitadel!AsWanted(Merged(p, want), want)
           /\ \A f \in Zitadel!Fields \ DOMAIN want : Merged(p, want)[f] = p[f]
<1>1. DOMAIN Zitadel!Desired(want) = DOMAIN want /\ DOMAIN want \subseteq Zitadel!Fields
  BY DesiredIs DEF Zitadel!Readable, Zitadel!Fields
<1>2. \A f \in Zitadel!Fields : Merged(p, want)[f] = IF f \in DOMAIN Zitadel!Desired(want) THEN Zitadel!Desired(want)[f] ELSE p[f]
  BY DEF Merged
<1>. QED  BY <1>1, <1>2 DEF Zitadel!AsWanted

\* A server that recovers within four attempts answers.
LEMMA PatientIsOk ==
    ASSUME NEW a \in AnswerSet, Zitadel!Patient(a.get), Zitadel!Patient(a.put)
    PROVE  AllOk(a)
<1>1. a.get \in [1..5 -> Got] /\ a.put \in [1..5 -> Got \cup {"late"}]
  BY DEF AnswerSet
<1>2. Zitadel!Call(a.get) = "ok"
  BY <1>1, CallIs DEF Zitadel!Patient
<1>3. Zitadel!Call(a.put) = "ok"
  BY <1>1, CallIs DEF Zitadel!Patient
<1>. QED  BY <1>2, <1>3 DEF AllOk

\* A server that is well answers.
LEMMA CleanIsOk ==
    ASSUME NEW n \in Nat
    PROVE  Zitadel!Clean(n) \in [1..n -> AnswerSet] /\ \A k \in 1..n : AllOk(Zitadel!Clean(n)[k])
<1>. DEFINE a == [get |-> Zitadel!Busy(0, "ok"), put |-> Zitadel!Busy(0, "ok")]
<1>1. Zitadel!Busy(0, "ok") \in [1..5 -> {"ok"}]
  BY DEF Zitadel!Busy
<1>2. a \in AnswerSet
  BY <1>1 DEF AnswerSet, Got
<1>3. Zitadel!Patient(a.get) /\ Zitadel!Patient(a.put)
  BY DEF Zitadel!Patient
<1>4. AllOk(a)
  BY <1>2, <1>3, PatientIsOk
<1>5. Zitadel!Clean(n) = [k \in 1..n |-> a]
  BY DEF Zitadel!Clean
<1>. HIDE DEF a
<1>. QED  BY <1>2, <1>4, <1>5

\* For any number of policies, with any values, and whatever the server answers: a policy is touched
\* only with --apply and only in what is declared of it; one that recovers fails no run, a run that neither failed
\* nor stopped leaves every policy as wanted, and so does a second, after which only a number wanted 0 is a change.
THEOREM ZitadelFaithful ==
    ASSUME NEW V, NEW n \in Nat, NEW c, c.policies \in [1..n -> [Zitadel!Fields -> V]],
           \A k \in 1..n : Holds(V, c.wants[k]) /\ Fit(c.wants[k]), c.apply \in BOOLEAN, c.answers \in [1..n -> AnswerSet]
    PROVE  Zitadel!TouchesOnlyOurs(c) /\ Zitadel!Converges(c)
<1>. DEFINE wants == c.wants
            r == Zitadel!Run(c.policies, wants, c.apply, c.answers)
            clean == Zitadel!Clean(n)
            again == Zitadel!Run(r.policies, wants, TRUE, clean)
            check2 == Zitadel!Run(again.policies, wants, FALSE, clean)
<1>1. Len(c.policies) = n /\ clean \in [1..n -> AnswerSet] /\ \A k \in 1..n : AllOk(clean[k])
  BY CleanIsOk
<1>2. /\ r \in ZitadelState(V, n)
      /\ \A i \in 1..n : \/ r.policies[i] = c.policies[i]
                         \/ AllReadable(n, wants) /\ c.apply /\ r.policies[i] = Merged(c.policies[i], wants[i])
      /\ c.apply /\ ~r.failed /\ ~r.stopped =>
           \A i \in 1..n : r.policies[i] = Merged(c.policies[i], wants[i]) \/ (r.policies[i] = c.policies[i] /\ ToDo(c.policies[i], wants[i]) = {})
      /\ AllReadable(n, wants) /\ (\A k \in 1..n : AllOk(c.answers[k])) => ~r.failed /\ ~r.stopped
  <2>1. Ran(V, n, c.policies, wants, c.apply, c.answers, r)
    BY RunDoes
  <2>. QED  BY <2>1 DEF Ran
<1>3. r.policies \in [1..n -> [Zitadel!Fields -> V]]
  BY <1>2 DEF ZitadelState
<1>4. /\ again \in ZitadelState(V, n)
      /\ ~again.failed /\ ~again.stopped =>
           \A i \in 1..n : again.policies[i] = Merged(r.policies[i], wants[i]) \/ (again.policies[i] = r.policies[i] /\ ToDo(r.policies[i], wants[i]) = {})
      /\ AllReadable(n, wants) /\ (\A k \in 1..n : AllOk(clean[k])) => ~again.failed /\ ~again.stopped
  <2>1. Ran(V, n, r.policies, wants, TRUE, clean, again)
    <3>. HIDE DEF r, clean
    <3>. QED  BY <1>1, <1>3, RunDoes
  <2>. HIDE DEF r, clean, again
  <2>. QED  BY <2>1 DEF Ran
<1>5. again.policies \in [1..n -> [Zitadel!Fields -> V]]
  BY <1>4 DEF ZitadelState
<1>6. check2.changed => \E k \in 1..n : ToDo(again.policies[k], wants[k]) # {}
  <2>1. Ran(V, n, again.policies, wants, FALSE, clean, check2)
    <3>. HIDE DEF again, clean
    <3>. QED  BY <1>1, <1>5, RunDoes
  <2>. HIDE DEF again, clean, check2
  <2>. QED  BY <2>1 DEF Ran
<1>. HIDE DEF r, again, check2, clean
<1>7. ASSUME NEW i \in 1..n, AllReadable(n, wants), NEW p \in [Zitadel!Fields -> V], NEW q,
             q = Merged(p, wants[i]) \/ (q = p /\ ToDo(p, wants[i]) = {})
      PROVE  Zitadel!AsWanted(q, wants[i])
  <2>1. Zitadel!Readable(wants[i]) /\ Fit(wants[i])
    BY <1>7 DEF AllReadable
  <2>. HIDE DEF wants
  <2>2. Zitadel!AsWanted(Merged(p, wants[i]), wants[i])
    BY <2>1, MergedIs
  <2>3. ToDo(p, wants[i]) = {} => Zitadel!AsWanted(p, wants[i])
    BY <2>1, PlanIs
  <2>. QED  BY <1>7, <2>2, <2>3
<1>8. Zitadel!TouchesOnlyOurs(c)
  <2>1. ASSUME NEW k \in 1..n, r.policies[k] # c.policies[k]
        PROVE  /\ c.apply /\ Zitadel!AsWanted(r.policies[k], wants[k])
               /\ \A f \in Zitadel!Fields \ DOMAIN wants[k] : r.policies[k][f] = c.policies[k][f]
    <3>1. AllReadable(n, wants) /\ c.apply /\ r.policies[k] = Merged(c.policies[k], wants[k])
      BY <1>2, <2>1
    <3>2. Zitadel!Readable(wants[k])
      BY <3>1 DEF AllReadable
    <3>. HIDE DEF wants
    <3>. QED  BY <3>1, <3>2, MergedIs
  <2>. QED  BY <1>1, <2>1 DEF Zitadel!TouchesOnlyOurs, r
<1>9. ASSUME AllReadable(n, wants), \A k \in 1..n : Zitadel!Patient(c.answers[k].get) /\ Zitadel!Patient(c.answers[k].put)
      PROVE  ~r.failed
  <2>1. \A k \in 1..n : AllOk(c.answers[k])
    BY <1>9, PatientIsOk
  <2>. QED  BY <1>2, <1>9, <2>1
<1>10. ASSUME AllReadable(n, wants), c.apply, ~r.failed, ~r.stopped, NEW k \in 1..n
       PROVE  Zitadel!AsWanted(r.policies[k], wants[k])
  <2>1. c.policies[k] \in [Zitadel!Fields -> V]
    OBVIOUS
  <2>. QED  BY <1>2, <1>7, <1>10, <2>1
<1>11. ASSUME AllReadable(n, wants), NEW k \in 1..n
       PROVE  Zitadel!AsWanted(again.policies[k], wants[k])
  <2>1. r.policies[k] \in [Zitadel!Fields -> V]
    BY <1>3
  <2>. QED  BY <1>1, <1>4, <1>7, <1>11, <2>1
<1>12. ASSUME AllReadable(n, wants), check2.changed
       PROVE  \E k \in 1..n : "number" \in DOMAIN wants[k] /\ wants[k]["number"] = 0
  <2>1. PICK k \in 1..n : ToDo(again.policies[k], wants[k]) # {}
    BY <1>6, <1>12
  <2>2. again.policies[k] \in [Zitadel!Fields -> V] /\ Zitadel!AsWanted(again.policies[k], wants[k])
    BY <1>5, <1>11, <1>12
  <2>3. Zitadel!Readable(wants[k]) /\ Fit(wants[k])
    BY <1>12 DEF AllReadable
  <2>. HIDE DEF wants
  <2>. QED  BY <2>1, <2>2, <2>3, PlanIs
<1>13. Zitadel!Converges(c)
  <2>1. ASSUME \A k \in 1..n : Zitadel!Readable(wants[k])
        PROVE  /\ (\A k \in 1..n : Zitadel!Patient(c.answers[k].get) /\ Zitadel!Patient(c.answers[k].put)) => ~r.failed
               /\ c.apply /\ ~r.failed /\ ~r.stopped => \A k \in 1..n : Zitadel!AsWanted(r.policies[k], wants[k])
               /\ \A k \in 1..n : Zitadel!AsWanted(again.policies[k], wants[k])
               /\ check2.changed => \E k \in 1..n : "number" \in DOMAIN wants[k] /\ wants[k]["number"] = 0
    <3>1. AllReadable(n, wants)
      BY <2>1 DEF AllReadable
    <3>. HIDE DEF wants
    <3>. QED  BY <3>1, <1>9, <1>10, <1>11, <1>12
  <2>. QED  BY <1>1, <2>1 DEF Zitadel!Converges, r, again, check2, clean
<1>. QED  BY <1>8, <1>13

\* The cases of the run are such policies.
LEMMA ZitadelCases ==
    ASSUME NEW c \in Zitadel!Cases
    PROVE  Zitadel!TouchesOnlyOurs(c) /\ Zitadel!Converges(c)
<1>. DEFINE V == {c.policies[k][f] : k \in 1..2, f \in Zitadel!Fields}
                 \cup {Zitadel!Desired(c.wants[k])[f] : k \in 1..2, f \in DOMAIN c.wants[1] \cup DOMAIN c.wants[2]}
<1>1. /\ c.policies \in Zitadel!Values \X {[Zitadel!Default EXCEPT !["other"] = 1]}
      /\ c.wants \in Zitadel!Wants \X [flag : {TRUE}, number : {1}]
      /\ c.apply \in BOOLEAN
      /\ c.answers \in Zitadel!Answers \X Zitadel!Others
  BY DEF Zitadel!Cases
<1>2. ASSUME NEW n \in 0..5, NEW last \in Got \cup {"late"}
      PROVE  Zitadel!Busy(n, last) \in [1..5 -> Got \cup {"late"}] /\ (last # "late" => Zitadel!Busy(n, last) \in [1..5 -> Got])
  BY DEF Zitadel!Busy, Got
<1>3. c.answers \in [1..2 -> AnswerSet]
  <2>1. Zitadel!Busy(0, "ok") \in [1..5 -> Got] /\ Zitadel!Busy(0, "ok") \in [1..5 -> Got \cup {"late"}]
    BY <1>2 DEF Got
  <2>2. ASSUME NEW g \in Zitadel!Replies PROVE g \in [1..5 -> Got] /\ g \in [1..5 -> Got \cup {"late"}]
    <3>1. PICK n \in 0..5, last \in {"ok", "error", "cut"} : g = Zitadel!Busy(n, last)
      BY DEF Zitadel!Replies
    <3>. QED  BY <1>2, <3>1 DEF Got
  <2>3. Zitadel!Busy(0, "late") \in [1..5 -> Got \cup {"late"}]
    BY <1>2
  <2>4. Zitadel!Answers \subseteq AnswerSet
    BY <2>1, <2>2, <2>3 DEF Zitadel!Answers, AnswerSet
  <2>5. Zitadel!Busy(4, "ok") \in [1..5 -> Got] /\ Zitadel!Busy(5, "ok") \in [1..5 -> Got]
    BY <1>2 DEF Got
  <2>6. Zitadel!Others \subseteq AnswerSet
    BY <2>1, <2>3, <2>5 DEF Zitadel!Others, AnswerSet
  <2>. QED  BY <1>1, <2>4, <2>6
<1>4. ASSUME NEW k \in 1..2 PROVE DOMAIN c.policies[k] = Zitadel!Fields /\ c.policies[k] = [f \in Zitadel!Fields |-> c.policies[k][f]]
  <2>1. ASSUME NEW p \in Zitadel!Values PROVE DOMAIN p = Zitadel!Fields /\ p = [f \in Zitadel!Fields |-> p[f]]
    BY DEF Zitadel!Values, Zitadel!Fields, Zitadel!Managed
  <2>2. ASSUME NEW p, p = [Zitadel!Default EXCEPT !["other"] = 1] PROVE DOMAIN p = Zitadel!Fields /\ p = [f \in Zitadel!Fields |-> p[f]]
    BY <2>2 DEF Zitadel!Default
  <2>. QED  BY <1>1, <2>1, <2>2
<1>5. \A k \in 1..2 : \A f \in Zitadel!Fields : c.policies[k][f] \in V
  OBVIOUS
<1>6. \A k \in 1..2 : Holds(V, c.wants[k])
  <2>1. \A k \in 1..2 : \A f \in DOMAIN c.wants[k] : Zitadel!Desired(c.wants[k])[f] \in V
    OBVIOUS
  <2>. HIDE DEF V
  <2>. QED  BY <2>1, DesiredIs DEF Holds
<1>7. \A k \in 1..2 : Fit(c.wants[k])
  <2>1. ASSUME NEW w \in Zitadel!Wants PROVE Fit(w)
    <3>1. CASE w \in [flag : BOOLEAN, number : {0, 1}]
      BY <3>1 DEF Fit
    <3>2. CASE w \in [flag : {TRUE}, lifetime : [n : {0, 1}, unit : {"s", "m", "d"}]]
      <4>1. w["flag"] \in {TRUE}
        BY <3>2
      <4>. QED  BY <4>1, Zenon DEF Fit
    <3>3. CASE w \in [number : {1}, unmapped : {1}]
      BY <3>3 DEF Fit
    <3>. QED  BY <3>1, <3>2, <3>3 DEF Zitadel!Wants
  <2>2. ASSUME NEW w \in [flag : {TRUE}, number : {1}] PROVE Fit(w)
    <3>1. w["flag"] \in {TRUE}
      OBVIOUS
    <3>. QED  BY <3>1, Zenon DEF Fit
  <2>3. c.wants[1] \in Zitadel!Wants /\ c.wants[2] \in [flag : {TRUE}, number : {1}]
    BY <1>1
  <2>4. Fit(c.wants[1]) /\ Fit(c.wants[2])
    BY <2>1, <2>2, <2>3
  <2>5. \A k \in 1..2 : k = 1 \/ k = 2
    OBVIOUS
  <2>. QED  BY <2>4, <2>5
<1>. HIDE DEF V
<1>8. c.policies \in [1..2 -> [Zitadel!Fields -> V]]
  <2>1. \A k \in 1..2 : c.policies[k] \in [Zitadel!Fields -> V]
    BY <1>4, <1>5
  <2>2. c.policies = [k \in 1..2 |-> c.policies[k]]
    BY <1>1
  <2>. QED  BY <2>1, <2>2
<1>. QED  BY <1>1, <1>3, <1>6, <1>7, <1>8, ZitadelFaithful
-----------------------------------------------------------------------------
\* One case of any of the six histories.
LEMMA EveryCase ==
    /\ \A c \in Dump!Cases : Dump!LossIsLoud(c) /\ Dump!YoungIsQuiet(c) /\ Dump!PassIsLoaded(c)
    /\ \A c \in Verify!Cases : Verify!LastIsKept(c) /\ Verify!LastWasWhole(c)
    /\ \A c \in Sink!Cases : Sink!OkIsTrue(c) /\ Sink!AgeKeepsGrowing(c)
    /\ \A c \in Zitadel!Cases : Zitadel!TouchesOnlyOurs(c) /\ Zitadel!Converges(c)
    /\ \A c \in Dates!EolCases : Dates!CalendarKeepsFaith(c)
    /\ \A c \in Dates!VexCases : Dates!NothingForEver(c)
<1>1. DumpDays \in Nat
  BY ChecksAssumption
<1>2. ASSUME NEW c \in Dump!Cases PROVE Dump!LossIsLoud(c) /\ Dump!YoungIsQuiet(c) /\ Dump!PassIsLoaded(c)
  BY <1>1, DumpCases, DumpFaithful
<1>3. ASSUME NEW c \in Verify!Cases PROVE Verify!LastIsKept(c) /\ Verify!LastWasWhole(c)
  BY VerifyCases, VerifyFaithful
<1>4. ASSUME NEW c \in Sink!Cases PROVE Sink!OkIsTrue(c) /\ Sink!AgeKeepsGrowing(c)
  <2>. DEFINE m == 2
  <2>1. m \in Nat /\ m > 0
    OBVIOUS
  <2>2. /\ Len(c) = m
        /\ \A k \in 1..m : c[k].sink \in SinkSet
        /\ \A k \in 2..m : Sink!Grown(c[k-1].sink, c[k].sink)
    BY SinkCases
  <2>. HIDE DEF m
  <2>. QED  BY <2>1, <2>2, SinkFaithful
<1>5. ASSUME NEW c \in Zitadel!Cases PROVE Zitadel!TouchesOnlyOurs(c) /\ Zitadel!Converges(c)
  BY ZitadelCases
<1>6. ASSUME NEW c \in Dates!EolCases PROVE Dates!CalendarKeepsFaith(c)
  BY EolCasesAre, EolFaithful
<1>7. ASSUME NEW c \in Dates!VexCases PROVE Dates!NothingForEver(c)
  BY VexCasesAre, VexFaithful
<1>. QED  BY <1>2, <1>3, <1>4, <1>5, <1>6, <1>7

\* Whatever the values of the constants, the six histories of every case keep faith; the theorems above say it of histories
\* of any length (dump_load.py, collect.py, check.py, zitadel-apply-policies.py, check-eol.py, check-vex.py).
THEOREM HistoriesFaithful == Spec => []HistoriesKeepFaith
<1>1. Init => HistoriesKeepFaith
  BY DEF Init, HistoriesKeepFaith
<1>2. HistoriesKeepFaith /\ [Next]_<<check, case>> => HistoriesKeepFaith'
  <2>. SUFFICES ASSUME HistoriesKeepFaith, [Next]_<<check, case>>
                PROVE  HistoriesKeepFaith'
    OBVIOUS
  <2>1. CASE Next
    <3>1. /\ check' = "dump" => case' \in Dump!Cases
          /\ check' = "verify" => case' \in Verify!Cases
          /\ check' = "sink" => case' \in Sink!Cases
          /\ check' = "zitadel" => case' \in Zitadel!Cases
          /\ check' = "eol" => case' \in Dates!EolCases
          /\ check' = "vex" => case' \in Dates!VexCases
      BY <2>1 DEF Next
    <3>. QED  BY <3>1, EveryCase DEF HistoriesKeepFaith
  <2>2. CASE UNCHANGED <<check, case>>
    BY <2>2 DEF HistoriesKeepFaith
  <2>. QED  BY <2>1, <2>2
<1>. QED  BY <1>1, <1>2, PTL DEF Spec
=============================================================================
