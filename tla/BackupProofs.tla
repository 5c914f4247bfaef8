---------------------------- MODULE BackupProofs ----------------------------
(***************************************************************************)
(* What the runs of Backups.cfg check of a few targets, hours and segments *)
(* is proved here for any number of them, of failures and of timeouts: of  *)
(* the database restore tests, of the canary volume and its restore test,  *)
(* and of the CNPG archive and its copy.                                   *)
(***************************************************************************)
EXTENDS MCBackups, FiniteSetTheorems, NaturalsInduction, WellFoundedInduction, TLAPS

-----------------------------------------------------------------------------
(* The parts, each as if it ran alone.                                     *)

LEMMA DatabasesAlone == Spec => Databases!Spec
<1>1. Init => Databases!Init
  BY DEF Init
<1>2. [Next]_<<part, databases, canary, archive>> => [Databases!Next]_(Databases!vars)
  BY DEF Next, databases, Databases!vars
<1>3. QED
  BY <1>1, <1>2, PTL DEF Spec, Databases!Spec

-----------------------------------------------------------------------------
(* The database restore tests.  The invariant is one of each Job on its    *)
(* own: what another Job does to a Cluster of this one is to delete it.    *)

Phases == {"idle", "next", "apply", "wait", "delete", "await", "publish"}
Job == [pc : Phases, at : Nat \ {0}, timer : Nat, told : Nat, blind : BOOLEAN, lied : BOOLEAN,
        readable : BOOLEAN, left : SUBSET Databases!Names, name : Databases!Names \cup {Databases!NoName},
        back : {"sweep", "apply", "result", "terminated", "leave"}, created : BOOLEAN,
        verdict : {"fail", "pass", "borrowed"}, passed : SUBSET (Nat \ {0}), borrowed : BOOLEAN]
Cluster == [state : {"none", "up", "deleting"}, age : Nat, mine : BOOLEAN]
Clusters == [Databases!Names -> Cluster]

There(s, n) == s[n].state # "none"
Cleaning(j) == j.pc \in {"delete", "await"}
Aim(m, j) == <<m, j.at>>

\* Where the Job stands: the target it is at, what a cleanup is about, what it has created.
Stands(m, j) ==
  /\ j.at <= NTargets[m] + 1 /\ (j.pc # "publish" => j.at <= NTargets[m])
  /\ \A t \in j.passed : t < j.at
  /\ Cleaning(j) => j.name \in Databases!Names /\ (j.back # "sweep" => j.name = Aim(m, j))
  /\ j.created => /\ j.pc \in {"wait", "delete", "await", "publish"} /\ j.at <= NTargets[m]
                  /\ Cleaning(j) => j.back \in {"result", "terminated", "leave"}

\* What it judges is its own, but for a call that got no answer.
JudgesOwn(m, j, s) ==
  /\ j.pc = "apply" /\ There(s, Aim(m, j)) => j.blind
  /\ j.pc = "wait" /\ There(s, Aim(m, j)) /\ ~s[Aim(m, j)].mine => j.blind
  /\ j.verdict = "borrowed" \/ j.borrowed => j.blind

\* What it reported as passed is gone, but for an answer exists() did not get.
LeftNothing(m, j, s) == \A t \in j.passed : <<m, t>> \in Databases!Names /\ There(s, <<m, t>>) => j.lied

\* The time each wait has taken, and the signal.
Timed(j) ==
  /\ j.pc = "wait" => j.timer <= HealthyTimeout
  /\ j.pc = "await" => j.timer <= DeleteTimeout
  /\ j.told <= Grace + 1
  /\ Cleaning(j) /\ j.back \in {"terminated", "leave"} => j.told > 0

\* How old the Cluster it restores into may be by then.
Young(m, j, s) ==
  j.created /\ ~j.blind /\ There(s, Aim(m, j)) =>
    LET age == s[Aim(m, j)].age
    IN /\ j.pc = "wait" => age <= j.timer
       /\ j.pc = "delete" /\ j.back = "result" => age <= HealthyTimeout
       /\ j.pc = "await" /\ j.back = "result" => age <= HealthyTimeout + j.timer
       /\ Cleaning(j) /\ j.back # "result" => age <= HealthyTimeout + j.told - 1
       /\ j.pc = "publish" => age <= SweepAge

JobInv(m, j, s) ==
  j \in Job /\ Stands(m, j) /\ JudgesOwn(m, j, s) /\ LeftNothing(m, j, s) /\ Timed(j) /\ Young(m, j, s)
DatabasesInv ==
  /\ scratch \in Clusters /\ DOMAIN job = Modes /\ DOMAIN published = Modes
  /\ \A m \in Modes : JobInv(m, job[m], scratch)

-----------------------------------------------------------------------------
LEMMA Times ==
  /\ HealthyTimeout \in Nat /\ DeleteTimeout \in Nat /\ Grace \in Nat /\ SweepAge \in Nat
  /\ HealthyTimeout + DeleteTimeout + Grace <= SweepAge
  /\ \A m \in Modes : NTargets[m] \in Nat \ {0}
BY BackupsAssumption DEF Databases!TimesAssumption

LEMMA NamesArePairs ==
  /\ \A m \in Modes : \A t \in 1..NTargets[m] : <<m, t>> \in Databases!Names
  /\ \A n \in Databases!Names :
       n[1] \in Modes /\ n[2] \in 1..NTargets[n[1]] /\ n = <<n[1], n[2]>>
BY DEF Databases!Names, Databases!Targets

\* Nothing of a Job's own comes back, or is taken from it but by a deletion.
NothingBack(m, s, t) ==
  \A n \in Databases!Names :
    n[1] = m /\ There(t, n) => There(s, n) /\ t[n].age = s[n].age /\ t[n].mine = s[n].mine

\* What the others do leaves a Job where it was.
LEMMA OthersOnlyDelete ==
  ASSUME NEW m \in Modes, NEW j, NEW s, NEW t, JobInv(m, j, s), NothingBack(m, s, t)
  PROVE  JobInv(m, j, t)
<1>1. j \in Job /\ Stands(m, j) /\ Timed(j)
  BY DEF JobInv
<1>2. j.pc # "publish" \/ j.created => Aim(m, j) \in Databases!Names /\ Aim(m, j)[1] = m
  BY <1>1, NamesArePairs, Times DEF Stands, Aim, Job
<1>3. JudgesOwn(m, j, t)
  BY <1>1, <1>2 DEF JobInv, JudgesOwn, NothingBack
<1>4. LeftNothing(m, j, t)
  BY DEF JobInv, LeftNothing, NothingBack
<1>5. Young(m, j, t)
  BY <1>1, <1>2 DEF JobInv, Young, NothingBack
<1>6. QED
  BY <1>1, <1>3, <1>4, <1>5 DEF JobInv

\* A call without an answer makes the Job blind, and nothing else.
LEMMA SeenFits ==
  ASSUME NEW m \in Modes, NEW j, NEW s, JobInv(m, j, s), NEW answered \in BOOLEAN
  PROVE  JobInv(m, Databases!Seen(j, answered), s)
<1> DEFINE k == Databases!Seen(j, answered)
<1>1. j \in Job
  BY DEF JobInv
<1>2. /\ k \in Job /\ k.blind = (j.blind \/ ~answered) /\ k.pc = j.pc /\ k.at = j.at /\ k.timer = j.timer
      /\ k.told = j.told /\ k.lied = j.lied /\ k.name = j.name /\ k.back = j.back /\ k.created = j.created
      /\ k.verdict = j.verdict /\ k.passed = j.passed /\ k.borrowed = j.borrowed
  BY <1>1 DEF Job, Databases!Seen
<1> HIDE DEF k
<1>3. Stands(m, k) /\ JudgesOwn(m, k, s) /\ LeftNothing(m, k, s) /\ Timed(k)
  BY <1>2 DEF JobInv, Stands, JudgesOwn, LeftNothing, Timed, Aim, Cleaning
<1>4. Young(m, k, s)
  BY <1>2 DEF JobInv, Young, Aim, Cleaning
<1>5. QED
  BY <1>2, <1>3, <1>4 DEF JobInv, k

LEMMA CheckedFits ==
  ASSUME NEW m \in Modes, NEW j, NEW s, JobInv(m, j, s), NEW answered \in BOOLEAN
  PROVE  JobInv(m, Databases!Checked(j, answered), s)
<1> DEFINE k == Databases!Checked(j, answered)
<1>1. j \in Job
  BY DEF JobInv
<1>2. /\ k \in Job /\ k.blind = (j.blind \/ ~answered) /\ k.pc = j.pc /\ k.at = j.at /\ k.timer = j.timer
      /\ k.told = j.told /\ k.lied = (j.lied \/ ~answered) /\ k.name = j.name /\ k.back = j.back
      /\ k.created = j.created /\ k.verdict = j.verdict /\ k.passed = j.passed /\ k.borrowed = j.borrowed
  BY <1>1 DEF Job, Databases!Seen, Databases!Checked
<1> HIDE DEF k
<1>3. Stands(m, k) /\ JudgesOwn(m, k, s) /\ LeftNothing(m, k, s) /\ Timed(k)
  BY <1>2 DEF JobInv, Stands, JudgesOwn, LeftNothing, Timed, Aim, Cleaning
<1>4. Young(m, k, s)
  BY <1>2 DEF JobInv, Young, Aim, Cleaning
<1>5. QED
  BY <1>2, <1>3, <1>4 DEF JobInv, k

\* What a Job carries from one target to the next.
Carried(m, j, s) ==
  /\ j \in Job
  /\ j.verdict = "borrowed" \/ j.borrowed => j.blind
  /\ LeftNothing(m, j, s)
  /\ j.told <= Grace + 1

LEMMA SweepOnFits ==
  ASSUME NEW m \in Modes, NEW j, NEW s, Carried(m, j, s),
         ~j.created, j.at <= NTargets[m], \A t \in j.passed : t < j.at
  PROVE  JobInv(m, Databases!SweepOn(j), s)
<1> DEFINE k == Databases!SweepOn(j)
           n == CHOOSE n \in j.left : TRUE
<1>1. j \in Job
  BY DEF Carried
<1>2. CASE j.left = {}
  <2>1. k = [j EXCEPT !.pc = "next"]
    BY <1>2 DEF Databases!SweepOn
  <2>2. k \in Job /\ k.pc = "next" /\ k.at = j.at /\ k.told = j.told /\ k.passed = j.passed /\ k.created = FALSE
        /\ k.verdict = j.verdict /\ k.borrowed = j.borrowed /\ k.blind = j.blind /\ k.lied = j.lied
    BY <1>1, <2>1 DEF Job, Phases
  <2> HIDE DEF k
  <2>3. QED
    BY <2>2, Times DEF Job, JobInv, Carried, Stands, JudgesOwn, LeftNothing, Timed, Young, Cleaning, k
<1>3. CASE j.left # {}
  <2>1. n \in j.left /\ n \in Databases!Names
    BY <1>1, <1>3 DEF Job
  <2>2. k = [[j EXCEPT !.left = @ \ {n}] EXCEPT !.pc = "delete", !.name = n, !.back = "sweep"]
    BY <1>3 DEF Databases!SweepOn, Databases!Clean
  <2> HIDE DEF n
  <2>3. /\ [j EXCEPT !.left = @ \ {n}] \in Job
        /\ \A h \in Job : [h EXCEPT !.pc = "delete", !.name = n, !.back = "sweep"] \in Job
    BY <1>1, <2>1 DEF Job, Phases
  <2>4. k \in Job
    BY <2>2, <2>3
  <2>5. k.pc = "delete" /\ k.at = j.at /\ k.told = j.told /\ k.passed = j.passed /\ k.created = FALSE
        /\ k.verdict = j.verdict /\ k.borrowed = j.borrowed /\ k.blind = j.blind /\ k.lied = j.lied
        /\ k.name = n /\ k.back = "sweep"
    BY <1>1, <2>2 DEF Job
  <2> HIDE DEF k
  <2>6. QED
    BY <2>1, <2>4, <2>5, Times DEF Job, JobInv, Carried, Stands, JudgesOwn, LeftNothing, Timed, Young, Cleaning, k
<1>4. QED
  BY <1>2, <1>3

LEMMA NextTargetFits ==
  ASSUME NEW m \in Modes, NEW j, NEW s, Carried(m, j, s),
         j.at <= NTargets[m], \A t \in j.passed : t <= j.at
  PROVE  JobInv(m, Databases!NextTarget(m, j), s)
<1> DEFINE k == Databases!NextTarget(m, j)
<1>1. j \in Job /\ NTargets[m] \in Nat
  BY Times DEF Carried
<1>2. k \in Job
  <2>1. \A h \in Job, a \in Nat \ {0} : [h EXCEPT !.at = a, !.created = FALSE, !.verdict = "fail"] \in Job
    BY DEF Job
  <2>2. \A h \in Job, p \in Phases : [h EXCEPT !.name = Databases!NoName, !.back = "sweep", !.pc = p] \in Job
    BY DEF Job, Phases
  <2> DEFINE p == IF j.at = NTargets[m] THEN "publish" ELSE "next"
  <2>3. p \in Phases
    BY DEF Phases
  <2>4. k = [[j EXCEPT !.at = j.at + 1, !.created = FALSE, !.verdict = "fail"]
               EXCEPT !.name = Databases!NoName, !.back = "sweep", !.pc = p]
    BY DEF Databases!NextTarget
  <2>5. j.at + 1 \in Nat \ {0}
    BY <1>1 DEF Job
  <2> HIDE DEF p, k
  <2>6. QED
    BY <1>1, <2>1, <2>2, <2>3, <2>4, <2>5
<1>3. /\ k.pc = (IF j.at = NTargets[m] THEN "publish" ELSE "next") /\ k.at = j.at + 1 /\ k.told = j.told
      /\ k.passed = j.passed /\ k.created = FALSE /\ k.verdict = "fail" /\ k.borrowed = j.borrowed
      /\ k.blind = j.blind /\ k.lied = j.lied
  BY <1>1 DEF Job, Databases!NextTarget
<1>4. j.at \in Nat /\ \A t \in j.passed : t \in Nat
  BY <1>1 DEF Job
<1> HIDE DEF k
<1>5. k.pc # "publish" => k.at <= NTargets[m]
  BY <1>1, <1>2, <1>3, <1>4
<1>6. \A t \in k.passed : t < k.at
  BY <1>2, <1>3, <1>4
<1>7. QED
  BY <1>2, <1>3, <1>5, <1>6, Times DEF Job, JobInv, Carried, Stands, JudgesOwn, LeftNothing, Timed, Young, Cleaning, k

\* A cleanup begins.
LEMMA CleanFits ==
  ASSUME NEW m \in Modes, NEW j, NEW s, Carried(m, j, s),
         j.at <= NTargets[m], \A t \in j.passed : t < j.at,
         NEW n \in Databases!Names, NEW back \in {"apply", "result", "terminated", "leave"}, n = Aim(m, j),
         j.created => back # "apply", back \in {"terminated", "leave"} => j.told > 0,
         j.created /\ ~j.blind /\ There(s, Aim(m, j)) =>
           s[Aim(m, j)].age <= HealthyTimeout + (IF back = "result" THEN 0 ELSE j.told - 1)
  PROVE  JobInv(m, Databases!Clean(j, n, back), s)
<1> DEFINE k == Databases!Clean(j, n, back)
<1>1. j \in Job /\ HealthyTimeout \in Nat
  BY Times DEF Carried
<1>2. k \in Job /\ k.pc = "delete" /\ k.at = j.at /\ k.told = j.told /\ k.passed = j.passed /\ k.created = j.created
      /\ k.verdict = j.verdict /\ k.borrowed = j.borrowed /\ k.blind = j.blind /\ k.lied = j.lied
      /\ k.name = n /\ k.back = back /\ k.timer = j.timer
  BY <1>1 DEF Job, Phases, Databases!Clean
<1> HIDE DEF k
<1>3. Stands(m, k) /\ JudgesOwn(m, k, s) /\ LeftNothing(m, k, s) /\ Timed(k)
  BY <1>2, Times DEF Job, Carried, Stands, JudgesOwn, LeftNothing, Timed, Cleaning, Aim
<1>4. Young(m, k, s)
  BY <1>1, <1>2 DEF Young, Cleaning, Aim
<1>5. QED
  BY <1>2, <1>3, <1>4 DEF JobInv, k

\* The caller of a cleanup goes on: what was not removed has not passed, whatever the answer.
LEMMA BackFits ==
  ASSUME NEW m \in Modes, NEW j, NEW s, JobInv(m, j, s), Cleaning(j), NEW removed \in BOOLEAN,
         There(s, j.name) => j.blind, removed /\ There(s, j.name) => j.lied
  PROVE  JobInv(m, Databases!Back(m, j, removed), s)
<1> DEFINE k == Databases!Back(m, j, removed)
<1>1. /\ j \in Job /\ Carried(m, j, s) /\ Stands(m, j) /\ Timed(j) /\ Young(m, j, s)
      /\ j.at <= NTargets[m] /\ \A t \in j.passed : t < j.at /\ t \in Nat
      /\ j.at \in Nat /\ j.told \in Nat
  BY DEF JobInv, Carried, JudgesOwn, Stands, Timed, Cleaning, Job
<1>2. CASE j.back = "sweep"
  <2> DEFINE h == [j EXCEPT !.timer = 0, !.name = Databases!NoName]
  <2>1. k = Databases!SweepOn(h)
    BY <1>2 DEF Databases!Back
  <2>2. h \in Job /\ h.verdict = j.verdict /\ h.borrowed = j.borrowed /\ h.blind = j.blind /\ h.passed = j.passed
        /\ h.lied = j.lied /\ h.told = j.told /\ h.at = j.at /\ h.created = j.created
    BY <1>1 DEF Job
  <2> HIDE DEF h
  <2>3. Carried(m, h, s) /\ ~h.created /\ h.at <= NTargets[m] /\ \A t \in h.passed : t < h.at
    BY <1>1, <1>2, <2>2 DEF Carried, LeftNothing, Stands, Cleaning
  <2>4. QED
    BY <2>1, <2>3, SweepOnFits
<1>3. CASE j.back = "apply"
  <2>1. k = [j EXCEPT !.pc = "apply", !.timer = 0]
    BY <1>3 DEF Databases!Back
  <2>2. k \in Job
    <3>1. "apply" \in Phases /\ \A h \in Job, p \in Phases : [h EXCEPT !.pc = p, !.timer = 0] \in Job
      BY DEF Job, Phases
    <3>2. QED
      BY <1>1, <2>1, <3>1
  <2>3. k.pc = "apply" /\ k.at = j.at /\ k.told = j.told /\ k.passed = j.passed /\ k.created = j.created
        /\ k.verdict = j.verdict /\ k.borrowed = j.borrowed /\ k.blind = j.blind /\ k.lied = j.lied
    BY <1>1, <2>1 DEF Job
  <2>4. ~j.created /\ (There(s, Aim(m, j)) => j.blind)
    BY <1>1, <1>3 DEF Stands, Cleaning
  <2> HIDE DEF k
  <2>5. QED
    BY <1>1, <2>2, <2>3, <2>4
    DEF JobInv, Carried, Stands, JudgesOwn, LeftNothing, Timed, Young, Cleaning, Aim, k
<1>4. CASE j.back = "result"
  <2> DEFINE passes == IF removed /\ j.verdict # "fail" THEN j.passed \cup {j.at} ELSE j.passed
             h == [j EXCEPT !.timer = 0, !.passed = passes, !.borrowed = @ \/ j.verdict = "borrowed"]
  <2>1. k = Databases!NextTarget(m, h)
    BY <1>4 DEF Databases!Back
  <2>2. passes \in SUBSET (Nat \ {0}) /\ \A t \in passes : t \in j.passed \/ (t = j.at /\ removed)
    BY <1>1 DEF Job
  <2> HIDE DEF passes
  <2>3. h \in Job /\ h.verdict = j.verdict /\ h.borrowed = (j.borrowed \/ j.verdict = "borrowed") /\ h.blind = j.blind
        /\ h.passed = passes /\ h.lied = j.lied /\ h.told = j.told /\ h.at = j.at
    BY <1>1, <2>2 DEF Job
  <2> HIDE DEF h
  <2>4. LeftNothing(m, h, s)
    <3> SUFFICES ASSUME NEW t \in passes, <<m, t>> \in Databases!Names, There(s, <<m, t>>)
                 PROVE  h.lied
      BY <2>3 DEF LeftNothing
    <3>1. CASE t \in j.passed
      BY <1>1, <2>3, <3>1 DEF Carried, LeftNothing
    <3>2. CASE t = j.at /\ removed
      BY <1>1, <1>4, <2>3, <3>2 DEF Stands, Aim
    <3>3. QED
      BY <2>2, <3>1, <3>2
  <2>5. Carried(m, h, s)
    BY <1>1, <2>3, <2>4 DEF Carried
  <2>6. h.at <= NTargets[m]
    BY <1>1, <2>3
  <2>7. ASSUME NEW t \in h.passed PROVE t <= h.at
    <3>1. t \in j.passed \/ t = j.at
      BY <2>2, <2>3
    <3>2. QED
      BY <1>1, <2>3, <3>1
  <2>8. QED
    BY <2>1, <2>5, <2>6, <2>7, NextTargetFits
<1>5. CASE j.back = "terminated" /\ j.created
  <2>1. k = Databases!Clean(j, j.name, "leave")
    BY <1>5 DEF Databases!Back
  <2>2. j.name \in Databases!Names /\ j.name = Aim(m, j) /\ j.told > 0
    BY <1>1, <1>5 DEF Stands, Timed
  <2>3. j.created /\ ~j.blind /\ There(s, Aim(m, j)) => s[Aim(m, j)].age <= HealthyTimeout + (j.told - 1)
    BY <1>1, <1>5, Times DEF Young
  <2>4. JobInv(m, Databases!Clean(j, j.name, "leave"), s)
    BY <1>1, <2>2, <2>3, CleanFits
  <2>5. QED
    BY <2>1, <2>4
<1>6. CASE j.back = "leave" \/ (j.back = "terminated" /\ ~j.created)
  <2>1. k = [j EXCEPT !.pc = "publish"]
    BY <1>6 DEF Databases!Back
  <2>2. k \in Job /\ k.pc = "publish" /\ k.at = j.at /\ k.told = j.told /\ k.passed = j.passed /\ k.created = j.created
        /\ k.verdict = j.verdict /\ k.borrowed = j.borrowed /\ k.blind = j.blind /\ k.lied = j.lied
    BY <1>1, <2>1 DEF Job, Phases
  <2>3. j.created /\ There(s, Aim(m, j)) => j.blind
    BY <1>1, <1>6 DEF Stands
  <2> HIDE DEF k
  <2>4. QED
    BY <1>1, <2>2, <2>3
    DEF JobInv, Carried, Stands, JudgesOwn, LeftNothing, Timed, Young, Cleaning, Aim, k
<1>7. QED
  BY <1>1, <1>2, <1>3, <1>4, <1>5, <1>6 DEF Job

LEMMA IdleFits ==
  ASSUME NEW m \in Modes, NEW s
  PROVE  /\ JobInv(m, Databases!Idle, s)
         /\ \A blind, readable \in BOOLEAN, left \in SUBSET Databases!Names :
              JobInv(m, Databases!SweepOn([Databases!Seen(Databases!Idle, ~blind) EXCEPT
                                             !.readable = readable, !.left = left]), s)
<1> DEFINE idle == Databases!Idle
<1>1. /\ idle \in Job /\ idle.pc = "idle" /\ idle.at = 1 /\ idle.told = 0 /\ idle.passed = {} /\ ~idle.created
      /\ idle.verdict = "fail" /\ ~idle.borrowed /\ ~idle.blind
  BY DEF Databases!Idle, Job, Phases
<1> HIDE DEF idle
<1>2. JobInv(m, idle, s)
  BY <1>1, Times DEF JobInv, Stands, JudgesOwn, LeftNothing, Timed, Young, Cleaning
<1>3. ASSUME NEW blind \in BOOLEAN, NEW readable \in BOOLEAN, NEW left \in SUBSET Databases!Names
      PROVE  JobInv(m, Databases!SweepOn([Databases!Seen(idle, ~blind) EXCEPT
                                             !.readable = readable, !.left = left]), s)
  <2> DEFINE j == [Databases!Seen(idle, ~blind) EXCEPT !.readable = readable, !.left = left]
  <2>1. /\ j \in Job /\ j.at = 1 /\ j.told = 0 /\ j.passed = {} /\ ~j.created
        /\ j.verdict = "fail" /\ ~j.borrowed
    BY <1>1 DEF Databases!Seen, Job
  <2> HIDE DEF j
  <2>2. Carried(m, j, s)
    BY <2>1, Times DEF Carried, LeftNothing
  <2>3. JobInv(m, Databases!SweepOn(j), s)
    BY <2>1, <2>2, SweepOnFits, Times
  <2>4. QED
    BY <2>3 DEF j
<1>4. QED
  BY <1>2, <1>3 DEF idle

\* A step of one Job keeps the invariant if it fits that Job and, to the others, deletes.
LEMMA OneActs ==
  ASSUME DatabasesInv, NEW m \in Modes, NEW k, job' = [job EXCEPT ![m] = k], scratch' \in Clusters,
         DOMAIN published' = Modes,
         \A q \in Modes \ {m} : NothingBack(q, scratch, scratch'), JobInv(m, k, scratch')
  PROVE  DatabasesInv'
<1>1. DOMAIN job' = Modes /\ job'[m] = k /\ \A q \in Modes \ {m} : job'[q] = job[q]
  BY DEF DatabasesInv
<1>2. ASSUME NEW q \in Modes \ {m} PROVE JobInv(q, job'[q], scratch')
  BY <1>1, OthersOnlyDelete DEF DatabasesInv
<1>3. \A q \in Modes : JobInv(q, job'[q], scratch')
  BY <1>1, <1>2
<1>4. QED
  BY <1>1, <1>3 DEF DatabasesInv

LEMMA SameIsNothingBack == \A q, s : NothingBack(q, s, s)
BY DEF NothingBack

LEMMA ApplyFits ==
  ASSUME DatabasesInv, NEW m \in Modes, NEW j, JobInv(m, j, scratch), j.pc \in {"next", "apply"},
         j.at = job[m].at, NEW answered \in BOOLEAN, Databases!Apply(m, j, answered),
         DOMAIN published' = Modes,
         ~answered => j.blind, There(scratch, Aim(m, j)) => j.blind
  PROVE  DatabasesInv'
<1> DEFINE c == Aim(m, j)
           h == [j EXCEPT !.created = TRUE]
           fresh == [state |-> "up", age |-> 0, mine |-> TRUE]
<1>1. /\ Databases!Current(m) = c /\ c \in Databases!Names /\ c[1] = m /\ scratch \in Clusters
      /\ j \in Job /\ Stands(m, j) /\ j.at <= NTargets[m] /\ Carried(m, j, scratch) /\ JobInv(m, j, scratch)
  BY NamesArePairs, Times DEF JobInv, Stands, Aim, Databases!Current, Job, DatabasesInv, Carried, JudgesOwn, Timed
<1>2. /\ h \in Job /\ h.pc = j.pc /\ h.at = j.at /\ h.told = j.told /\ h.passed = j.passed /\ h.created
      /\ h.verdict = j.verdict /\ h.borrowed = j.borrowed /\ h.blind = j.blind /\ h.lied = j.lied
  BY <1>1 DEF Job
<1>3. CASE ~answered
  <2>1. scratch' = scratch /\ job' = [job EXCEPT ![m] = Databases!Clean(h, c, "result")]
    BY <1>1, <1>3 DEF Databases!Apply, Databases!Goes
  <2> HIDE DEF h
  <2>2. Carried(m, h, scratch) /\ Aim(m, h) = c /\ h.blind /\ h.at <= NTargets[m] /\ \A t \in h.passed : t < h.at
    BY <1>1, <1>2, <1>3 DEF Carried, LeftNothing, Aim, Stands
  <2> HIDE DEF c
  <2>3. JobInv(m, Databases!Clean(h, c, "result"), scratch)
    BY <1>1, <2>2, CleanFits
  <2>4. QED
    BY <1>1, <2>1, <2>3, SameIsNothingBack, OneActs
<1>4. CASE answered
  <2> DEFINE k == [h EXCEPT !.pc = "wait", !.timer = 0, !.name = Databases!NoName, !.back = "sweep"]
  <2>1. /\ job' = [job EXCEPT ![m] = k]
        /\ scratch' = IF There(scratch, c) THEN scratch ELSE [scratch EXCEPT ![c] = fresh]
    BY <1>1, <1>4 DEF Databases!Apply, Databases!Goes, There, Databases!Exists
  <2>2. k \in Job
    <3>1. "wait" \in Phases
      BY DEF Phases
    <3>2. \A g \in Job, p \in Phases : [g EXCEPT !.pc = p, !.timer = 0] \in Job
      BY DEF Job
    <3>3. \A g \in Job : [g EXCEPT !.name = Databases!NoName, !.back = "sweep"] \in Job
      BY DEF Job
    <3>4. k = [[h EXCEPT !.pc = "wait", !.timer = 0] EXCEPT !.name = Databases!NoName, !.back = "sweep"]
      OBVIOUS
    <3> HIDE DEF k, h
    <3>5. QED
      BY <1>2, <3>1, <3>2, <3>3, <3>4
  <2>3. /\ k.pc = "wait" /\ k.at = j.at /\ k.told = j.told /\ k.passed = j.passed /\ k.created /\ k.timer = 0
        /\ k.verdict = j.verdict /\ k.borrowed = j.borrowed /\ k.blind = j.blind /\ k.lied = j.lied
    BY <1>2 DEF Job
  <2>4. /\ scratch' \in Clusters
        /\ \A n \in Databases!Names \ {c} : scratch'[n] = scratch[n]
        /\ scratch'[c] = (IF There(scratch, c) THEN scratch[c] ELSE fresh)
    BY <1>1, <2>1 DEF Clusters, Cluster
  <2> HIDE DEF k, h, c
  <2>5. \A q \in Modes \ {m} : NothingBack(q, scratch, scratch')
    BY <1>1, <2>4 DEF NothingBack, There
  <2>6. \A t \in k.passed : t < k.at
    BY <1>1, <2>3 DEF Stands
  <2>7. LeftNothing(m, k, scratch')
    <3> SUFFICES ASSUME NEW t \in k.passed, <<m, t>> \in Databases!Names, There(scratch', <<m, t>>)
                 PROVE  k.lied
      BY DEF LeftNothing
    <3>1. <<m, t>> # c
      BY <1>1, <2>3, <2>6 DEF c, Aim, Job
    <3>2. QED
      BY <1>1, <2>3, <2>4, <3>1 DEF Carried, LeftNothing, There
  <2>8. JudgesOwn(m, k, scratch') /\ Young(m, k, scratch')
    <3>1. Aim(m, k) = c /\ (There(scratch, c) => k.blind)
      BY <2>3 DEF Aim, c
    <3>2. There(scratch', c) /\ ~k.blind => scratch'[c].mine /\ scratch'[c].age = 0
      BY <2>4, <3>1 DEF There
    <3>3. k.verdict = "borrowed" \/ k.borrowed => k.blind
      BY <1>1, <2>3 DEF Carried
    <3>4. JudgesOwn(m, k, scratch')
      BY <2>3, <3>1, <3>2, <3>3 DEF JudgesOwn
    <3>5. Young(m, k, scratch')
      BY <2>3, <3>1, <3>2 DEF Young, Cleaning
    <3>6. QED
      BY <3>4, <3>5
  <2>9. JobInv(m, k, scratch')
    BY <1>1, <2>2, <2>3, <2>6, <2>7, <2>8, Times DEF JobInv, Stands, Timed, Cleaning, Carried
  <2>10. QED
    BY <2>1, <2>4, <2>5, <2>9, OneActs
<1>5. QED
  BY <1>3, <1>4

LEMMA StartFits == ASSUME DatabasesInv, NEW m \in Modes, Databases!Start(m) PROVE DatabasesInv'
<1>1. PICK read \in BOOLEAN, listed \in BOOLEAN :
        LET found == IF listed THEN Databases!Leftovers ELSE {}
        IN job' = [job EXCEPT ![m] = Databases!SweepOn(
                     [Databases!Seen(Databases!Idle, read /\ listed) EXCEPT !.readable = read, !.left = found])]
  BY DEF Databases!Start, Databases!Goes, Databases!Answers
<1> DEFINE found == IF listed THEN Databases!Leftovers ELSE {}
           blind == ~(read /\ listed)
           k == Databases!SweepOn([Databases!Seen(Databases!Idle, ~blind) EXCEPT !.readable = read, !.left = found])
<1>2. scratch' = scratch /\ published' = published
  BY DEF Databases!Start
<1>3. found \in SUBSET Databases!Names /\ blind \in BOOLEAN /\ (read /\ listed) = ~blind
  BY DEF Databases!Leftovers
<1>4. job' = [job EXCEPT ![m] = k]
  BY <1>1, <1>3
<1> HIDE DEF found, blind
<1>5. JobInv(m, k, scratch)
  BY <1>3, IdleFits
<1> HIDE DEF k
<1>6. QED
  BY <1>2, <1>4, <1>5, SameIsNothingBack, OneActs DEF DatabasesInv

LEMMA PrepareFits == ASSUME DatabasesInv, NEW m \in Modes, Databases!Prepare(m) PROVE DatabasesInv'
<1>1. PICK seen \in BOOLEAN, applied \in BOOLEAN :
        LET j == Databases!Seen(job[m], seen /\ applied)
        IN \/ Databases!Goes(m, Databases!NextTarget(m, j)) /\ UNCHANGED scratch
           \/ /\ seen /\ applied /\ Databases!Exists(Databases!Current(m))
              /\ Databases!Goes(m, Databases!Clean(j, Databases!Current(m), "apply")) /\ UNCHANGED scratch
           \/ /\ seen => ~Databases!Exists(Databases!Current(m))
              /\ Databases!Apply(m, j, applied)
  BY DEF Databases!Prepare, Databases!Answers
<1> DEFINE j == Databases!Seen(job[m], seen /\ applied)
           c == Aim(m, j)
<1>2. published' = published /\ job[m].pc = "next" /\ scratch \in Clusters /\ DOMAIN published = Modes
      /\ JobInv(m, job[m], scratch)
  BY DEF Databases!Prepare, DatabasesInv
<1>3. JobInv(m, j, scratch) /\ j.pc = "next" /\ j.at = job[m].at /\ (~(seen /\ applied) => j.blind)
  BY <1>2, SeenFits DEF Databases!Seen, JobInv, Job
<1> HIDE DEF j
<1>4. /\ Carried(m, j, scratch) /\ j.at <= NTargets[m] /\ j.at \in Nat /\ ~j.created
      /\ \A t \in j.passed : t < j.at /\ t \in Nat
  BY <1>3 DEF JobInv, Carried, JudgesOwn, Stands, Timed, Job, Cleaning
<1>5. c = Databases!Current(m) /\ c \in Databases!Names /\ (There(scratch, c) <=> Databases!Exists(c))
  BY <1>3, <1>4, NamesArePairs, Times DEF Aim, Databases!Current, There, Databases!Exists, JobInv, Job
<1>6. CASE Databases!Goes(m, Databases!NextTarget(m, j)) /\ UNCHANGED scratch
  <2>1. JobInv(m, Databases!NextTarget(m, j), scratch)
    BY <1>4, NextTargetFits
  <2>2. QED
    BY <1>2, <1>6, <2>1, SameIsNothingBack, OneActs DEF Databases!Goes
<1>7. CASE Databases!Goes(m, Databases!Clean(j, c, "apply")) /\ UNCHANGED scratch
  <2> HIDE DEF c
  <2>1. JobInv(m, Databases!Clean(j, c, "apply"), scratch)
    BY <1>4, <1>5, CleanFits DEF c
  <2>2. QED
    BY <1>2, <1>7, <2>1, SameIsNothingBack, OneActs DEF Databases!Goes
<1>8. CASE (seen => ~Databases!Exists(c)) /\ Databases!Apply(m, j, applied)
  <2>1. (~applied => j.blind) /\ (There(scratch, c) => j.blind)
    BY <1>3, <1>5, <1>8
  <2>2. QED
    BY <1>2, <1>3, <1>8, <2>1, ApplyFits
<1>9. QED
  BY <1>1, <1>5, <1>6, <1>7, <1>8 DEF j

LEMMA ApplyAfterFits == ASSUME DatabasesInv, NEW m \in Modes, Databases!ApplyAfter(m) PROVE DatabasesInv'
<1>1. PICK answered \in BOOLEAN : Databases!Apply(m, Databases!Seen(job[m], answered), answered)
  BY DEF Databases!ApplyAfter, Databases!Answers
<1> DEFINE j == Databases!Seen(job[m], answered)
<1>2. published' = published /\ job[m].pc = "apply" /\ DOMAIN published = Modes /\ JobInv(m, job[m], scratch)
  BY DEF Databases!ApplyAfter, DatabasesInv
<1>3. JobInv(m, j, scratch) /\ j.pc = "apply" /\ j.at = job[m].at /\ (~answered => j.blind)
  BY <1>2, SeenFits DEF Databases!Seen, JobInv, Job
<1> HIDE DEF j
<1>4. There(scratch, Aim(m, j)) => j.blind
  BY <1>3 DEF JobInv, JudgesOwn
<1>5. QED
  BY <1>1, <1>2, <1>3, <1>4, ApplyFits DEF j

LEMMA JudgeFits == ASSUME DatabasesInv, NEW m \in Modes, Databases!Judge(m) PROVE DatabasesInv'
<1>1. PICK pass \in {FALSE, Databases!Exists(Databases!Current(m))} :
        job' = [job EXCEPT ![m] =
                  Databases!Clean([job[m] EXCEPT
                          !.timer = 0,
                          !.verdict = IF ~pass THEN "fail"
                                      ELSE IF scratch[Databases!Current(m)].mine THEN "pass" ELSE "borrowed"],
                       Databases!Current(m), "result")]
  BY DEF Databases!Judge, Databases!Goes
<1> DEFINE c == Databases!Current(m)
           verdict == IF ~pass THEN "fail" ELSE IF scratch[c].mine THEN "pass" ELSE "borrowed"
           j == job[m]
           h == [j EXCEPT !.timer = 0, !.verdict = verdict]
<1>2. /\ scratch' = scratch /\ published' = published /\ j.pc = "wait" /\ DOMAIN published = Modes
      /\ scratch \in Clusters /\ JobInv(m, j, scratch) /\ j \in Job
  BY DEF Databases!Judge, DatabasesInv, JobInv
<1>3. c = Aim(m, j) /\ (pass => There(scratch, c)) /\ verdict \in {"fail", "pass", "borrowed"}
  BY DEF Aim, Databases!Current, There, Databases!Exists
<1>4. verdict = "borrowed" => There(scratch, c) /\ ~scratch[c].mine
  BY <1>3
<1> HIDE DEF verdict
<1>5. /\ h \in Job /\ h.at = j.at /\ h.told = j.told /\ h.passed = j.passed /\ h.created = j.created
      /\ h.verdict = verdict /\ h.borrowed = j.borrowed /\ h.blind = j.blind /\ h.lied = j.lied
  BY <1>2, <1>3 DEF Job
<1>6. j.at <= NTargets[m] /\ (\A t \in j.passed : t < j.at) /\ c \in Databases!Names
  BY <1>2, <1>3, NamesArePairs, Times DEF JobInv, Stands, Aim, Job
<1>7. j.created /\ ~j.blind /\ There(scratch, c) => scratch[c].age <= j.timer
  BY <1>2, <1>3 DEF JobInv, Young
<1>8. j.timer <= HealthyTimeout /\ j.timer \in Nat /\ scratch[c].age \in Nat
  BY <1>2, <1>6 DEF JobInv, Timed, Job, Clusters, Cluster
<1> HIDE DEF h, c
<1>9. Carried(m, h, scratch)
  <2>1. verdict = "borrowed" \/ j.borrowed => j.blind
    BY <1>2, <1>3, <1>4 DEF JobInv, JudgesOwn
  <2>2. QED
    BY <1>2, <1>5, <2>1 DEF JobInv, Carried, LeftNothing, Timed
<1>10. JobInv(m, Databases!Clean(h, c, "result"), scratch)
  <2>1. Aim(m, h) = c
    BY <1>3, <1>5 DEF Aim
  <2>2. h.created /\ ~h.blind /\ There(scratch, Aim(m, h)) => scratch[Aim(m, h)].age <= HealthyTimeout + 0
    BY <1>5, <1>7, <1>8, <2>1, Times
  <2>3. QED
    BY <1>5, <1>6, <1>9, <2>1, <2>2, CleanFits
<1>11. QED
  BY <1>1, <1>2, <1>10, SameIsNothingBack, OneActs DEF h, verdict, c

\* A Cluster is marked for deletion or goes: nothing comes back.
LEMMA DeletionsOnlyDelete ==
  ASSUME scratch \in Clusters, NEW n \in Databases!Names, NEW c,
         \/ c = [scratch EXCEPT ![n].state = "deleting"] /\ There(scratch, n)
         \/ c = [scratch EXCEPT ![n] = Databases!Gone]
         \/ c = scratch
  PROVE  c \in Clusters /\ \A q : NothingBack(q, scratch, c)
<1>1. \A x \in Databases!Names : scratch[x] \in Cluster
  BY DEF Clusters
<1>2. /\ \A x \in Databases!Names \ {n} : c[x] = scratch[x]
      /\ c[n] \in Cluster /\ DOMAIN c = Databases!Names
      /\ There(c, n) => There(scratch, n) /\ c[n].age = scratch[n].age /\ c[n].mine = scratch[n].mine
  <2>1. CASE c = [scratch EXCEPT ![n].state = "deleting"] /\ There(scratch, n)
    <3>1. c = [scratch EXCEPT ![n] = [scratch[n] EXCEPT !.state = "deleting"]]
      BY <2>1
    <3>2. c[n] = [scratch[n] EXCEPT !.state = "deleting"] /\ DOMAIN c = Databases!Names
          /\ \A x \in Databases!Names \ {n} : c[x] = scratch[x]
      BY <3>1 DEF Clusters
    <3>3. QED
      BY <1>1, <2>1, <3>2 DEF Cluster, There
  <2>2. CASE c = [scratch EXCEPT ![n] = Databases!Gone]
    BY <1>1, <2>2 DEF Clusters, Cluster, There, Databases!Gone
  <2>3. CASE c = scratch
    BY <1>1, <2>3 DEF Clusters
  <2>4. QED
    BY <2>1, <2>2, <2>3
<1>3. c \in Clusters
  <2>1. \A x \in Databases!Names : c[x] \in Cluster
    BY <1>1, <1>2
  <2>2. c = [x \in Databases!Names |-> c[x]]
    BY <1>2 DEF Clusters, Databases!Gone
  <2>3. QED
    BY <2>1, <2>2 DEF Clusters
<1>4. ASSUME NEW q, NEW x \in Databases!Names, There(c, x)
      PROVE  There(scratch, x) /\ c[x].age = scratch[x].age /\ c[x].mine = scratch[x].mine
  BY <1>2, <1>4 DEF There
<1>5. QED
  BY <1>3, <1>4 DEF NothingBack

LEMMA DeleteClusterFits == ASSUME DatabasesInv, NEW m \in Modes, Databases!DeleteCluster(m) PROVE DatabasesInv'
<1>1. PICK answered \in BOOLEAN :
        /\ job' = [job EXCEPT ![m] = [Databases!Seen(job[m], answered) EXCEPT !.pc = "await", !.timer = 0]]
        /\ scratch' = IF answered /\ Databases!Exists(job[m].name)
                      THEN [scratch EXCEPT ![job[m].name].state = "deleting"] ELSE scratch
  BY DEF Databases!DeleteCluster, Databases!Goes, Databases!Answers
<1> DEFINE j == Databases!Seen(job[m], answered)
           k == [j EXCEPT !.pc = "await", !.timer = 0]
<1>2. published' = published /\ job[m].pc = "delete" /\ DOMAIN published = Modes /\ JobInv(m, job[m], scratch)
      /\ scratch \in Clusters
  BY DEF Databases!DeleteCluster, DatabasesInv
<1>3. job[m].name \in Databases!Names
  BY <1>2 DEF JobInv, Stands, Cleaning
<1>4. scratch' \in Clusters /\ \A q : NothingBack(q, scratch, scratch')
  BY <1>1, <1>2, <1>3, DeletionsOnlyDelete DEF Databases!Exists, There
<1>5. JobInv(m, j, scratch') /\ j.pc = "delete"
  <2>1. JobInv(m, j, scratch) /\ j.pc = "delete"
    BY <1>2, SeenFits DEF Databases!Seen, JobInv, Job
  <2> HIDE DEF j
  <2>2. QED
    BY <1>4, <2>1, OthersOnlyDelete
<1> HIDE DEF j
<1>6. k \in Job
  <2>1. "await" \in Phases /\ \A h \in Job, p \in Phases : [h EXCEPT !.pc = p, !.timer = 0] \in Job
    BY DEF Job, Phases
  <2>2. QED
    BY <1>5, <2>1 DEF JobInv
<1>7. k.pc = "await" /\ k.at = j.at /\ k.told = j.told /\ k.passed = j.passed /\ k.created = j.created /\ k.timer = 0
      /\ k.verdict = j.verdict /\ k.borrowed = j.borrowed /\ k.blind = j.blind /\ k.lied = j.lied
      /\ k.name = j.name /\ k.back = j.back
  BY <1>5 DEF Job, JobInv
<1> HIDE DEF k
<1>8. Stands(m, k) /\ JudgesOwn(m, k, scratch') /\ LeftNothing(m, k, scratch') /\ Timed(k)
  BY <1>5, <1>7, Times DEF JobInv, Stands, JudgesOwn, LeftNothing, Timed, Cleaning, Aim
<1>9. Young(m, k, scratch')
  BY <1>5, <1>7, Times DEF JobInv, Young, Cleaning, Aim
<1>10. JobInv(m, k, scratch')
  BY <1>6, <1>8, <1>9 DEF JobInv
<1>11. QED
  BY <1>1, <1>2, <1>4, <1>10, OneActs DEF k, j

LEMMA GiveUpFits == ASSUME DatabasesInv, NEW m \in Modes, Databases!GiveUp(m) PROVE DatabasesInv'
<1> DEFINE j == Databases!Seen(job[m], FALSE)
<1>1. /\ job' = [job EXCEPT ![m] = Databases!Back(m, j, FALSE)]
      /\ scratch' = scratch /\ published' = published /\ job[m].pc = "delete"
  BY DEF Databases!GiveUp, Databases!Goes
<1>2. DOMAIN published = Modes /\ scratch \in Clusters /\ JobInv(m, job[m], scratch)
  BY DEF DatabasesInv
<1>3. JobInv(m, j, scratch) /\ j.pc = "delete" /\ j.blind
  BY <1>1, <1>2, SeenFits DEF Databases!Seen, JobInv, Job
<1> HIDE DEF j
<1>4. JobInv(m, Databases!Back(m, j, FALSE), scratch)
  BY <1>3, BackFits DEF Cleaning
<1>5. QED
  BY <1>1, <1>2, <1>4, SameIsNothingBack, OneActs

LEMMA AwaitGoneFits == ASSUME DatabasesInv, NEW m \in Modes, Databases!AwaitGone(m) PROVE DatabasesInv'
<1>1. PICK answered \in BOOLEAN :
        /\ answered => ~Databases!Exists(job[m].name)
        /\ job' = [job EXCEPT ![m] = Databases!Back(m, Databases!Checked(job[m], answered), TRUE)]
  BY DEF Databases!AwaitGone, Databases!Goes, Databases!Answers
<1> DEFINE j == Databases!Checked(job[m], answered)
<1>2. /\ scratch' = scratch /\ published' = published /\ job[m].pc = "await"
      /\ DOMAIN published = Modes /\ scratch \in Clusters /\ JobInv(m, job[m], scratch)
  BY DEF Databases!AwaitGone, DatabasesInv
<1>3. JobInv(m, j, scratch)
  BY <1>2, CheckedFits
<1>4. j.pc = "await" /\ j.name = job[m].name /\ (~answered => j.blind /\ j.lied)
  BY <1>2 DEF Databases!Checked, Databases!Seen, JobInv, Job
<1> HIDE DEF j
<1>5. There(scratch, j.name) => j.blind /\ j.lied
  BY <1>1, <1>4 DEF There, Databases!Exists
<1>6. JobInv(m, Databases!Back(m, j, TRUE), scratch)
  BY <1>3, <1>4, <1>5, BackFits DEF Cleaning
<1>7. QED
  BY <1>1, <1>2, <1>6, SameIsNothingBack, OneActs DEF j

LEMMA ForceFits == ASSUME DatabasesInv, NEW m \in Modes, Databases!Force(m) PROVE DatabasesInv'
<1>1. PICK answered \in BOOLEAN :
        /\ job' = [job EXCEPT ![m] = Databases!Back(m, Databases!Seen(job[m], answered), answered)]
        /\ scratch' = IF answered THEN [scratch EXCEPT ![job[m].name] = Databases!Gone] ELSE scratch
  BY DEF Databases!Force, Databases!Goes, Databases!Answers
<1> DEFINE j == Databases!Seen(job[m], answered)
<1>2. published' = published /\ job[m].pc = "await" /\ DOMAIN published = Modes /\ JobInv(m, job[m], scratch)
      /\ scratch \in Clusters
  BY DEF Databases!Force, DatabasesInv
<1>3. job[m].name \in Databases!Names
  BY <1>2 DEF JobInv, Stands, Cleaning
<1>4. scratch' \in Clusters /\ \A q : NothingBack(q, scratch, scratch')
  BY <1>1, <1>2, <1>3, DeletionsOnlyDelete
<1>5. JobInv(m, j, scratch) /\ j.pc = "await" /\ j.name = job[m].name /\ (~answered => j.blind)
  BY <1>2, SeenFits DEF Databases!Seen, JobInv, Job
<1> HIDE DEF j
<1>6. JobInv(m, j, scratch')
  BY <1>4, <1>5, OthersOnlyDelete
<1>7. answered => ~There(scratch', j.name)
  BY <1>1, <1>2, <1>3, <1>5 DEF There, Clusters, Databases!Gone
<1>8. JobInv(m, Databases!Back(m, j, answered), scratch')
  BY <1>5, <1>6, <1>7, BackFits DEF Cleaning
<1>9. QED
  BY <1>1, <1>2, <1>4, <1>8, OneActs DEF j

\* The end of a Job, published or killed: its Clusters are leftovers.
LEMMA EndsFits ==
  ASSUME DatabasesInv, NEW m \in Modes, Databases!Ends(m), DOMAIN published' = Modes
  PROVE  DatabasesInv'
<1>1. /\ job' = [job EXCEPT ![m] = Databases!Idle] /\ scratch \in Clusters
      /\ scratch' = [n \in Databases!Names |-> [scratch[n] EXCEPT !.mine = @ /\ n[1] # m]]
  BY DEF Databases!Ends, Databases!Goes, DatabasesInv
<1>2. \A n \in Databases!Names :
        /\ scratch'[n] \in Cluster /\ scratch'[n].state = scratch[n].state /\ scratch'[n].age = scratch[n].age
        /\ n[1] # m => scratch'[n].mine = scratch[n].mine
  <2> TAKE n \in Databases!Names
  <2>1. scratch[n] \in Cluster /\ scratch'[n] = [scratch[n] EXCEPT !.mine = scratch[n].mine /\ n[1] # m]
    BY <1>1 DEF Clusters
  <2>2. QED
    BY <2>1 DEF Cluster
<1>3. scratch' \in Clusters
  BY <1>1, <1>2 DEF Clusters
<1>4. \A q \in Modes \ {m} : NothingBack(q, scratch, scratch')
  BY <1>2 DEF NothingBack, There
<1>5. QED
  BY <1>1, <1>3, <1>4, IdleFits, OneActs

LEMMA TerminateFits == ASSUME DatabasesInv, NEW m \in Modes, Databases!Terminate(m) PROVE DatabasesInv'
<1> DEFINE j == [job[m] EXCEPT !.told = 1]
           c == Databases!Current(m)
           i == job[m]
<1>1. /\ scratch' = scratch /\ published' = published /\ DOMAIN published = Modes /\ scratch \in Clusters
      /\ JobInv(m, i, scratch) /\ i \in Job /\ i.told = 0
  BY DEF Databases!Terminate, DatabasesInv, JobInv
<1>2. /\ j \in Job /\ j.pc = i.pc /\ j.at = i.at /\ j.told = 1 /\ j.passed = i.passed /\ j.created = i.created
      /\ j.verdict = i.verdict /\ j.borrowed = i.borrowed /\ j.blind = i.blind /\ j.lied = i.lied /\ j.name = i.name
      /\ j.back = i.back /\ j.timer = i.timer
  BY <1>1 DEF Job
<1>3. \/ /\ Cleaning(j) /\ j.back \in {"sweep", "result"}
         /\ job' = [job EXCEPT ![m] = [j EXCEPT !.pc = "publish"]]
      \/ /\ j.pc \in {"next", "apply", "wait"} \/ (Cleaning(j) /\ j.back = "apply")
         /\ job' = [job EXCEPT ![m] = Databases!Clean([j EXCEPT !.timer = 0], c, "terminated")]
  BY DEF Databases!Terminate, Databases!Goes, Cleaning
<1> HIDE DEF j
<1>4. CASE /\ Cleaning(j) /\ j.back \in {"sweep", "result"}
           /\ job' = [job EXCEPT ![m] = [j EXCEPT !.pc = "publish"]]
  <2> DEFINE k == [j EXCEPT !.pc = "publish"]
  <2>1. k \in Job /\ k.pc = "publish" /\ k.at = j.at /\ k.told = 1 /\ k.passed = j.passed /\ k.created = j.created
        /\ k.verdict = j.verdict /\ k.borrowed = j.borrowed /\ k.blind = j.blind /\ k.lied = j.lied
    BY <1>2 DEF Job, Phases
  <2> HIDE DEF k
  <2>2. Stands(m, k) /\ JudgesOwn(m, k, scratch) /\ LeftNothing(m, k, scratch) /\ Timed(k)
    BY <1>1, <1>2, <1>4, <2>1, Times DEF JobInv, Stands, JudgesOwn, LeftNothing, Timed, Cleaning
  <2>3. Young(m, k, scratch)
    <3> SUFFICES ASSUME k.created, ~k.blind, There(scratch, Aim(m, k))
                 PROVE  scratch[Aim(m, k)].age <= SweepAge
      BY <2>1 DEF Young, Cleaning
    <3>1. i.created /\ i.back = "result" /\ i.timer \in Nat /\ (i.pc = "await" => i.timer <= DeleteTimeout)
          /\ Aim(m, k) = Aim(m, i)
      BY <1>1, <1>2, <1>4, <2>1 DEF JobInv, Stands, Timed, Aim, Cleaning, Job
    <3>2. \/ i.pc = "delete" /\ scratch[Aim(m, i)].age <= HealthyTimeout
          \/ i.pc = "await" /\ scratch[Aim(m, i)].age <= HealthyTimeout + i.timer
      BY <1>1, <1>2, <1>4, <2>1, <3>1 DEF JobInv, Young, Cleaning
    <3>3. scratch[Aim(m, i)].age \in Nat
      <4>1. Aim(m, i) \in Databases!Names
        BY <1>1, <3>1, NamesArePairs, Times DEF JobInv, Stands, Aim, Job
      <4>2. QED
        BY <1>1, <4>1 DEF Clusters, Cluster
    <3>4. QED
      BY <3>1, <3>2, <3>3, Times
  <2>4. JobInv(m, k, scratch)
    BY <2>1, <2>2, <2>3 DEF JobInv
  <2>5. QED
    BY <1>1, <1>4, <2>4, SameIsNothingBack, OneActs DEF k
<1>5. CASE /\ j.pc \in {"next", "apply", "wait"} \/ (Cleaning(j) /\ j.back = "apply")
           /\ job' = [job EXCEPT ![m] = Databases!Clean([j EXCEPT !.timer = 0], c, "terminated")]
  <2> DEFINE h == [j EXCEPT !.timer = 0]
  <2>1. /\ h \in Job /\ h.at = j.at /\ h.told = 1 /\ h.passed = j.passed /\ h.created = j.created
        /\ h.verdict = j.verdict /\ h.borrowed = j.borrowed /\ h.blind = j.blind /\ h.lied = j.lied
    BY <1>2 DEF Job
  <2> HIDE DEF h
  <2>2. c = Aim(m, i) /\ Aim(m, h) = c /\ c \in Databases!Names /\ h.at <= NTargets[m]
        /\ \A t \in h.passed : t < h.at
    BY <1>1, <1>2, <1>5, <2>1, NamesArePairs, Times DEF JobInv, Stands, Aim, Databases!Current, Cleaning, Job
  <2>3. Carried(m, h, scratch)
    BY <1>1, <1>2, <2>1, Times DEF JobInv, Carried, JudgesOwn, LeftNothing
  <2>4. h.created /\ ~h.blind /\ There(scratch, Aim(m, h)) => scratch[Aim(m, h)].age <= HealthyTimeout + (h.told - 1)
    <3> SUFFICES ASSUME h.created, ~h.blind, There(scratch, c) PROVE scratch[c].age <= HealthyTimeout
      BY <2>1, <2>2, Times
    <3>1. i.pc = "wait" /\ i.timer <= HealthyTimeout /\ i.timer \in Nat
      BY <1>1, <1>2, <1>5, <2>1 DEF JobInv, Stands, Timed, Job, Cleaning
    <3>2. scratch[c].age <= i.timer
      BY <1>1, <1>2, <2>1, <2>2, <3>1 DEF JobInv, Young
    <3>3. scratch[c].age \in Nat
      BY <1>1, <2>2 DEF Clusters, Cluster
    <3>4. QED
      BY <3>1, <3>2, <3>3, Times
  <2> HIDE DEF c
  <2>5. JobInv(m, Databases!Clean(h, c, "terminated"), scratch)
    BY <2>1, <2>2, <2>3, <2>4, CleanFits
  <2>6. QED
    BY <1>1, <1>5, <2>5, SameIsNothingBack, OneActs DEF h, c
<1>6. QED
  BY <1>3, <1>4, <1>5

\* A tick ages what is there by no more than the wait or the signal it is counted against.
LEMMA TickFits == ASSUME DatabasesInv, Databases!Tick PROVE DatabasesInv'
<1> DEFINE Older(n) == [scratch[n] EXCEPT !.age = IF Databases!Exists(n) /\ @ <= SweepAge THEN @ + 1 ELSE @]
           Later(m) == [job[m] EXCEPT !.timer = IF job[m].pc = "idle" THEN 1 ELSE @ + 1,
                                      !.told = IF @ > 0 THEN @ + 1 ELSE 0]
<1>1. /\ job' = [m \in Modes |-> Later(m)] /\ scratch' = [n \in Databases!Names |-> Older(n)]
      /\ published' = published /\ scratch \in Clusters /\ DOMAIN published = Modes
  BY DEF Databases!Tick, DatabasesInv
<1>2. \A n \in Databases!Names :
        /\ scratch'[n] \in Cluster /\ scratch'[n].state = scratch[n].state /\ scratch'[n].mine = scratch[n].mine
        /\ scratch[n].age \in Nat /\ scratch'[n].age <= scratch[n].age + 1
  <2> TAKE n \in Databases!Names
  <2> DEFINE older == IF Databases!Exists(n) /\ scratch[n].age <= SweepAge THEN scratch[n].age + 1 ELSE scratch[n].age
  <2>1. scratch[n] \in Cluster /\ scratch'[n] = [scratch[n] EXCEPT !.age = older]
    BY <1>1 DEF Clusters
  <2>2. scratch[n].age \in Nat /\ older \in Nat /\ older <= scratch[n].age + 1
    BY <2>1 DEF Cluster
  <2> HIDE DEF older
  <2>3. QED
    BY <2>1, <2>2 DEF Cluster
<1>3. scratch' \in Clusters
  BY <1>1, <1>2 DEF Clusters
<1>4. ASSUME NEW m \in Modes PROVE JobInv(m, job'[m], scratch')
  <2> DEFINE j == job[m]
             k == Later(m)
             timer == IF j.pc = "idle" THEN 1 ELSE j.timer + 1
             told == IF j.told > 0 THEN j.told + 1 ELSE 0
  <2>1. JobInv(m, j, scratch) /\ j \in Job /\ Databases!Patient(j) /\ job'[m] = k
    BY <1>1, <1>4 DEF DatabasesInv, JobInv, Databases!Tick
  <2>2. timer \in Nat /\ told \in Nat /\ j.told \in Nat /\ j.timer \in Nat /\ k = [j EXCEPT !.timer = timer, !.told = told]
    BY <2>1 DEF Job
  <2>3. (j.pc # "idle" => timer = j.timer + 1) /\ (j.told > 0 <=> told > 0) /\ (j.told > 0 => told = j.told + 1)
    BY <2>2
  <2> HIDE DEF k, timer, told, j
  <2>4. /\ k \in Job /\ k.pc = j.pc /\ k.at = j.at /\ k.told = told /\ k.timer = timer /\ k.passed = j.passed
        /\ k.created = j.created /\ k.verdict = j.verdict /\ k.borrowed = j.borrowed /\ k.blind = j.blind
        /\ k.lied = j.lied /\ k.name = j.name /\ k.back = j.back
    BY <2>1, <2>2 DEF Job
  <2> HIDE DEF Older, Later
  <2>5. Stands(m, k)
    BY <2>1, <2>4 DEF JobInv, Stands, Cleaning, Aim
  <2>6. Timed(k)
    BY <2>1, <2>2, <2>3, <2>4, Times DEF JobInv, Timed, Databases!Patient, Cleaning
  <2>7. j.pc # "publish" => Aim(m, j) \in Databases!Names /\ Aim(m, k) = Aim(m, j)
    BY <2>1, <2>4, NamesArePairs, Times DEF JobInv, Stands, Aim, Job
  <2>8. JudgesOwn(m, k, scratch')
    BY <1>2, <2>1, <2>4, <2>7 DEF JobInv, JudgesOwn, There
  <2>9. LeftNothing(m, k, scratch')
    BY <1>2, <2>1, <2>4 DEF JobInv, LeftNothing, There
  <2>10. Young(m, k, scratch')
    <3> SUFFICES ASSUME k.created, ~k.blind, There(scratch', Aim(m, k))
                 PROVE  LET age == scratch'[Aim(m, k)].age
                        IN /\ k.pc = "wait" => age <= k.timer
                           /\ k.pc = "delete" /\ k.back = "result" => age <= HealthyTimeout
                           /\ k.pc = "await" /\ k.back = "result" => age <= HealthyTimeout + k.timer
                           /\ Cleaning(k) /\ k.back # "result" => age <= HealthyTimeout + k.told - 1
                           /\ k.pc = "publish" => age <= SweepAge
      BY DEF Young
    <3>1. j.pc \in {"wait", "await"} /\ timer = j.timer + 1
      BY <2>1, <2>3, <2>4 DEF Databases!Patient, JobInv, Stands
    <3> DEFINE age == scratch[Aim(m, j)].age
               older == scratch'[Aim(m, k)].age
    <3>2. age \in Nat /\ older \in Nat /\ older <= age + 1 /\ There(scratch, Aim(m, j))
      <4>1. Aim(m, j) \in Databases!Names /\ Aim(m, k) = Aim(m, j)
        BY <2>7, <3>1
      <4>2. QED
        BY <1>2, <4>1 DEF There, Cluster
    <3>3. /\ j.pc = "wait" => age <= j.timer
          /\ j.pc = "await" /\ j.back = "result" => age <= HealthyTimeout + j.timer
          /\ j.pc = "await" /\ j.back # "result" => age <= HealthyTimeout + j.told - 1 /\ j.told > 0
      BY <2>1, <2>4, <3>2 DEF JobInv, Young, Timed, Stands, Cleaning
    <3> HIDE DEF age, older
    <3>4. /\ k.pc = "wait" => older <= k.timer
          /\ k.pc = "await" /\ k.back = "result" => older <= HealthyTimeout + k.timer
          /\ k.pc = "await" /\ k.back # "result" => older <= HealthyTimeout + k.told - 1
      BY <2>2, <2>3, <2>4, <3>1, <3>2, <3>3, Times
    <3>5. QED
      BY <2>4, <3>1, <3>4 DEF Cleaning, older
  <2>11. QED
    BY <2>1, <2>4, <2>5, <2>6, <2>8, <2>9, <2>10 DEF JobInv
<1>5. QED
  BY <1>1, <1>3, <1>4 DEF DatabasesInv

THEOREM DatabasesHold == Databases!Spec => []DatabasesInv
<1>1. Databases!Init => DatabasesInv
  <2> SUFFICES ASSUME Databases!Init PROVE DatabasesInv
    OBVIOUS
  <2>1. scratch \in Clusters /\ DOMAIN job = Modes /\ DOMAIN published = Modes
    BY DEF Databases!Init, Clusters, Cluster, Databases!Gone
  <2>2. \A m \in Modes : JobInv(m, job[m], scratch)
    BY IdleFits DEF Databases!Init
  <2>3. QED
    BY <2>1, <2>2 DEF DatabasesInv
<1>2. DatabasesInv /\ [Databases!Next]_(Databases!vars) => DatabasesInv'
  <2> SUFFICES ASSUME DatabasesInv, [Databases!Next]_(Databases!vars) PROVE DatabasesInv'
    OBVIOUS
  <2>1. CASE Databases!Tick
    BY <2>1, TickFits
  <2>2. ASSUME NEW n \in Databases!Names, Databases!Vanish(n) PROVE DatabasesInv'
    <3>1. scratch' = [scratch EXCEPT ![n] = Databases!Gone] /\ job' = job /\ published' = published
      BY <2>2 DEF Databases!Vanish
    <3>2. scratch' \in Clusters /\ \A q : NothingBack(q, scratch, scratch')
      BY <3>1, DeletionsOnlyDelete DEF DatabasesInv
    <3>3. \A m \in Modes : JobInv(m, job[m], scratch')
      BY <3>2, OthersOnlyDelete DEF DatabasesInv
    <3>4. QED
      BY <3>1, <3>2, <3>3 DEF DatabasesInv
  <2>3. ASSUME NEW m \in Modes, Databases!Step(m) PROVE DatabasesInv'
    <3>1. CASE Databases!Publish(m)
      <4>1. Databases!Ends(m) /\ DOMAIN published' = Modes
        BY <3>1 DEF Databases!Publish, DatabasesInv
      <4>2. QED
        BY <4>1, EndsFits
    <3>2. QED
      BY <2>3, <3>1, StartFits, PrepareFits, ApplyAfterFits, JudgeFits, DeleteClusterFits, GiveUpFits,
         AwaitGoneFits, ForceFits DEF Databases!Step
  <2>4. ASSUME NEW m \in Modes, Databases!Terminate(m) PROVE DatabasesInv'
    BY <2>4, TerminateFits
  <2>5. ASSUME NEW m \in Modes, Databases!Kill(m) PROVE DatabasesInv'
    <3>1. Databases!Ends(m) /\ DOMAIN published' = Modes
      BY <2>5 DEF Databases!Kill, DatabasesInv
    <3>2. QED
      BY <3>1, EndsFits
  <2>6. CASE UNCHANGED Databases!vars
    BY <2>6 DEF Databases!vars, DatabasesInv
  <2>7. QED
    BY <2>1, <2>2, <2>3, <2>4, <2>5, <2>6 DEF Databases!Next
<1>3. QED
  BY <1>1, <1>2, PTL DEF Databases!Spec

\* A restore test judges the Cluster it created itself, however the Jobs of the two
\* modes interleave, as long as every call of the run was answered.
THEOREM JudgesOwnCopy == Spec => []JudgesItsOwnCopy
<1>1. DatabasesInv => JudgesItsOwnCopy
  BY DEF DatabasesInv, JobInv, JudgesOwn, JudgesItsOwnCopy, Databases!JudgesItsOwnCopy
<1>2. QED
  BY <1>1, DatabasesAlone, DatabasesHold, PTL

\* The sweep never takes for a leftover what a Job is restoring into: the waits of a run,
\* the grace period included, add up to less than the age it asks for.
THEOREM SweepsTheDead == Spec => []LeftoversAreDead
<1>1. DatabasesInv => LeftoversAreDead
  <2> SUFFICES ASSUME DatabasesInv, NEW n \in Databases!Leftovers, Databases!Restoring(n), ~job[n[1]].blind
               PROVE  FALSE
    BY DEF LeftoversAreDead, Databases!LeftoversAreDead, DatabasesInv, JobInv, Job
  <2> DEFINE m == n[1]
             j == job[m]
  <2>1. n \in Databases!Names /\ There(scratch, n) /\ scratch[n].age > SweepAge /\ scratch[n].age \in Nat
    BY DEF Databases!Leftovers, Databases!Exists, There, DatabasesInv, Clusters, Cluster
  <2>2. m \in Modes /\ JobInv(m, j, scratch) /\ j \in Job /\ j.created /\ Aim(m, j) = n
    BY <2>1, NamesArePairs DEF DatabasesInv, JobInv, Databases!Restoring, Aim
  <2> HIDE DEF m, j
  <2>3. ~j.blind
    BY DEF m, j
  <2>4. j.timer \in Nat /\ j.told \in Nat /\ Stands(m, j) /\ Timed(j) /\ Young(m, j, scratch)
    BY <2>2 DEF JobInv, Job
  <2>5. \/ j.pc = "wait" /\ scratch[n].age <= j.timer /\ j.timer <= HealthyTimeout
        \/ scratch[n].age <= HealthyTimeout
        \/ scratch[n].age <= HealthyTimeout + j.timer /\ j.timer <= DeleteTimeout
        \/ scratch[n].age <= HealthyTimeout + j.told - 1 /\ j.told <= Grace + 1
        \/ scratch[n].age <= SweepAge
    BY <2>1, <2>2, <2>3, <2>4 DEF Stands, Timed, Young, Cleaning
  <2>6. QED
    BY <2>1, <2>4, <2>5, Times
<1>2. QED
  BY <1>1, DatabasesAlone, DatabasesHold, PTL

-----------------------------------------------------------------------------
(* The canary volume, and its restore test.                                *)

Image == [n : Nat, w : Nat, files : SUBSET (Nat \ {0}), disk : SUBSET Nat, bad : SUBSET Nat]

\* What every MANIFEST says, whatever the writer was stopped at: the generations up to the
\* counter, without a hole, the newest Keep among them, and at most the next one on disk besides.
Orderly(img) ==
  /\ img \in Image /\ IsFiniteSet(img.files)
  /\ \A f \in img.files : f <= img.n
  /\ \A g \in (img.n - Keep + 1)..img.n : g > 0 => g \in img.files
  /\ Canary!Contiguous(img.files)
  /\ img.disk \ img.files \subseteq {img.n + 1}

Kept(files) == files \ Canary!Oldest(files)

\* The writer between its steps: what it has in memory, and what a removal took.
WriterInv ==
  /\ writer.pc \in {"idle", "remove", "manifest"}
  /\ writer.pc # "idle" => writer.n = live.n + 1 /\ writer.n \in live.disk
  /\ writer.pc = "remove" => writer.files = live.files \cup {writer.n}
  /\ writer.pc = "manifest" =>
       writer.files = Kept(live.files \cup {writer.n}) /\ live.disk \subseteq writer.files
  /\ ~torn => (IF writer.pc = "manifest" THEN writer.files ELSE live.files) \subseteq live.disk

VolumeInv ==
  /\ hour \in Nat /\ torn \in BOOLEAN
  /\ Orderly(live) /\ live.bad = {} /\ live.w <= hour
  /\ writer \in [pc : {"idle", "remove", "manifest"}, n : Nat, files : SUBSET Nat]
  /\ WriterInv

Backup == [img : Image, created : Int, cut : BOOLEAN]
BackupInv ==
  /\ backup \in Backup
  /\ Orderly(backup.img) /\ backup.img.bad = {}
  /\ backup.img.n > 0 => backup.img.w <= backup.created
  /\ ~backup.cut => backup.img.files \subseteq backup.img.disk

RestoreJob ==
  [pc : {"idle", "clean", "apply", "verify", "cleanup", "publish"}, b : Backup,
   result : {"none", "pass", "fail", "skip"}, readable : BOOLEAN, lied : BOOLEAN, judged : Image]
\* A verdict is about the image it was read from, whoever left that behind.
VerdictFits(j) ==
  /\ j \in RestoreJob /\ Orderly(j.b.img) /\ Orderly(j.judged)
  /\ j.result = "pass" => j.pc \in {"cleanup", "publish"} /\ Canary!Verify(j.judged, j.b.created)
VolumeFits(v) == v \in [there : BOOLEAN, img : Image] /\ Orderly(v.img)
PodFits(p) ==
  /\ p \in [there : BOOLEAN, created : Int, ok : BOOLEAN, img : Image] /\ Orderly(p.img)
  /\ p.there /\ p.ok => Canary!Verify(p.img, p.created)
LeavesNothing(j, v, p) ==
  j.pc = "publish" /\ j.result = "pass" /\ ~j.lied => ~v.there /\ ~p.there

VerdictInv ==
  VerdictFits(testJob) /\ VolumeFits(volume) /\ PodFits(pod) /\ LeavesNothing(testJob, volume, pod)

CanaryInv == VolumeInv /\ BackupInv /\ VerdictInv

LEMMA CanaryAlone == Spec => Canary!Spec
<1>1. Init => Canary!Init
  BY DEF Init
<1>2. [Next]_<<part, databases, canary, archive>> => [Canary!Next]_(Canary!vars)
  BY DEF Next, canary, Canary!vars, Canary!canaryVars, Canary!restoreVars
<1>3. QED
  BY <1>1, <1>2, PTL DEF Spec, Canary!Spec

LEMMA Keeps == Keep \in Nat /\ Keep > 0 /\ MaxGap \in Nat
BY BackupsAssumption DEF Canary!CanaryAssumption

LEMMA SameCardinality == \A S : Canary!Cardinality(S) = Cardinality(S)
BY DEF Canary!Cardinality, Cardinality

\* What a write removes: never one of the newest Keep generations, never all but an older one.
LEMMA OldestAreOld ==
  ASSUME NEW F \in SUBSET Nat, IsFiniteSet(F), NEW top \in Nat, \A f \in F : f <= top
  PROVE  /\ \A g \in F : g > top - Keep => g \notin Canary!Oldest(F)
         /\ \A g \in F, h \in Canary!Oldest(F) : g < h => g \in Canary!Oldest(F)
         /\ Canary!Oldest(F) \subseteq F
<1> DEFINE After(g) == {j \in F : j > g}
<1>0. \A f \in F : f \in Nat /\ f <= top
  OBVIOUS
<1>1. ASSUME NEW g \in F PROVE IsFiniteSet(After(g)) /\ Cardinality(After(g)) \in Nat
  BY FS_Subset, FS_CardinalityType
<1>2. ASSUME NEW g \in F, g > top - Keep PROVE g \notin Canary!Oldest(F)
  <2>1. g \in Nat /\ g <= top
    BY ONLY <1>0, g \in F
  <2>2. After(g) \subseteq (g + 1)..top
    <3> SUFFICES ASSUME NEW x \in F, x > g PROVE x \in (g + 1)..top
      OBVIOUS
    <3>1. x \in Nat /\ x <= top
      BY <1>0
    <3>2. QED
      BY <2>1, <3>1
  <2> HIDE DEF After
  <2>3. IsFiniteSet((g + 1)..top) /\ Cardinality((g + 1)..top) <= top - g
    <3>1. IsFiniteSet((g + 1)..top) /\
          Cardinality((g + 1)..top) = IF g + 1 > top THEN 0 ELSE top - (g + 1) + 1
      BY <2>1, FS_Interval
    <3>2. QED
      BY <2>1, <3>1
  <2>4. Cardinality(After(g)) <= Cardinality((g + 1)..top)
    BY <2>2, <2>3, FS_Subset
  <2>5. Cardinality(After(g)) < Keep
    <3>1. Cardinality(After(g)) \in Nat /\ Cardinality((g + 1)..top) \in Nat
      BY <1>1, <2>3, FS_CardinalityType
    <3>2. QED
      BY <1>2, <2>1, <2>3, <2>4, <3>1, Keeps
  <2>6. Cardinality(After(g)) \in Nat
    BY <1>1
  <2>7. ~(Cardinality(After(g)) >= Keep)
    BY <2>5, <2>6, Keeps
  <2>8. QED
    BY <2>7, SameCardinality DEF Canary!Oldest, After
<1>3. ASSUME NEW g \in F, NEW h \in Canary!Oldest(F), g < h PROVE g \in Canary!Oldest(F)
  <2>1. h \in F /\ Cardinality(After(h)) >= Keep
    BY SameCardinality DEF Canary!Oldest
  <2>2. After(h) \subseteq After(g)
    <3> SUFFICES ASSUME NEW x \in F, x > h PROVE x > g
      OBVIOUS
    <3>1. x \in Nat /\ h \in Nat /\ g \in Nat
      BY <1>0, <2>1
    <3>2. QED
      BY <1>3, <3>1
  <2> HIDE DEF After
  <2>3. Cardinality(After(h)) <= Cardinality(After(g))
    BY <1>1, <2>2, FS_Subset
  <2>4. Cardinality(After(h)) \in Nat /\ Cardinality(After(g)) \in Nat
    BY <1>1, <2>1
  <2>5. Cardinality(After(g)) >= Keep
    BY <2>1, <2>3, <2>4, Keeps
  <2>6. QED
    BY <2>5, SameCardinality DEF Canary!Oldest, After
<1>4. QED
  BY <1>2, <1>3 DEF Canary!Oldest

\* The next MANIFEST is in order.
LEMMA NextIsOrderly ==
  ASSUME NEW img, Orderly(img), NEW n, n = img.n + 1
  PROVE  LET F == img.files \cup {n}
         IN /\ IsFiniteSet(Kept(F)) /\ Kept(F) \in SUBSET (Nat \ {0})
            /\ n \in Kept(F) /\ \A f \in Kept(F) : f <= n
            /\ \A g \in (n - Keep + 1)..n : g > 0 => g \in Kept(F)
            /\ Canary!Contiguous(Kept(F))
<1> DEFINE F == img.files \cup {n}
<1>1. img.n \in Nat /\ n \in Nat \ {0} /\ img.files \in SUBSET (Nat \ {0}) /\ IsFiniteSet(img.files)
      /\ \A f \in img.files : f <= img.n
  BY DEF Orderly, Image
<1>2. F \in SUBSET (Nat \ {0}) /\ F \in SUBSET Nat /\ IsFiniteSet(F) /\ \A f \in F : f <= n
  <2>1. IsFiniteSet(F)
    BY <1>1, FS_AddElement
  <2>2. QED
    BY <1>1, <2>1
<1>3. /\ \A g \in F : g > n - Keep => g \notin Canary!Oldest(F)
      /\ \A g \in F, h \in Canary!Oldest(F) : g < h => g \in Canary!Oldest(F)
      /\ Canary!Oldest(F) \subseteq F
  <2> HIDE DEF F
  <2>1. QED
    BY <1>1, <1>2, OldestAreOld
<1>4. n \in F /\ \A g \in (n - Keep + 1)..n : g > 0 => g \in F
  BY <1>1, Keeps DEF Orderly
<1>5. Canary!Contiguous(F)
  <2> SUFFICES ASSUME NEW x \in F, NEW y \in F, NEW z \in x..y PROVE z \in F
    BY DEF Canary!Contiguous
  <2>1. CASE z = n
    BY <2>1
  <2>2. CASE z # n
    <3>1. x \in img.files /\ z \in Nat /\ z <= img.n /\ z > 0
      BY <1>1, <1>2, <2>2
    <3>2. CASE y \in img.files
      BY <3>1, <3>2 DEF Orderly, Canary!Contiguous
    <3>3. CASE y = n
      <4>1. img.n \in img.files
        BY <1>1, <3>1, Keeps DEF Orderly
      <4>2. z \in x..img.n
        BY <1>1, <1>2, <3>1
      <4>3. QED
        BY <3>1, <4>1, <4>2 DEF Orderly, Canary!Contiguous
    <3>4. QED
      BY <3>2, <3>3
  <2>3. QED
    BY <2>1, <2>2
<1> HIDE DEF F
<1>6. Kept(F) \subseteq F /\ IsFiniteSet(Kept(F))
  BY <1>2, FS_Subset DEF Kept
<1>7. n \in Kept(F) /\ \A g \in (n - Keep + 1)..n : g > 0 => g \in Kept(F)
  BY <1>1, <1>3, <1>4, Keeps DEF Kept
<1>8. Canary!Contiguous(Kept(F))
  <2> SUFFICES ASSUME NEW x \in Kept(F), NEW y \in Kept(F), NEW z \in x..y PROVE z \in Kept(F)
    BY DEF Canary!Contiguous
  <2>1. z \in F /\ x \in F /\ x \notin Canary!Oldest(F)
    BY <1>5, <1>6 DEF Canary!Contiguous, Kept
  <2>2. z \in Canary!Oldest(F) => x = z \/ x \in Canary!Oldest(F)
    BY <1>2, <1>3, <2>1
  <2>3. QED
    BY <2>1, <2>2 DEF Kept
<1>9. QED
  BY <1>2, <1>6, <1>7, <1>8 DEF F

LEMMA DiskFits ==
  ASSUME NEW img, Orderly(img), NEW D \in SUBSET Nat, D \ img.files \subseteq {img.n + 1}
  PROVE  LET t == [img EXCEPT !.disk = D]
         IN Orderly(t) /\ t.n = img.n /\ t.w = img.w /\ t.files = img.files /\ t.bad = img.bad /\ t.disk = D
<1> DEFINE t == [img EXCEPT !.disk = D]
<1>1. t \in Image /\ t.n = img.n /\ t.w = img.w /\ t.files = img.files /\ t.bad = img.bad /\ t.disk = D
  BY DEF Orderly, Image
<1> HIDE DEF t
<1>2. Orderly(t)
  BY <1>1 DEF Orderly
<1>3. QED
  BY <1>1, <1>2 DEF t

LEMMA WriteGenerationFits == ASSUME VolumeInv, Canary!WriteGeneration PROVE VolumeInv'
<1> DEFINE n == live.n + 1
           D == live.disk \cup {n}
<1>1. /\ writer' = [pc |-> "remove", n |-> n, files |-> live.files \cup {n}]
      /\ live' = [live EXCEPT !.disk = D] /\ UNCHANGED <<hour, torn>> /\ writer.pc = "idle"
  BY DEF Canary!WriteGeneration
<1>2. Orderly(live) /\ live \in Image /\ live.n \in Nat /\ n \in Nat /\ live.files \in SUBSET Nat
      /\ D \in SUBSET Nat /\ D \ live.files \subseteq {live.n + 1}
  BY DEF VolumeInv, Orderly, Image
<1>3. /\ Orderly(live') /\ live'.n = live.n /\ live'.w = live.w /\ live'.files = live.files /\ live'.bad = live.bad
      /\ live'.disk = D
  BY <1>1, <1>2, DiskFits
<1>4. /\ writer'.pc = "remove" /\ writer'.n = n /\ writer'.files = live.files \cup {n}
      /\ writer' \in [pc : {"idle", "remove", "manifest"}, n : Nat, files : SUBSET Nat]
  BY <1>1, <1>2
<1>5. WriterInv'
  BY <1>1, <1>3, <1>4 DEF VolumeInv, WriterInv
<1>6. QED
  BY <1>1, <1>3, <1>4, <1>5 DEF VolumeInv

LEMMA RemoveOldestFits == ASSUME VolumeInv, Canary!RemoveOldest PROVE VolumeInv'
<1> DEFINE O == Canary!Oldest(writer.files)
           D == live.disk \ O
<1>1. writer.pc = "remove" /\ UNCHANGED <<hour, torn>>
  BY DEF Canary!RemoveOldest
<1>2. /\ Orderly(live) /\ writer.n = live.n + 1 /\ writer.n \in live.disk /\ writer.files = live.files \cup {writer.n}
      /\ writer \in [pc : {"idle", "remove", "manifest"}, n : Nat, files : SUBSET Nat]
      /\ live.disk \in SUBSET Nat /\ live.disk \ live.files \subseteq {writer.n}
  BY <1>1 DEF VolumeInv, WriterInv, Orderly, Image
<1>3. CASE O \subseteq live.disk
  <2>1. live' = [live EXCEPT !.disk = D] /\ writer' = [writer EXCEPT !.pc = "manifest", !.files = @ \ O]
    BY <1>3 DEF Canary!RemoveOldest
  <2>2. D \in SUBSET Nat /\ D \ live.files \subseteq {live.n + 1}
    BY <1>2
  <2>3. /\ Orderly(live') /\ live'.n = live.n /\ live'.w = live.w /\ live'.files = live.files /\ live'.bad = live.bad
        /\ live'.disk = D
    BY <1>2, <2>1, <2>2, DiskFits
  <2>4. /\ writer'.pc = "manifest" /\ writer'.n = writer.n /\ writer'.files = Kept(writer.files)
        /\ writer' \in [pc : {"idle", "remove", "manifest"}, n : Nat, files : SUBSET Nat]
    BY <1>2, <2>1 DEF Kept
  <2>5. writer.n \in Kept(writer.files)
    BY <1>2, NextIsOrderly
  <2>6. D \subseteq Kept(writer.files) /\ writer.n \in D
    BY <1>2, <2>5 DEF Kept
  <2>7. ~torn => Kept(writer.files) \subseteq D
    BY <1>1, <1>2 DEF VolumeInv, WriterInv, Kept
  <2>8. WriterInv'
    BY <1>1, <1>2, <2>3, <2>4, <2>6, <2>7 DEF WriterInv
  <2>9. QED
    BY <1>1, <2>3, <2>4, <2>8 DEF VolumeInv
<1>4. CASE ~(O \subseteq live.disk)
  <2>1. live' = live /\ writer' = Canary!NoWriter
    BY <1>4 DEF Canary!RemoveOldest
  <2>2. writer'.pc = "idle" /\ writer' \in [pc : {"idle", "remove", "manifest"}, n : Nat, files : SUBSET Nat]
    BY <2>1 DEF Canary!NoWriter
  <2>3. WriterInv'
    BY <1>1, <2>1, <2>2 DEF VolumeInv, WriterInv
  <2>4. QED
    BY <1>1, <2>1, <2>2, <2>3 DEF VolumeInv
<1>5. QED
  BY <1>3, <1>4

LEMMA WriteManifestFits == ASSUME VolumeInv, Canary!WriteManifest PROVE VolumeInv'
<1>1. /\ live' = [live EXCEPT !.n = writer.n, !.w = hour, !.files = writer.files]
      /\ writer' = Canary!NoWriter /\ UNCHANGED <<hour, torn>> /\ writer.pc = "manifest"
  BY DEF Canary!WriteManifest
<1>2. /\ Orderly(live) /\ live \in Image /\ writer.n = live.n + 1 /\ hour \in Nat
      /\ writer.files = Kept(live.files \cup {writer.n}) /\ live.disk \subseteq writer.files
  BY <1>1 DEF VolumeInv, WriterInv, Orderly
<1>3. /\ IsFiniteSet(writer.files) /\ writer.files \in SUBSET (Nat \ {0})
      /\ \A f \in writer.files : f <= writer.n
      /\ \A g \in (writer.n - Keep + 1)..writer.n : g > 0 => g \in writer.files
      /\ Canary!Contiguous(writer.files)
  BY <1>2, NextIsOrderly
<1>4. /\ live' \in Image /\ live'.n = writer.n /\ live'.w = hour /\ live'.files = writer.files
      /\ live'.disk = live.disk /\ live'.bad = live.bad
  <2>1. writer.n \in Nat
    BY <1>2 DEF Image
  <2>2. QED
    BY <1>1, <1>2, <1>3, <2>1 DEF Image
<1>5. Orderly(live')
  BY <1>2, <1>3, <1>4 DEF Orderly
<1>6. writer'.pc = "idle" /\ writer' \in [pc : {"idle", "remove", "manifest"}, n : Nat, files : SUBSET Nat]
  BY <1>1 DEF Canary!NoWriter
<1>7. WriterInv'
  BY <1>1, <1>4, <1>6 DEF VolumeInv, WriterInv
<1>8. QED
  BY <1>1, <1>2, <1>4, <1>5, <1>6, <1>7 DEF VolumeInv

LEMMA KillWriterFits == ASSUME VolumeInv, Canary!KillWriter PROVE VolumeInv'
<1>1. /\ writer' = Canary!NoWriter /\ UNCHANGED <<hour, live>> /\ torn' = (torn \/ Canary!Removed)
  BY DEF Canary!KillWriter
<1>2. writer'.pc = "idle" /\ writer' \in [pc : {"idle", "remove", "manifest"}, n : Nat, files : SUBSET Nat]
  BY <1>1 DEF Canary!NoWriter
<1>3. Canary!Removed \in BOOLEAN /\ torn' \in BOOLEAN
  BY <1>1 DEF Canary!Removed, VolumeInv
<1>4. ~torn' => ~torn /\ (writer.pc = "manifest" => live.files \subseteq live.disk)
  BY <1>1, <1>3 DEF Canary!Removed, VolumeInv
<1>5. WriterInv'
  BY <1>1, <1>2, <1>4 DEF VolumeInv, WriterInv
<1>6. QED
  BY <1>1, <1>2, <1>3, <1>5 DEF VolumeInv

LEMMA VolumeHolds == ASSUME VolumeInv, [Canary!CanaryNext]_(Canary!canaryVars) PROVE VolumeInv'
<1>1. CASE Canary!TakeBackup
  BY <1>1 DEF Canary!TakeBackup, VolumeInv, WriterInv, Orderly
<1>2. CASE Canary!HourPasses
  BY <1>2 DEF Canary!HourPasses, VolumeInv, WriterInv, Orderly, Image
<1>3. CASE UNCHANGED Canary!canaryVars
  BY <1>3 DEF Canary!canaryVars, VolumeInv, WriterInv, Orderly
<1>4. QED
  BY <1>1, <1>2, <1>3, WriteGenerationFits, RemoveOldestFits, WriteManifestFits, KillWriterFits
  DEF Canary!CanaryNext

LEMMA BackupHolds == ASSUME VolumeInv, BackupInv, [Canary!CanaryNext]_(Canary!canaryVars) PROVE BackupInv'
<1>1. CASE Canary!TakeBackup
  <2> DEFINE cut == torn \/ Canary!Removed
  <2>1. backup' = [img |-> live, created |-> hour, cut |-> cut] /\ cut \in BOOLEAN
    BY <1>1 DEF Canary!TakeBackup, Canary!Removed, VolumeInv
  <2>2. Orderly(live) /\ live \in Image /\ live.bad = {} /\ hour \in Nat /\ live.w <= hour
    BY DEF VolumeInv, Orderly
  <2>3. ~cut => live.files \subseteq live.disk
    BY DEF VolumeInv, WriterInv, Canary!Removed
  <2> HIDE DEF cut
  <2>4. /\ backup' \in Backup
        /\ backup'.img = live /\ backup'.created = hour /\ backup'.cut = cut
    BY <2>1, <2>2 DEF Backup
  <2>5. QED
    BY <2>2, <2>3, <2>4 DEF BackupInv
<1>2. CASE UNCHANGED backup
  BY <1>2 DEF BackupInv, Orderly
<1>3. QED
  BY <1>1, <1>2 DEF Canary!CanaryNext, Canary!canaryVars, Canary!WriteGeneration, Canary!RemoveOldest,
    Canary!WriteManifest, Canary!KillWriter, Canary!HourPasses

LEMMA EmptyIsOrderly ==
  /\ Orderly(Canary!Empty) /\ Canary!Empty.n = 0 /\ Canary!Empty.files = {} /\ Canary!Empty.bad = {}
  /\ Canary!Empty.disk = {} /\ Canary!Empty.w = 0
  /\ VerdictFits(Canary!Idle) /\ VolumeFits(Canary!NoVolume) /\ PodFits(Canary!NoPod)
<1> DEFINE e == Canary!Empty
<1>1. /\ e \in Image /\ e.n = 0 /\ e.files = {} /\ e.disk = {} /\ e.bad = {} /\ e.w = 0
  BY DEF Canary!Empty, Image
<1>2. IsFiniteSet({})
  BY FS_EmptySet
<1>3. \A g \in (0 - Keep + 1)..0 : ~(g > 0)
  BY Keeps
<1> HIDE DEF e
<1>4. Orderly(e)
  BY <1>1, <1>2, <1>3 DEF Orderly, Canary!Contiguous
<1>5. Canary!Idle \in RestoreJob /\ Canary!Idle.b.img = e /\ Canary!Idle.judged = e /\ Canary!Idle.result = "none"
  BY <1>1 DEF Canary!Idle, Canary!NoBackup, RestoreJob, Backup, e
<1>6. VolumeFits(Canary!NoVolume) /\ PodFits(Canary!NoPod)
  BY <1>1, <1>4 DEF VolumeFits, PodFits, Canary!NoVolume, Canary!NoPod, e
<1>7. QED
  BY <1>1, <1>4, <1>5, <1>6 DEF VerdictFits, e

\* Whatever has no pass to report fits.
LEMMA NoPassFits ==
  ASSUME VerdictInv, testJob' \in RestoreJob, testJob'.result # "pass",
         Orderly(testJob'.b.img), Orderly(testJob'.judged), VolumeFits(volume'), PodFits(pod')
  PROVE  VerdictInv'
BY DEF VerdictInv, VerdictFits, LeavesNothing, VolumeFits, PodFits, Orderly

LEMMA RestoreStartFits == ASSUME BackupInv, VerdictInv, Canary!Start PROVE VerdictInv'
<1>1. PICK unread \in BOOLEAN, unfound \in BOOLEAN :
        LET j == [Canary!Idle EXCEPT !.readable = ~unread, !.b = backup]
        IN testJob' = IF unfound \/ backup = Canary!NoBackup
                      THEN [j EXCEPT !.pc = "publish", !.result = "skip"]
                      ELSE IF hour - backup.created > BackupMaxAge
                      THEN [j EXCEPT !.pc = "publish", !.result = "fail"]
                      ELSE [j EXCEPT !.pc = "clean"]
  BY DEF Canary!Start, Canary!Failing
<1> DEFINE j == [Canary!Idle EXCEPT !.readable = ~unread, !.b = backup]
<1>2. backup \in Backup /\ Orderly(backup.img) /\ Canary!Idle \in RestoreJob /\ Orderly(Canary!Idle.judged)
      /\ Canary!Idle.result = "none"
  BY EmptyIsOrderly DEF BackupInv, VerdictFits, Canary!Idle
<1>3. j \in RestoreJob /\ j.b = backup /\ j.judged = Canary!Idle.judged /\ j.result = "none"
  BY <1>2 DEF RestoreJob
<1> HIDE DEF j
<1>4. \A p \in {"publish", "clean"}, r \in {"skip", "fail", "none"} :
        LET k == [j EXCEPT !.pc = p, !.result = r]
        IN k \in RestoreJob /\ k.b = backup /\ k.judged = j.judged /\ k.result = r
  BY <1>3 DEF RestoreJob
<1>5. [j EXCEPT !.pc = "clean"] \in RestoreJob /\ [j EXCEPT !.pc = "clean"].b = backup
      /\ [j EXCEPT !.pc = "clean"].judged = j.judged /\ [j EXCEPT !.pc = "clean"].result = "none"
  BY <1>3 DEF RestoreJob
<1>6. testJob' \in RestoreJob /\ testJob'.b = backup /\ testJob'.judged = j.judged /\ testJob'.result # "pass"
  <2>1. \/ testJob' = [j EXCEPT !.pc = "publish", !.result = "skip"]
        \/ testJob' = [j EXCEPT !.pc = "publish", !.result = "fail"]
        \/ testJob' = [j EXCEPT !.pc = "clean"]
    BY <1>1 DEF j
  <2>2. QED
    BY <1>4, <1>5, <2>1
<1>7. UNCHANGED <<volume, pod>>
  BY DEF Canary!Start
<1>8. VolumeFits(volume') /\ PodFits(pod') /\ Orderly(testJob'.b.img) /\ Orderly(testJob'.judged)
  BY <1>2, <1>3, <1>6, <1>7 DEF VerdictInv
<1>9. QED
  BY <1>6, <1>8, NoPassFits

LEMMA CleanupFits ==
  ASSUME VerdictInv, NEW after, Canary!Cleanup(after)
  PROVE  \E believed, lies \in BOOLEAN :
           /\ testJob' = [after[believed] EXCEPT !.lied = @ \/ lies]
           /\ VolumeFits(volume') /\ PodFits(pod')
           /\ believed /\ ~lies => ~volume'.there /\ ~pod'.there
<1>1. PICK podStays \in BOOLEAN, volumeStays \in BOOLEAN, lies \in BOOLEAN :
        /\ pod' = IF podStays THEN pod ELSE Canary!NoPod
        /\ volume' = IF volumeStays THEN volume ELSE Canary!NoVolume
        /\ testJob' = [after[(~pod'.there /\ ~volume'.there) \/ lies] EXCEPT !.lied = @ \/ lies]
  BY DEF Canary!Cleanup, Canary!Failing
<1>2. VolumeFits(volume') /\ PodFits(pod')
  BY <1>1, EmptyIsOrderly DEF VerdictInv
<1> DEFINE believed == (~pod'.there /\ ~volume'.there) \/ lies
<1>3. believed \in BOOLEAN
  OBVIOUS
<1>4. QED
  BY <1>1, <1>2, <1>3

LEMMA CleanBeforeFits == ASSUME VerdictInv, Canary!CleanBefore PROVE VerdictInv'
<1> DEFINE k == [testJob EXCEPT !.pc = "apply"]
<1>1. testJob.pc = "clean" /\ Canary!Cleanup([removed \in BOOLEAN |-> k])
  BY DEF Canary!CleanBefore
<1>2. PICK believed \in BOOLEAN, lies \in BOOLEAN :
        /\ testJob' = [[removed \in BOOLEAN |-> k][believed] EXCEPT !.lied = @ \/ lies]
        /\ VolumeFits(volume') /\ PodFits(pod')
  BY <1>1, CleanupFits
<1>3. testJob' = [k EXCEPT !.lied = @ \/ lies]
  BY <1>2
<1>4. testJob \in RestoreJob /\ testJob.result # "pass" /\ Orderly(testJob.b.img) /\ Orderly(testJob.judged)
  BY <1>1 DEF VerdictInv, VerdictFits
<1>5. testJob' \in RestoreJob /\ testJob'.b = testJob.b /\ testJob'.judged = testJob.judged
      /\ testJob'.result = testJob.result
  BY <1>3, <1>4 DEF RestoreJob
<1>6. QED
  BY <1>2, <1>4, <1>5, NoPassFits

LEMMA CleanAfterFits == ASSUME VerdictInv, Canary!CleanAfter PROVE VerdictInv'
<1> DEFINE k(removed) == [testJob EXCEPT !.pc = "publish", !.result = IF removed THEN @ ELSE "fail"]
<1>1. testJob.pc = "cleanup" /\ Canary!Cleanup([removed \in BOOLEAN |-> k(removed)])
  BY DEF Canary!CleanAfter
<1>2. PICK believed \in BOOLEAN, lies \in BOOLEAN :
        /\ testJob' = [[removed \in BOOLEAN |-> k(removed)][believed] EXCEPT !.lied = @ \/ lies]
        /\ VolumeFits(volume') /\ PodFits(pod')
        /\ believed /\ ~lies => ~volume'.there /\ ~pod'.there
  BY <1>1, CleanupFits
<1>3. testJob' = [k(believed) EXCEPT !.lied = @ \/ lies]
  BY <1>2
<1>4. VerdictFits(testJob) /\ testJob \in RestoreJob
  BY DEF VerdictInv, VerdictFits
<1>5. /\ testJob' \in RestoreJob /\ testJob'.b = testJob.b /\ testJob'.judged = testJob.judged
      /\ testJob'.result = (IF believed THEN testJob.result ELSE "fail") /\ testJob'.pc = "publish"
      /\ testJob'.lied = (testJob.lied \/ lies)
  BY <1>3, <1>4 DEF RestoreJob
<1>6. VerdictFits(testJob')
  BY <1>4, <1>5 DEF VerdictFits
<1>7. LeavesNothing(testJob', volume', pod')
  BY <1>2, <1>5 DEF LeavesNothing
<1>8. QED
  BY <1>2, <1>6, <1>7 DEF VerdictInv, VerdictFits, VolumeFits, PodFits, LeavesNothing, Orderly

LEMMA RestoreFits == ASSUME VerdictInv, Canary!Restore PROVE VerdictInv'
<1>1. pod' = pod /\ testJob.pc = "apply" /\ testJob \in RestoreJob /\ Orderly(testJob.b.img) /\ VolumeFits(volume)
      /\ PodFits(pod) /\ Orderly(testJob.judged) /\ testJob.result # "pass"
  BY DEF Canary!Restore, VerdictInv, VerdictFits
<1>2. \/ testJob' = [testJob EXCEPT !.pc = "verify"]
      \/ testJob' = [testJob EXCEPT !.pc = "cleanup", !.result = "fail"]
  BY DEF Canary!Restore
<1>3. testJob' \in RestoreJob /\ testJob'.b = testJob.b /\ testJob'.judged = testJob.judged
      /\ testJob'.result \in {testJob.result, "fail"}
  BY <1>1, <1>2 DEF RestoreJob
<1>4. ASSUME NEW v \in Canary!Restored PROVE VolumeFits(v)
  <2>1. PICK bad \in {{}} \cup {{g} : g \in testJob.b.img.disk} :
          v = [there |-> TRUE, img |-> [testJob.b.img EXCEPT !.bad = bad]]
    BY <1>4 DEF Canary!Restored
  <2> DEFINE i == testJob.b.img
             t == [i EXCEPT !.bad = bad]
  <2>2. i \in Image /\ Orderly(i) /\ bad \in SUBSET Nat
    BY <1>1, <2>1 DEF Orderly, Image
  <2>3. t \in Image /\ t.n = i.n /\ t.w = i.w /\ t.files = i.files /\ t.disk = i.disk
    BY <2>2 DEF Image
  <2> HIDE DEF t
  <2>4. Orderly(t)
    BY <2>2, <2>3 DEF Orderly
  <2>5. QED
    BY <2>1, <2>3, <2>4 DEF VolumeFits, t
<1>5. volume' = volume \/ volume' \in Canary!Restored
  BY DEF Canary!Restore
<1>6. QED
  BY <1>1, <1>3, <1>4, <1>5, NoPassFits

LEMMA RunVerifyFits == ASSUME VerdictInv, Canary!RunVerify PROVE VerdictInv'
<1>1. volume' = volume /\ testJob.pc = "verify" /\ VerdictFits(testJob) /\ testJob \in RestoreJob /\ VolumeFits(volume)
      /\ PodFits(pod) /\ testJob.b.created \in Int
  BY DEF Canary!RunVerify, VerdictInv, VerdictFits, RestoreJob, Backup
<1> DEFINE ran == [there |-> TRUE, created |-> testJob.b.created, img |-> volume.img,
                   ok |-> Canary!Verify(volume.img, testJob.b.created)]
<1>2. \/ testJob' = [testJob EXCEPT !.pc = "cleanup", !.result = "fail"] /\ pod' = pod
      \/ /\ pod.there => pod.created = testJob.b.created
         /\ pod' = IF pod.there THEN pod ELSE ran
         /\ testJob' = [testJob EXCEPT !.pc = "cleanup", !.judged = pod'.img,
                                       !.result = IF pod'.ok THEN "pass" ELSE "fail"]
  BY DEF Canary!RunVerify
<1>3. CASE testJob' = [testJob EXCEPT !.pc = "cleanup", !.result = "fail"] /\ pod' = pod
  <2>1. testJob' \in RestoreJob /\ testJob'.b = testJob.b /\ testJob'.judged = testJob.judged
        /\ testJob'.result = "fail"
    BY <1>1, <1>3 DEF RestoreJob
  <2>2. QED
    BY <1>1, <1>3, <2>1, NoPassFits DEF VerdictFits
<1>4. CASE /\ pod.there => pod.created = testJob.b.created
           /\ pod' = IF pod.there THEN pod ELSE ran
           /\ testJob' = [testJob EXCEPT !.pc = "cleanup", !.judged = pod'.img,
                                         !.result = IF pod'.ok THEN "pass" ELSE "fail"]
  <2>1. Canary!Verify(volume.img, testJob.b.created) \in BOOLEAN
    BY DEF Canary!Verify
  <2>2. PodFits(ran) /\ ran.there /\ ran.created = testJob.b.created
    <3>1. ran \in [there : BOOLEAN, created : Int, ok : BOOLEAN, img : Image] /\ ran.img = volume.img
          /\ ran.created = testJob.b.created /\ ran.there /\ (ran.ok <=> Canary!Verify(volume.img, testJob.b.created))
      BY <1>1, <2>1 DEF VolumeFits
    <3> HIDE DEF ran
    <3>2. QED
      BY <1>1, <3>1 DEF PodFits, VolumeFits
  <2> HIDE DEF ran
  <2>3. PodFits(pod') /\ pod'.there /\ pod'.created = testJob.b.created
    BY <1>1, <1>4, <2>2
  <2>4. pod'.img \in Image /\ Orderly(pod'.img) /\ pod'.ok \in BOOLEAN
    BY <2>3 DEF PodFits
  <2>5. /\ testJob' \in RestoreJob /\ testJob'.b = testJob.b /\ testJob'.judged = pod'.img
        /\ testJob'.result = (IF pod'.ok THEN "pass" ELSE "fail") /\ testJob'.pc = "cleanup"
    BY <1>1, <1>4, <2>4 DEF RestoreJob
  <2>6. testJob'.result = "pass" => Canary!Verify(testJob'.judged, testJob'.b.created)
    BY <2>3, <2>5 DEF PodFits
  <2>7. VerdictFits(testJob')
    BY <1>1, <2>4, <2>5, <2>6 DEF VerdictFits
  <2>8. LeavesNothing(testJob', volume', pod')
    BY <2>5 DEF LeavesNothing
  <2>9. VolumeFits(volume')
    BY <1>1
  <2>10. QED
    BY <2>3, <2>7, <2>8, <2>9 DEF VerdictInv, VerdictFits, VolumeFits, PodFits, LeavesNothing, Orderly, Canary!Verify
<1>5. QED
  BY <1>2, <1>3, <1>4

LEMMA VerdictHolds == ASSUME BackupInv, VerdictInv, Canary!RestoreNext PROVE VerdictInv'
<1>1. testJob \in RestoreJob /\ Orderly(testJob.b.img) /\ Orderly(testJob.judged) /\ VolumeFits(volume) /\ PodFits(pod)
  BY DEF VerdictInv, VerdictFits
<1>2. CASE Canary!Terminate
  <2>1. /\ UNCHANGED <<volume, pod>>
        /\ testJob' = [testJob EXCEPT !.pc = IF @ = "cleanup" THEN "publish" ELSE "cleanup", !.result = "fail"]
    BY <1>2 DEF Canary!Terminate
  <2>2. testJob' \in RestoreJob /\ testJob'.b = testJob.b /\ testJob'.judged = testJob.judged
        /\ testJob'.result = "fail"
    BY <1>1, <2>1 DEF RestoreJob
  <2>3. QED
    BY <1>1, <2>1, <2>2, NoPassFits
<1>3. CASE Canary!Kill \/ Canary!Publish
  <2>1. UNCHANGED <<volume, pod>> /\ testJob' = Canary!Idle
    BY <1>3 DEF Canary!Kill, Canary!Publish
  <2>2. VerdictFits(testJob') /\ testJob'.result # "pass"
    BY <2>1, EmptyIsOrderly DEF Canary!Idle
  <2>3. QED
    BY <1>1, <2>1, <2>2, NoPassFits DEF VerdictFits
<1>4. QED
  BY <1>2, <1>3, RestoreStartFits, CleanBeforeFits, CleanAfterFits, RestoreFits, RunVerifyFits
  DEF Canary!RestoreNext

THEOREM CanaryHolds == Canary!Spec => []CanaryInv
<1>1. Canary!Init => CanaryInv
  <2> SUFFICES ASSUME Canary!Init PROVE CanaryInv
    OBVIOUS
  <2>1. /\ hour = 0 /\ live = Canary!Empty /\ writer = Canary!NoWriter /\ torn = FALSE /\ backup = Canary!NoBackup
        /\ volume = Canary!NoVolume /\ pod = Canary!NoPod /\ testJob = Canary!Idle
    BY DEF Canary!Init, Canary!CanaryInit
  <2>2. /\ writer.pc = "idle" /\ writer \in [pc : {"idle", "remove", "manifest"}, n : Nat, files : SUBSET Nat]
        /\ Canary!Empty \in Image
    BY <2>1, EmptyIsOrderly DEF Canary!NoWriter, Orderly
  <2>3. VolumeInv
    <3>1. WriterInv
      BY <2>1, <2>2, EmptyIsOrderly DEF WriterInv
    <3>2. Orderly(live) /\ live.bad = {} /\ live.w = 0 /\ hour = 0 /\ torn = FALSE
      BY <2>1, EmptyIsOrderly
    <3>3. hour \in Nat
      BY <3>2
    <3>4. torn \in BOOLEAN
      BY ONLY <3>2
    <3>5. live.w <= hour
      BY <3>2
    <3>6. QED
      BY <2>2, <3>1, <3>2, <3>3, <3>4, <3>5 DEF VolumeInv
  <2>4. BackupInv
    BY <2>1, <2>2, EmptyIsOrderly DEF BackupInv, Backup, Canary!NoBackup
  <2>5. VerdictInv
    BY <2>1, EmptyIsOrderly DEF VerdictInv, LeavesNothing, Canary!Idle
  <2>6. QED
    BY <2>3, <2>4, <2>5 DEF CanaryInv
<1>2. CanaryInv /\ [Canary!Next]_(Canary!vars) => CanaryInv'
  <2> SUFFICES ASSUME CanaryInv, [Canary!Next]_(Canary!vars) PROVE CanaryInv'
    OBVIOUS
  <2>1. VolumeInv /\ BackupInv /\ VerdictInv
    BY DEF CanaryInv
  <2>2. [Canary!CanaryNext]_(Canary!canaryVars)
    BY DEF Canary!Next, Canary!RestoreNext, Canary!vars, Canary!Start, Canary!CleanBefore, Canary!Restore,
       Canary!RunVerify, Canary!CleanAfter, Canary!Terminate, Canary!Kill, Canary!Publish
  <2>3. VolumeInv' /\ BackupInv'
    BY <2>1, <2>2, VolumeHolds, BackupHolds
  <2>4. VerdictInv'
    <3>1. CASE Canary!RestoreNext
      BY <2>1, <3>1, VerdictHolds
    <3>2. CASE UNCHANGED Canary!restoreVars
      BY <2>1, <3>2 DEF Canary!restoreVars, VerdictInv, VerdictFits, VolumeFits, PodFits, LeavesNothing, Orderly,
         Canary!Verify
    <3>3. QED
      BY <3>1, <3>2 DEF Canary!Next, Canary!vars
  <2>5. QED
    BY <2>3, <2>4 DEF CanaryInv
<1>3. QED
  BY <1>1, <1>2, PTL DEF Canary!Spec

\* An image in order whose files are there and whole is accepted.
LEMMA OrderlyVerifies ==
  ASSUME NEW img, Orderly(img), img.bad = {}, img.n > 0, img.files \subseteq img.disk,
         NEW created \in Int, img.w <= created, created - img.w <= MaxGap
  PROVE  Canary!Verify(img, created)
<1>1. img.n \in Nat /\ img.files \subseteq Nat /\ img.n \in img.files /\ \A f \in img.files : f <= img.n
  BY Keeps DEF Orderly, Image
<1>2. Canary!Greatest(img.files) = img.n
  <2> DEFINE greatest(x) == x \in img.files /\ \A y \in img.files : y <= x
  <2>1. greatest(img.n) /\ \A x : greatest(x) => x = img.n
    BY <1>1
  <2>2. QED
    BY <2>1 DEF Canary!Greatest
<1>3. QED
  BY <1>1, <1>2 DEF Canary!Verify, Orderly

\* An accepted image in order holds the newest Keep generations, whole.
LEMMA VerifiedIsWhole ==
  ASSUME NEW img, Orderly(img), NEW created, Canary!Verify(img, created)
  PROVE  /\ \A g \in (img.n - Keep + 1)..img.n : g > 0 => g \in img.disk \ img.bad
         /\ img.n > 0 /\ created - img.w <= MaxGap
<1>1. PICK f \in img.files : f \in Nat \ {0} /\ f <= img.n
  BY DEF Canary!Verify, Orderly, Image
<1>2. img.n > 0
  BY <1>1 DEF Orderly, Image
<1>3. QED
  BY <1>2 DEF Orderly, Canary!Verify

\* The next write finds every file it has to remove, unless a writer once died between
\* os.remove and the new MANIFEST.
THEOREM WritesGoOn == Spec => []NextWriteSucceeds
<1>1. CanaryInv => NextWriteSucceeds
  <2> SUFFICES ASSUME CanaryInv, writer.pc = "idle", ~torn
               PROVE  Canary!Oldest(live.files \cup {live.n + 1}) \subseteq live.disk
    BY DEF NextWriteSucceeds, Canary!NextWriteSucceeds
  <2> DEFINE n == live.n + 1
             F == live.files \cup {n}
  <2>1. Orderly(live) /\ live.files \subseteq live.disk
    BY DEF CanaryInv, VolumeInv, WriterInv
  <2>2. n \in Kept(F)
    BY <2>1, NextIsOrderly
  <2>3. Canary!Oldest(F) \subseteq F
    BY DEF Canary!Oldest
  <2>4. QED
    BY <2>1, <2>2, <2>3 DEF Kept
<1>2. QED
  BY <1>1, CanaryAlone, CanaryHolds, PTL

\* Verify accepts every backup of a canary that was being written, whenever Longhorn took
\* it, but one cut by a removal.
THEOREM NoFalseAlarms == Spec => []NoFalseAlarm
<1>1. CanaryInv => NoFalseAlarm
  BY OrderlyVerifies DEF CanaryInv, BackupInv, Backup, NoFalseAlarm, Canary!NoFalseAlarm
<1>2. QED
  BY <1>1, CanaryAlone, CanaryHolds, PTL

\* A restore test that passes has read the newest Keep generations, whole, whichever Volume
\* or pod an earlier run left in its way.
THEOREM PassesAreWhole == Spec => []PassMeansWhole
<1>1. CanaryInv => PassMeansWhole
  BY VerifiedIsWhole DEF CanaryInv, VerdictInv, VerdictFits, PassMeansWhole, Canary!PassMeansWhole
<1>2. QED
  BY <1>1, CanaryAlone, CanaryHolds, PTL

\* Neither restore test leaves anything behind when it reports a pass, whatever failed or
\* stopped it, but for an answer that was not given.
THEOREM PassesLeaveNothing == Spec => []PassLeavesNothing
<1>1. DatabasesInv => Databases!PassLeavesNothing
  <2> SUFFICES ASSUME DatabasesInv, NEW m \in Modes, NEW t \in job[m].passed, Databases!Exists(<<m, t>>)
               PROVE  job[m].lied
    BY DEF Databases!PassLeavesNothing, DatabasesInv, JobInv, Job
  <2>1. JobInv(m, job[m], scratch) /\ job[m] \in Job
    BY DEF DatabasesInv, JobInv
  <2>2. t \in 1..NTargets[m]
    BY <2>1, Times DEF JobInv, Stands, Job
  <2>3. QED
    BY <2>1, <2>2, NamesArePairs DEF JobInv, LeftNothing, There, Databases!Exists
<1>2. CanaryInv => Canary!PassLeavesNothing
  BY DEF CanaryInv, VerdictInv, LeavesNothing, Canary!PassLeavesNothing, VerdictFits, RestoreJob
<1>3. QED
  BY <1>1, <1>2, DatabasesAlone, DatabasesHold, CanaryAlone, CanaryHolds, PTL DEF PassLeavesNothing

\* Neither restore test loses a last success that is published, whatever fails or stops
\* it, but after a read of the previous results that got no answer.
THEOREM LastSuccessIsKept == Spec => ErasedOnlyUnread
<1>1. DatabasesInv /\ [Databases!Next]_(Databases!vars)
        => [\A m \in Modes : published[m] \subseteq published'[m] \/ ~job[m].readable]_(Databases!vars)
  <2> SUFFICES ASSUME DatabasesInv, Databases!Next, NEW m \in Modes, job[m].readable
               PROVE  published[m] \subseteq published'[m]
    OBVIOUS
  <2>1. CASE published' = published
    BY <2>1
  <2>2. ASSUME NEW n \in Modes, Databases!Publish(n), published' # published
        PROVE  published[m] \subseteq published'[m]
    <3>1. published' = [published EXCEPT ![n] = Databases!BuildMetrics(n)] /\ n \in DOMAIN published
      BY <2>2 DEF Databases!Publish, DatabasesInv
    <3>2. CASE n # m
      BY <3>1, <3>2
    <3>3. CASE n = m
      BY <3>1, <3>3 DEF Databases!BuildMetrics
    <3>4. QED
      BY <3>2, <3>3
  <2>3. QED
    BY <2>1, <2>2 DEF Databases!Next, Databases!Tick, Databases!Vanish, Databases!Step, Databases!Start, Databases!Prepare,
       Databases!ApplyAfter, Databases!Judge, Databases!DeleteCluster, Databases!GiveUp, Databases!AwaitGone,
       Databases!Force, Databases!Terminate, Databases!Kill
<1>2. [Canary!Next]_(Canary!vars) => [last => last' \/ ~testJob.readable]_(Canary!vars)
  <2> SUFFICES ASSUME Canary!Next, last, testJob.readable, ~UNCHANGED last PROVE last'
    BY Zenon
  <2>1. Canary!Publish
    BY DEF Canary!Next, Canary!RestoreNext, Canary!restoreVars, Canary!Start, Canary!CleanBefore, Canary!Restore,
       Canary!RunVerify, Canary!CleanAfter, Canary!Terminate, Canary!Kill
  <2>2. Canary!BuildMetrics
    BY Zenon DEF Canary!BuildMetrics
  <2>3. QED
    BY <2>1, <2>2, Zenon DEF Canary!Publish
<1>3. Databases!Spec => Databases!ErasedOnlyUnread
  BY <1>1, DatabasesHold, PTL DEF Databases!Spec, Databases!ErasedOnlyUnread
<1>4. Canary!Spec => Canary!ErasedOnlyUnread
  BY <1>2, PTL DEF Canary!Spec, Canary!ErasedOnlyUnread
<1>5. QED
  BY <1>3, <1>4, DatabasesAlone, CanaryAlone, PTL DEF ErasedOnlyUnread

-----------------------------------------------------------------------------
(* The CNPG archive on its two stores, its copy and its verification.      *)

LEMMA ArchiveAlone == Spec => Archive!Spec
<1>1. Init => Archive!Init
  BY DEF Init, Archive!Init
<1>2. [Next]_<<part, databases, canary, archive>> => [Archive!Next]_(Archive!vars)
  BY DEF Next, archive, Archive!vars
<1>3. QED
  BY <1>1, <1>2, PTL DEF Spec, Archive!Spec

BackupInfo == [status : {"none", "DONE", "FAILED"}, tl : Nat, begin : Nat, end : Nat]
CopyJob == [pc : {"idle", "copy"}, todo : SUBSET Archive!Objects, old : SUBSET Archive!Objects, blind : BOOLEAN]
Server == [tl : Timelines, n : Nat, backup : Nat]
Holding == [{"primary", "replica"} -> [Archive!Objects -> Archive!Contents]]
Holds(s, o) == store[s][o] # "absent"

\* What PostgreSQL and backup.info say: a backup under way has begun, at a segment that was
\* not archived then; one that is done ends no earlier than it begins.
ServerInv ==
  /\ server \in Server /\ info \in [Ids -> BackupInfo]
  /\ server.backup # 0 =>
       LET b == server.backup
       IN /\ b \in Ids /\ info[b].status = "none" /\ info[b].tl \in Timelines
          /\ info[b].begin \in Segments /\ info[b].begin <= server.n
  /\ \A b \in Ids : info[b].status = "DONE" =>
       /\ info[b].tl \in Timelines /\ info[b].begin \in Segments /\ info[b].end \in Segments
       /\ info[b].begin <= info[b].end
  /\ \E k \in Nat : \A b \in Ids : info[b].status # "none" => b <= k
\* What the stores hold: nothing but whole objects as long as none was lost or damaged, and
\* no segment PostgreSQL has not written yet.
HoldingInv ==
  /\ store \in Holding /\ storeFaults \in Nat
  /\ ~lost => \A s \in {"primary", "replica"}, o \in Archive!Objects : store[s][o] \in {"absent", "good"}
  /\ \A s \in {"primary", "replica"}, t \in Timelines, n \in Segments :
       Holds(s, Archive!Wal(t, n)) => n < server.n
\* backup.info comes and goes with what it announces: on the primary with the data, and on
\* its way to the replica after them.
InfoInv ==
  /\ copy \in CopyJob
  /\ \A b \in Ids :
       /\ info[b].status = "none" => ~Holds("primary", Archive!Info(b)) /\ Archive!Info(b) \notin copy.todo
       /\ info[b].status = "DONE" /\ ~lost /\ Holds("primary", Archive!Info(b)) =>
            /\ Holds("primary", Archive!Data(b))
            /\ Archive!Info(b) \in copy.todo /\ ~copy.blind =>
                 Archive!Data(b) \in copy.todo \/ Holds("replica", Archive!Data(b))
ArchiveInv == ServerInv /\ HoldingInv /\ InfoInv

LEMMA StoreTimes ==
  /\ Ids \subseteq Nat /\ Segments \subseteq Nat /\ Timelines \subseteq Nat
  /\ Segments # {} /\ Timelines # {} /\ StoreFaults \in Nat
<1>1. Archive!StoreAssumption
  BY BackupsAssumption
<1>2. {StoreFaults, MinPrune} \subseteq Nat /\ Ids \subseteq Nat /\ Segments \in (SUBSET Nat) \ {{}} /\ Timelines \in (SUBSET Nat) \ {{}}
  BY <1>1 DEF Archive!StoreAssumption
<1>3. QED
  BY <1>2

\* The objects are told apart by what they are of.
LEMMA ObjectsApart ==
  /\ \A b \in Ids : Archive!Data(b) \in Archive!Objects /\ Archive!Info(b) \in Archive!Objects
  /\ \A t \in Timelines, n \in Segments : Archive!Wal(t, n) \in Archive!Objects
  /\ \A b, c : Archive!Data(b) # Archive!Info(c)
  /\ \A b, c : Archive!Info(b) = Archive!Info(c) => b = c
  /\ \A b, c : Archive!Data(b) = Archive!Data(c) => b = c
  /\ \A b, t, n : Archive!Data(b) # Archive!Wal(t, n) /\ Archive!Info(b) # Archive!Wal(t, n)
  /\ \A b : Archive!IsInfo(Archive!Info(b)) /\ ~Archive!IsInfo(Archive!Data(b))
  /\ \A t, n : ~Archive!IsInfo(Archive!Wal(t, n))
  /\ \A t, n, u, m : Archive!Wal(t, n) = Archive!Wal(u, m) => t = u /\ n = m
  /\ \A o \in Archive!Objects : Archive!IsInfo(o) => \E b \in Ids : o = Archive!Info(b)
<1>1. \A b \in Ids : Archive!Data(b) \in Archive!Objects /\ Archive!Info(b) \in Archive!Objects
  BY DEF Archive!Objects
<1>2. \A t \in Timelines, n \in Segments : Archive!Wal(t, n) \in Archive!Objects
  BY DEF Archive!Objects
<1>3. \A b, c : Archive!Data(b) # Archive!Info(c)
  BY DEF Archive!Data, Archive!Info
<1>4. \A b, c : Archive!Info(b) = Archive!Info(c) => b = c
  BY DEF Archive!Info
<1>4a. \A b, c : Archive!Data(b) = Archive!Data(c) => b = c
  BY DEF Archive!Data
<1>5. \A b : Archive!IsInfo(Archive!Info(b)) /\ ~Archive!IsInfo(Archive!Data(b))
  BY DEF Archive!IsInfo, Archive!Info, Archive!Data
<1>6. \A t, n : ~Archive!IsInfo(Archive!Wal(t, n)) /\ ~Archive!IsInfo(Archive!History(t))
  BY DEF Archive!IsInfo, Archive!Wal, Archive!History
<1>7. \A t, n, u, m : Archive!Wal(t, n) = Archive!Wal(u, m) => t = u /\ n = m
  BY DEF Archive!Wal
<1>8. \A o \in Archive!Objects : Archive!IsInfo(o) => \E b \in Ids : o = Archive!Info(b)
  BY <1>5, <1>6 DEF Archive!Objects
<1>9. \A b, t, n : Archive!Data(b) # Archive!Wal(t, n)
  <2> TAKE b, t, n
  <2>1. Archive!Data(b)[1] = "data" /\ Archive!Wal(t, n)[1] = "wal"
    BY DEF Archive!Data, Archive!Wal
  <2>2. QED
    BY <2>1
<1>10. QED
  BY <1>1, <1>2, <1>3, <1>4, <1>4a, <1>5, <1>6, <1>7, <1>8, <1>9

\* One object of one store is another one.
Put(st, s, o, c) == [st EXCEPT ![s][o] = c]
LEMMA PutIs ==
  ASSUME NEW st \in Holding, NEW s \in {"primary", "replica"}, NEW o \in Archive!Objects, NEW c \in Archive!Contents
  PROVE  /\ Put(st, s, o, c) \in Holding
         /\ \A r \in {"primary", "replica"}, p \in Archive!Objects :
              Put(st, s, o, c)[r][p] = IF r = s /\ p = o THEN c ELSE st[r][p]
<1>1. \A r \in {"primary", "replica"} : st[r] \in [Archive!Objects -> Archive!Contents]
  BY DEF Holding
<1>2. Put(st, s, o, c) \in Holding
  BY <1>1 DEF Holding, Put
<1>3. \A r \in {"primary", "replica"}, p \in Archive!Objects : Put(st, s, o, c)[r][p] = IF r = s /\ p = o THEN c ELSE st[r][p]
  BY <1>1 DEF Holding, Put
<1>4. QED
  BY <1>2, <1>3

\* One of the numbers of a bounded set is the least, one is the greatest.
LEMMA LeastIs ==
  ASSUME NEW S \in SUBSET Nat, S # {}
  PROVE  Archive!Min(S) \in S
<1> DEFINE Less == {p \in Nat \X Nat : p[1] < p[2]}
<1>1. PICK k \in S : \A j \in S : ~(<<j, k>> \in Less)
  <2>1. IsWellFoundedOn(Less, Nat)
    BY NatLessThanWellFounded DEF OpToRel
  <2> HIDE DEF Less
  <2>2. QED
    BY <2>1, WFMin
<1>2. \A j \in S : k <= j
  <2> TAKE j \in S
  <2>1. ~(<<j, k>> \in Less) /\ j \in Nat /\ k \in Nat
    BY <1>1
  <2>2. ~(j < k)
    BY <2>1
  <2>3. QED
    BY <2>1, <2>2
<1>3. QED
  BY <1>2 DEF Archive!Min

LEMMA GreatestIs ==
  ASSUME NEW S \in SUBSET Nat, S # {}, NEW n \in Nat, \A x \in S : x <= n
  PROVE  Archive!Max(S) \in S /\ \A x \in S : x <= Archive!Max(S)
<1> DEFINE Above == {k \in Nat : \A x \in S : x <= k}
           Less == {p \in Nat \X Nat : p[1] < p[2]}
<1>1. PICK k \in Above : \A j \in Above : ~(<<j, k>> \in Less)
  <2>1. IsWellFoundedOn(Less, Nat)
    BY NatLessThanWellFounded DEF OpToRel
  <2>2. n \in Above /\ Above \subseteq Nat
    OBVIOUS
  <2> HIDE DEF Less, Above
  <2>3. QED
    BY <2>1, <2>2, WFMin
<1>2. k \in S
  <2> SUFFICES ASSUME k \notin S PROVE FALSE
    OBVIOUS
  <2>1. k > 0 /\ k - 1 \in Nat /\ \A x \in S : x <= k - 1
    <3>1. PICK y : y \in S
      OBVIOUS
    <3>2. \A x \in S : x <= k - 1 /\ x \in Nat
      BY <1>1
    <3>3. QED
      BY <3>1, <3>2
  <2>2. k - 1 \in Above /\ k \in Nat /\ k - 1 \in Nat /\ k - 1 < k
    BY <1>1, <2>1
  <2>3. <<k - 1, k>> \in Less
    BY <2>2
  <2>4. QED
    BY <1>1, <2>2, <2>3
<1>3. QED
  BY <1>1, <1>2 DEF Archive!Max

LEMMA ArchiveStarts == Archive!Init => ArchiveInv
<1> SUFFICES ASSUME Archive!Init PROVE ArchiveInv
  OBVIOUS
<1>1. /\ server = [tl |-> Archive!Min(Timelines), n |-> Archive!Min(Segments), backup |-> 0]
      /\ info = [b \in Ids |-> Archive!NoInfo]
      /\ store = [s \in {"primary", "replica"} |-> Archive!Nowhere]
      /\ copy = Archive!NoCopy /\ storeFaults = StoreFaults
  BY DEF Archive!Init
<1>2. Archive!NoInfo \in BackupInfo /\ Archive!NoInfo.status = "none"
  BY DEF Archive!NoInfo, BackupInfo
<1>3. ServerInv
  <2>1. Archive!Min(Timelines) \in Timelines /\ Archive!Min(Segments) \in Nat
    BY StoreTimes, LeastIs
  <2>2. server \in Server /\ server.backup = 0
    BY <1>1, <2>1 DEF Server
  <2>3. info \in [Ids -> BackupInfo] /\ \A b \in Ids : info[b].status = "none"
    BY <1>1, <1>2
  <2>4. 0 \in Nat /\ \A b \in Ids : info[b].status # "none" => b <= 0
    BY <2>3
  <2>5. QED
    BY <2>2, <2>3, <2>4 DEF ServerInv
<1>4. \A s \in {"primary", "replica"}, o \in Archive!Objects : store[s][o] = "absent"
  BY <1>1 DEF Archive!Nowhere
<1>5. HoldingInv
  <2>1. store \in Holding
    BY <1>1 DEF Holding, Archive!Nowhere, Archive!Contents
  <2>2. QED
    BY <1>1, <1>4, <2>1, StoreTimes, ObjectsApart DEF HoldingInv, Holds
<1>6. InfoInv
  <2>1. copy \in CopyJob /\ copy.todo = {}
    BY <1>1 DEF CopyJob, Archive!NoCopy
  <2>2. QED
    BY <1>3, <1>4, <2>1, ObjectsApart DEF InfoInv, Holds, ServerInv
<1>7. QED
  BY <1>3, <1>5, <1>6 DEF ArchiveInv

LEMMA ServerHolds ==
  ASSUME ArchiveInv, Archive!Next PROVE ServerInv'
<1>1. ServerInv
  BY DEF ArchiveInv
<1>2. CASE UNCHANGED <<server, info>>
  BY <1>1, <1>2 DEF ServerInv
<1>3. CASE Archive!ArchiveWal
  <2>1. info' = info /\ server' = [server EXCEPT !.n = @ + 1] /\ server \in Server
    BY <1>1, <1>3 DEF Archive!ArchiveWal, ServerInv
  <2>2. server' \in Server /\ server'.n = server.n + 1 /\ server'.backup = server.backup
    BY <2>1 DEF Server
  <2>3. server.n \in Nat /\ \A b \in Ids : info[b].begin \in Nat
    BY <1>1 DEF ServerInv, Server, BackupInfo
  <2>4. QED
    BY <1>1, <2>1, <2>2, <2>3 DEF ServerInv
<1>4. CASE Archive!StartBackup
  <2>1. PICK b \in Ids :
          /\ info[b] = Archive!NoInfo /\ server' = [server EXCEPT !.backup = b]
          /\ info' = [info EXCEPT ![b] = [status |-> "none", tl |-> server.tl, begin |-> server.n, end |-> server.n]]
    BY <1>4 DEF Archive!StartBackup
  <2>2. server.n \in Segments /\ server \in Server /\ info \in [Ids -> BackupInfo] /\ b \in Nat
    BY <1>1, <1>4, StoreTimes DEF Archive!StartBackup, ServerInv
  <2>3. server' \in Server /\ server'.backup = b /\ server'.n = server.n
    BY <2>1, <2>2 DEF Server
  <2>4. /\ info'[b].status = "none" /\ info'[b].tl = server.tl /\ info'[b].begin = server.n
        /\ \A c \in Ids \ {b} : info'[c] = info[c]
    BY <2>1, <2>2
  <2>5. info' \in [Ids -> BackupInfo]
    <3>1. [status |-> "none", tl |-> server.tl, begin |-> server.n, end |-> server.n] \in BackupInfo
      BY <2>2, StoreTimes DEF BackupInfo, Server
    <3>2. QED
      BY <2>1, <2>2, <3>1
  <2>6. \E k \in Nat : \A c \in Ids : info'[c].status # "none" => c <= k
    BY <1>1, <2>4 DEF ServerInv
  <2>7. \A c \in Ids : info'[c].status = "DONE" => info'[c] = info[c]
    BY <2>4
  <2>8. server.tl \in Timelines /\ server.n <= server.n
    BY <2>2 DEF Server
  <2>9. QED
    BY <1>1, <2>2, <2>3, <2>4, <2>5, <2>6, <2>7, <2>8 DEF ServerInv
<1>5. CASE Archive!EndBackup
  <2> DEFINE b == server.backup
  <2>1. /\ b \in Ids /\ info[b].tl \in Timelines /\ info[b].begin \in Segments /\ info[b].begin <= server.n
        /\ server.n \in Segments /\ server \in Server /\ info \in [Ids -> BackupInfo] /\ b \in Nat
        /\ server' = [server EXCEPT !.backup = 0]
    BY <1>1, <1>5, StoreTimes DEF Archive!EndBackup, ServerInv
  <2>2. server' \in Server /\ server'.backup = 0
    BY <2>1 DEF Server
  <2>3. \/ info' = [info EXCEPT ![b].status = "DONE", ![b].end = server.n]
        \/ info' = [info EXCEPT ![b].status = "FAILED"]
    BY <1>5 DEF Archive!EndBackup
  <2> HIDE DEF b
  <2>4. /\ info' \in [Ids -> BackupInfo] /\ \A c \in Ids \ {b} : info'[c] = info[c]
        /\ info'[b].tl = info[b].tl /\ info'[b].begin = info[b].begin
        /\ info'[b].status = "DONE" => info'[b].end = server.n
    <3>1. info[b] \in BackupInfo /\ server.n \in Nat
      BY <2>1, StoreTimes
    <3>2. CASE info' = [info EXCEPT ![b].status = "DONE", ![b].end = server.n]
      BY <2>1, <3>1, <3>2 DEF BackupInfo
    <3>3. CASE info' = [info EXCEPT ![b].status = "FAILED"]
      BY <2>1, <3>1, <3>3 DEF BackupInfo
    <3>4. QED
      BY <2>3, <3>2, <3>3
  <2>5. \E k \in Nat : \A c \in Ids : info'[c].status # "none" => c <= k
    <3>1. PICK k \in Nat : \A c \in Ids : info[c].status # "none" => c <= k
      BY <1>1 DEF ServerInv
    <3>2. k + b \in Nat /\ \A c \in Ids : info'[c].status # "none" => c <= k + b
      BY <2>1, <2>4, <3>1, StoreTimes
    <3>3. QED
      BY <3>2
  <2>6. QED
    BY <1>1, <2>1, <2>2, <2>4, <2>5 DEF ServerInv
<1>6. QED
  BY <1>2, <1>3, <1>4, <1>5
  DEF Archive!Next, Archive!Retain, Archive!Lose, Archive!Age, Archive!List, Archive!CopyNext,
      Archive!Prune, Archive!KillCopy

-----------------------------------------------------------------------------
(* What the steps do to the two stores.                                    *)

\* A step leaves the stores as they are, writes or damages some objects or takes some away.
Fewer(s) == store' \in Holding /\ \A r \in {"primary", "replica"}, o \in Archive!Objects :
              store'[r][o] = store[r][o] \/ (r = s /\ store'[r][o] = "absent")

LEMMA ArchiveWalPuts ==
  ASSUME ArchiveInv, Archive!ArchiveWal
  PROVE  /\ store' \in Holding
         /\ \A r \in {"primary", "replica"}, o \in Archive!Objects :
              store'[r][o] = IF r = "primary" /\ o = Archive!Wal(server.tl, server.n) THEN "good" ELSE store[r][o]
<1>1. store \in Holding /\ server.tl \in Timelines /\ server.n \in Segments
  BY DEF ArchiveInv, HoldingInv, ServerInv, Server, Archive!ArchiveWal
<1>2. /\ store' = Put(store, "primary", Archive!Wal(server.tl, server.n), "good")
      /\ Archive!Wal(server.tl, server.n) \in Archive!Objects /\ "good" \in Archive!Contents
  BY <1>1, ObjectsApart DEF Archive!ArchiveWal, Archive!Upload, Archive!Contents, Put
<1>3. QED
  BY <1>1, <1>2, PutIs

LEMMA EndBackupPuts ==
  ASSUME ArchiveInv, Archive!EndBackup
  PROVE  /\ server.backup \in Ids /\ info[server.backup].status = "none"
         /\ \A c \in Ids \ {server.backup} : info'[c] = info[c]
         /\ copy' = copy /\ lost' = lost /\ storeFaults' = storeFaults /\ server'.n = server.n
         /\ store' \in Holding
         /\ \A r \in {"primary", "replica"}, o \in Archive!Objects :
              store'[r][o] = IF r = "primary" /\ (\/ o = Archive!Info(server.backup)
                                                  \/ o = Archive!Data(server.backup) /\ info'[server.backup].status = "DONE")
                             THEN "good" ELSE store[r][o]
         /\ info'[server.backup].status # "none"
<1> DEFINE b == server.backup
<1>1. /\ b \in Ids /\ store \in Holding /\ info[b].status = "none" /\ info \in [Ids -> BackupInfo]
      /\ server \in Server
  BY DEF ArchiveInv, HoldingInv, ServerInv, Archive!EndBackup
<1>2. /\ Archive!Info(b) \in Archive!Objects /\ Archive!Data(b) \in Archive!Objects /\ "good" \in Archive!Contents
      /\ Archive!Data(b) # Archive!Info(b)
  BY <1>1, ObjectsApart DEF Archive!Contents
<1>3. server' = [server EXCEPT !.backup = 0] /\ copy' = copy /\ lost' = lost /\ storeFaults' = storeFaults
  BY DEF Archive!EndBackup
<1>4. server'.n = server.n
  BY <1>1, <1>3 DEF Server
<1>5. CASE /\ info' = [info EXCEPT ![b].status = "DONE", ![b].end = server.n]
           /\ store' = [Archive!Upload(Archive!Data(b)) EXCEPT !["primary"][Archive!Info(b)] = "good"]
  <2>1. info'[b].status = "DONE" /\ \A c \in Ids \ {b} : info'[c] = info[c]
    BY <1>1, <1>5 DEF BackupInfo
  <2> DEFINE st == Put(store, "primary", Archive!Data(b), "good")
  <2>2. /\ st \in Holding
        /\ \A r \in {"primary", "replica"}, o \in Archive!Objects :
             st[r][o] = IF r = "primary" /\ o = Archive!Data(b) THEN "good" ELSE store[r][o]
    BY <1>1, <1>2, PutIs
  <2>2a. store' = Put(st, "primary", Archive!Info(b), "good")
    BY <1>5 DEF Archive!Upload, Put
  <2> HIDE DEF b, st
  <2>3. /\ store' \in Holding
        /\ \A r \in {"primary", "replica"}, o \in Archive!Objects :
             store'[r][o] = IF r = "primary" /\ o = Archive!Info(b) THEN "good" ELSE st[r][o]
    BY <1>2, <2>2, <2>2a, PutIs
  <2>4. QED
    BY <1>1, <1>3, <1>4, <2>1, <2>2, <2>3 DEF b
<1>6. CASE /\ info' = [info EXCEPT ![b].status = "FAILED"]
           /\ store' = Archive!Upload(Archive!Info(b))
  <2>1. info'[b].status = "FAILED" /\ \A c \in Ids \ {b} : info'[c] = info[c]
    BY <1>1, <1>6 DEF BackupInfo
  <2>1a. store' = Put(store, "primary", Archive!Info(b), "good")
    BY <1>6 DEF Archive!Upload, Put
  <2>2. /\ store' \in Holding
        /\ \A r \in {"primary", "replica"}, o \in Archive!Objects :
             store'[r][o] = IF r = "primary" /\ o = Archive!Info(b) THEN "good" ELSE store[r][o]
    BY <1>1, <1>2, <2>1a, PutIs
  <2>3. QED
    BY <1>1, <1>3, <1>4, <2>1, <2>2
<1>7. QED
  BY <1>5, <1>6 DEF Archive!EndBackup

\* Retention takes backup.info away with the data.
LEMMA RetainTakes ==
  ASSUME ArchiveInv, Archive!Retain
  PROVE  /\ Fewer("primary")
         /\ \A b \in Ids : store'["primary"][Archive!Data(b)] # store["primary"][Archive!Data(b)]
                             => store'["primary"][Archive!Info(b)] = "absent"
<1>1. store \in Holding
  BY DEF ArchiveInv, HoldingInv
<1>2. PICK b \in Ids, c \in Ids :
        store' = [store EXCEPT !["primary"] = [o \in Archive!Objects |->
                    IF \/ o \in {Archive!Data(b), Archive!Info(b)}
                       \/ \E t \in Timelines, n \in Segments : o = Archive!Wal(t, n) /\ n < info[c].begin
                    THEN "absent" ELSE @[o]]]
  BY DEF Archive!Retain
<1> DEFINE taken(o) == \/ o \in {Archive!Data(b), Archive!Info(b)}
                       \/ \E t \in Timelines, n \in Segments : o = Archive!Wal(t, n) /\ n < info[c].begin
           left == [o \in Archive!Objects |-> IF taken(o) THEN "absent" ELSE store["primary"][o]]
<1>3. store' = [store EXCEPT !["primary"] = left]
  BY <1>1, <1>2 DEF Holding
<1> HIDE DEF taken
<1>4. left \in [Archive!Objects -> Archive!Contents] /\ \A o \in Archive!Objects : left[o] = IF taken(o) THEN "absent" ELSE store["primary"][o]
  BY <1>1 DEF Holding, Archive!Contents
<1> HIDE DEF left
<1>5. store' \in Holding /\ store'["primary"] = left /\ store'["replica"] = store["replica"]
  BY <1>1, <1>3, <1>4 DEF Holding
<1>6. Fewer("primary")
  BY <1>4, <1>5 DEF Fewer
<1>7. ASSUME NEW d \in Ids, taken(Archive!Data(d)) PROVE taken(Archive!Info(d))
  BY <1>7, ObjectsApart DEF taken
<1>8. QED
  BY <1>4, <1>5, <1>6, <1>7, ObjectsApart

LEMMA LoseTakes ==
  ASSUME ArchiveInv, Archive!Lose
  PROVE  /\ store' \in Holding /\ lost' /\ storeFaults' = storeFaults - 1 /\ storeFaults > 0
         /\ \A r \in {"primary", "replica"}, o \in Archive!Objects : store'[r][o] # "absent" => store[r][o] # "absent"
<1>1. store \in Holding /\ lost' /\ storeFaults' = storeFaults - 1 /\ storeFaults > 0
  BY DEF ArchiveInv, HoldingInv, Archive!Lose
<1>2. PICK s \in {"primary", "replica"} :
        \/ \E o \in Archive!Listing(s), c \in {"absent", "empty", "corrupt"} : store' = [store EXCEPT ![s][o] = c]
        \/ store' = [store EXCEPT ![s] = Archive!Nowhere]
  BY DEF Archive!Lose
<1>3. CASE store' = [store EXCEPT ![s] = Archive!Nowhere]
  BY <1>1, <1>3 DEF Archive!Nowhere, Holding, Archive!Contents
<1>4. ASSUME NEW o \in Archive!Listing(s), NEW c \in {"absent", "empty", "corrupt"}, store' = [store EXCEPT ![s][o] = c]
      PROVE  /\ store' \in Holding
             /\ \A r \in {"primary", "replica"}, p \in Archive!Objects : store'[r][p] # "absent" => store[r][p] # "absent"
  <2>1. o \in Archive!Objects /\ store[s][o] # "absent" /\ c \in Archive!Contents
    BY DEF Archive!Listing, Archive!Contents
  <2>2. store' = Put(store, s, o, c)
    BY <1>4 DEF Put
  <2>3. QED
    BY <1>1, <2>1, <2>2, PutIs
<1>5. QED
  BY <1>1, <1>2, <1>3, <1>4

\* A turn of the loop copies one object at most; a backup.info is its turn when nothing else
\* is left, and one that is copied and read had its end segment there.
LEMMA CopyNextPuts ==
  ASSUME ArchiveInv, Archive!CopyNext
  PROVE  \E o \in copy.todo :
           /\ o \in Archive!Objects
           /\ copy' \in CopyJob /\ copy'.todo = copy.todo \ {o} /\ copy'.pc = "copy"
           /\ store' \in Holding /\ store'["primary"] = store["primary"]
           /\ \A p \in Archive!Objects \ {o} : store'["replica"][p] = store["replica"][p]
           /\ store'["replica"][o] \in {store["replica"][o], store["primary"][o]}
           /\ Archive!IsInfo(o) => \A p \in copy.todo : Archive!IsInfo(p)
           /\ storeFaults' \in Nat
           /\ \/ storeFaults' < storeFaults /\ copy'.blind
              \/ /\ copy'.blind = copy.blind
                 /\ store["primary"][o] # "absent" /\ ~Archive!Waits(o, TRUE) => store'["replica"][o] = store["primary"][o]
                 /\ Archive!Waits(o, TRUE) => store'["replica"][o] = store["replica"][o]
<1>1. store \in Holding /\ copy \in CopyJob /\ storeFaults \in Nat /\ copy.todo # {} /\ copy.todo \subseteq Archive!Objects
  BY DEF ArchiveInv, HoldingInv, InfoInv, Archive!CopyNext, CopyJob
<1> DEFINE o == Archive!NextOf(copy.todo)
<1>2. o \in copy.todo /\ (~Archive!IsInfo(o) \/ \A p \in copy.todo : Archive!IsInfo(p))
  <2>1. \E p \in copy.todo : ~Archive!IsInfo(p) \/ \A q \in copy.todo : Archive!IsInfo(q)
    BY <1>1
  <2>2. QED
    BY <2>1 DEF Archive!NextOf
<1>3. PICK read \in Archive!Answers, copied \in Archive!Answers :
        /\ Archive!Call(read /\ copied)
        /\ LET put == ~Archive!Waits(o, read) /\ copied /\ store["primary"][o] # "absent"
           IN store' = IF put THEN [store EXCEPT !["replica"][o] = store["primary"][o]] ELSE store
        /\ copy' = [copy EXCEPT !.todo = @ \ {o}, !.blind = @ \/ ~(read /\ copied)]
  BY Zenon DEF Archive!CopyNext
<1> HIDE DEF o
<1>4. o \in Archive!Objects /\ store["primary"][o] \in Archive!Contents /\ read \in BOOLEAN /\ copied \in BOOLEAN
  BY <1>1, <1>2 DEF Archive!Answers, Holding
<1>5. copy' \in CopyJob /\ copy'.todo = copy.todo \ {o} /\ copy'.pc = copy.pc
      /\ copy'.blind = (copy.blind \/ ~(read /\ copied))
  BY <1>1, <1>3, <1>4 DEF CopyJob
<1>6. /\ store' \in Holding /\ store'["primary"] = store["primary"]
      /\ \A p \in Archive!Objects \ {o} : store'["replica"][p] = store["replica"][p]
      /\ store'["replica"][o] = IF ~Archive!Waits(o, read) /\ copied /\ store["primary"][o] # "absent"
                                THEN store["primary"][o] ELSE store["replica"][o]
  <2>1. CASE ~Archive!Waits(o, read) /\ copied /\ store["primary"][o] # "absent"
    BY <1>1, <1>3, <1>4, <2>1 DEF Holding
  <2>2. CASE ~(~Archive!Waits(o, read) /\ copied /\ store["primary"][o] # "absent")
    BY <1>1, <1>3, <2>2
  <2>3. QED
    BY <2>1, <2>2
<1>7. CASE read /\ copied
  <2>1. storeFaults' = storeFaults /\ copy'.blind = copy.blind /\ read = TRUE
    BY <1>1, <1>3, <1>4, <1>5, <1>7 DEF Archive!Call, CopyJob
  <2>2. QED
    BY <1>1, <1>2, <1>4, <1>5, <1>6, <1>7, <2>1 DEF Archive!CopyNext
<1>8. CASE ~(read /\ copied)
  <2>1. storeFaults > 0
    BY <1>1, <1>4, <1>8 DEF Archive!Answers
  <2>2. storeFaults' = storeFaults - 1 /\ copy'.blind
    BY <1>3, <1>5, <1>8 DEF Archive!Call
  <2>3. storeFaults' \in Nat /\ storeFaults' < storeFaults /\ copy.pc = "copy"
    BY <1>1, <2>1, <2>2 DEF Archive!CopyNext
  <2>4. store'["replica"][o] \in {store["replica"][o], store["primary"][o]}
    BY <1>6
  <2>5. QED
    BY <1>2, <1>4, <1>5, <1>6, <2>2, <2>3, <2>4
<1>9. QED
  BY <1>7, <1>8

LEMMA PruneTakes ==
  ASSUME ArchiveInv, Archive!Prune
  PROVE  Fewer("replica") /\ copy' = Archive!NoCopy /\ storeFaults' \in Nat
<1>1. store \in Holding /\ storeFaults \in Nat
  BY DEF ArchiveInv, HoldingInv
<1>2. PICK done \in Archive!Answers, gone \in {copy.old} \cup {copy.old \ {o} : o \in copy.old} :
        /\ Archive!Call(done)
        /\ store' = [store EXCEPT !["replica"] = [o \in Archive!Objects |-> IF o \in gone THEN "absent" ELSE @[o]]]
  BY DEF Archive!Prune
<1>3. storeFaults' \in Nat
  <2>1. CASE storeFaults > 0
    BY <1>1, <1>2, <2>1 DEF Archive!Call
  <2>2. CASE storeFaults = 0
    BY <1>1, <1>2, <2>2 DEF Archive!Call, Archive!Answers
  <2>3. QED
    BY <1>1, <2>1, <2>2
<1>4. Fewer("replica")
  BY <1>1, <1>2 DEF Fewer, Holding, Archive!Contents
<1>5. QED
  BY <1>3, <1>4 DEF Archive!Prune

LEMMA HoldingHolds ==
  ASSUME ArchiveInv, Archive!Next PROVE HoldingInv'
<1>1. HoldingInv /\ server.n \in Nat /\ InfoInv /\ ServerInv
  BY DEF ArchiveInv, ServerInv, Server
<1>2. \A t \in Timelines, n \in Segments : Archive!Wal(t, n) \in Archive!Objects
  BY ObjectsApart
\* What is only taken away, of stores in which nothing else changes.
<1>3. ASSUME NEW s \in {"primary", "replica"}, Fewer(s), storeFaults' \in Nat, lost' = lost, server' = server
      PROVE  HoldingInv'
  BY <1>1, <1>2, <1>3 DEF HoldingInv, Fewer, Holds
<1>4. CASE Archive!ArchiveWal
  <2>1. /\ server' = [server EXCEPT !.n = @ + 1] /\ server \in Server /\ server.n \in Segments /\ lost' = lost
        /\ storeFaults' = storeFaults
    BY <1>1, <1>4 DEF Archive!ArchiveWal, ServerInv
  <2>2. server'.n = server.n + 1
    BY <2>1 DEF Server
  <2>3. /\ store' \in Holding
        /\ \A r \in {"primary", "replica"}, o \in Archive!Objects :
             store'[r][o] = IF r = "primary" /\ o = Archive!Wal(server.tl, server.n) THEN "good" ELSE store[r][o]
    BY <1>4, ArchiveWalPuts
  <2>4. ASSUME NEW s \in {"primary", "replica"}, NEW t \in Timelines, NEW n \in Segments, Holds(s, Archive!Wal(t, n))'
        PROVE  n < server.n + 1
    <3>1. CASE Archive!Wal(t, n) = Archive!Wal(server.tl, server.n)
      BY <1>1, <3>1, ObjectsApart
    <3>2. CASE Archive!Wal(t, n) # Archive!Wal(server.tl, server.n)
      <4>1. Holds(s, Archive!Wal(t, n))
        BY <1>2, <2>3, <2>4, <3>2 DEF Holds
      <4>2. n < server.n /\ n \in Nat
        BY <1>1, <4>1, StoreTimes DEF HoldingInv
      <4>3. QED
        BY <1>1, <4>2
    <3>3. QED
      BY <3>1, <3>2
  <2>5. QED
    BY <1>1, <2>1, <2>2, <2>3, <2>4 DEF HoldingInv
<1>5. CASE Archive!EndBackup
  <2>1. /\ lost' = lost /\ storeFaults' = storeFaults /\ server'.n = server.n /\ store' \in Holding
        /\ \A r \in {"primary", "replica"}, o \in Archive!Objects :
             store'[r][o] = store[r][o] \/ (store'[r][o] = "good" /\ o \in {Archive!Info(server.backup), Archive!Data(server.backup)})
    BY <1>5, EndBackupPuts
  <2>2. ASSUME NEW s \in {"primary", "replica"}, NEW t \in Timelines, NEW n \in Segments
        PROVE  store'[s][Archive!Wal(t, n)] = store[s][Archive!Wal(t, n)]
    BY <1>2, <2>1, ObjectsApart
  <2>3. QED
    BY <1>1, <2>1, <2>2 DEF HoldingInv, Holds
<1>6. CASE Archive!Retain
  BY <1>1, <1>3, <1>6, RetainTakes DEF Archive!Retain, HoldingInv
<1>7. CASE Archive!Lose
  <2>1. storeFaults' \in Nat /\ server' = server
    BY <1>1, <1>7, LoseTakes DEF HoldingInv, Archive!Lose
  <2>2. QED
    BY <1>1, <1>2, <1>7, <2>1, LoseTakes DEF HoldingInv, Holds
<1>8. CASE Archive!CopyNext
  <2>1. PICK o \in Archive!Objects :
          /\ store' \in Holding /\ store'["primary"] = store["primary"] /\ storeFaults' \in Nat
          /\ \A p \in Archive!Objects \ {o} : store'["replica"][p] = store["replica"][p]
          /\ store'["replica"][o] \in {store["replica"][o], store["primary"][o]}
    BY <1>8, CopyNextPuts
  <2>2. lost' = lost /\ server' = server
    BY <1>8 DEF Archive!CopyNext
  <2>3. \A s \in {"primary", "replica"}, p \in Archive!Objects : \E r \in {"primary", "replica"} : store'[s][p] = store[r][p]
    BY <2>1
  <2>4. QED
    BY <1>1, <1>2, <2>1, <2>2, <2>3 DEF HoldingInv, Holds
<1>9. CASE Archive!Prune
  BY <1>3, <1>9, PruneTakes DEF Archive!Prune
<1>10. CASE UNCHANGED <<server, store, lost>> /\ storeFaults' \in Nat
  BY <1>1, <1>10 DEF HoldingInv, Holds
<1>11. CASE Archive!KillCopy
  <2>1. storeFaults' \in Nat
    BY <1>1, <1>11 DEF Archive!KillCopy, Archive!Call, HoldingInv
  <2>2. QED
    BY <1>10, <1>11, <2>1 DEF Archive!KillCopy
<1>12. CASE Archive!StartBackup
  <2>1. server'.n = server.n
    BY <1>1, <1>12 DEF Archive!StartBackup, ServerInv, Server
  <2>2. QED
    BY <1>1, <1>12, <2>1 DEF Archive!StartBackup, HoldingInv, Holds
<1>13. CASE Archive!Age \/ Archive!List
  BY <1>1, <1>10, <1>13 DEF Archive!Age, Archive!List, HoldingInv
<1>14. QED
  BY <1>4, <1>5, <1>6, <1>7, <1>8, <1>9, <1>11, <1>12, <1>13 DEF Archive!Next

\* What a step that neither lists, copies nor loses owes to InfoInv.
InfoOf(b) ==
  /\ info[b].status = "none" => ~Holds("primary", Archive!Info(b)) /\ Archive!Info(b) \notin copy.todo
  /\ info[b].status = "DONE" /\ ~lost /\ Holds("primary", Archive!Info(b)) =>
       /\ Holds("primary", Archive!Data(b))
       /\ Archive!Info(b) \in copy.todo /\ ~copy.blind =>
            Archive!Data(b) \in copy.todo \/ Holds("replica", Archive!Data(b))

LEMMA InfoHolds ==
  ASSUME ArchiveInv, Archive!Next PROVE InfoInv'
<1>1. HoldingInv /\ InfoInv /\ ServerInv /\ \A b \in Ids : InfoOf(b)
  BY DEF ArchiveInv, InfoInv, InfoOf
<1>2. SUFFICES copy' \in CopyJob /\ \A b \in Ids : InfoOf(b)'
  BY DEF InfoInv, InfoOf
<1>3. \A b \in Ids : Archive!Info(b) \in Archive!Objects /\ Archive!Data(b) \in Archive!Objects
  BY ObjectsApart
<1>4. copy \in CopyJob
  BY <1>1 DEF InfoInv
<1>5. CASE Archive!ArchiveWal
  <2>1. \A s \in {"primary", "replica"}, b \in Ids :
          /\ store'[s][Archive!Info(b)] = store[s][Archive!Info(b)]
          /\ store'[s][Archive!Data(b)] = store[s][Archive!Data(b)]
    BY <1>3, <1>5, ArchiveWalPuts, ObjectsApart
  <2>2. info' = info /\ copy' = copy /\ lost' = lost
    BY <1>5 DEF Archive!ArchiveWal
  <2>3. QED
    BY <1>1, <1>4, <2>1, <2>2 DEF InfoOf, Holds
<1>6. CASE Archive!StartBackup
  <2>1. PICK c \in Ids : info[c] = Archive!NoInfo /\
          info' = [info EXCEPT ![c] = [status |-> "none", tl |-> server.tl, begin |-> server.n, end |-> server.n]]
    BY <1>6 DEF Archive!StartBackup
  <2>2. \A b \in Ids : info'[b].status = info[b].status
    BY <1>1, <2>1 DEF Archive!NoInfo, ServerInv
  <2>3. store' = store /\ copy' = copy /\ lost' = lost
    BY <1>6 DEF Archive!StartBackup
  <2>4. QED
    BY <1>1, <1>4, <2>2, <2>3 DEF InfoOf, Holds
<1>7. CASE Archive!EndBackup
  <2>1. PICK c \in Ids :
          /\ info[c].status = "none" /\ info'[c].status # "none" /\ \A b \in Ids \ {c} : info'[b] = info[b]
          /\ copy' = copy /\ lost' = lost
          /\ \A r \in {"primary", "replica"}, o \in Archive!Objects :
              store'[r][o] = IF r = "primary" /\ (\/ o = Archive!Info(c)
                                                  \/ o = Archive!Data(c) /\ info'[c].status = "DONE")
                             THEN "good" ELSE store[r][o]
    BY <1>7, EndBackupPuts
  <2>2. ASSUME NEW b \in Ids, b # c PROVE InfoOf(b)'
    <3>1. /\ store'["primary"][Archive!Info(b)] = store["primary"][Archive!Info(b)]
          /\ store'["primary"][Archive!Data(b)] = store["primary"][Archive!Data(b)]
          /\ store'["replica"][Archive!Data(b)] = store["replica"][Archive!Data(b)]
      BY <1>3, <2>1, <2>2, ObjectsApart
    <3>2. QED
      BY <1>1, <2>1, <2>2, <3>1 DEF InfoOf, Holds
  <2>3. InfoOf(c)'
    <3>1. Archive!Info(c) \notin copy.todo
      BY <1>1, <2>1 DEF InfoOf
    <3>2. info'[c].status = "DONE" => store'["primary"][Archive!Data(c)] = "good"
      BY <1>3, <2>1
    <3>3. QED
      BY <2>1, <3>1, <3>2 DEF InfoOf, Holds
  <2>4. QED
    BY <1>4, <2>1, <2>2, <2>3
<1>8. CASE Archive!Retain
  <2>1. info' = info /\ copy' = copy /\ lost' = lost
    BY <1>8 DEF Archive!Retain
  <2>2. /\ \A r \in {"primary", "replica"}, o \in Archive!Objects :
             store'[r][o] = store[r][o] \/ (r = "primary" /\ store'[r][o] = "absent")
        /\ \A b \in Ids : store'["primary"][Archive!Data(b)] # store["primary"][Archive!Data(b)]
                            => store'["primary"][Archive!Info(b)] = "absent"
    BY <1>8, RetainTakes DEF Fewer
  <2>3. QED
    BY <1>1, <1>3, <1>4, <2>1, <2>2 DEF InfoOf, Holds
<1>9. CASE Archive!Lose
  <2>1. info' = info /\ copy' = copy
    BY <1>9 DEF Archive!Lose
  <2>2. QED
    BY <1>1, <1>3, <1>4, <1>9, <2>1, LoseTakes DEF InfoOf, Holds
<1>10. CASE Archive!Age
  BY <1>1, <1>4, <1>10 DEF Archive!Age, InfoOf, Holds
<1>11. CASE Archive!List
  <2>1. /\ copy' = [pc |-> "copy", todo |-> {o \in Archive!Objects : Archive!Differs(o)}, old |-> Archive!Prunable, blind |-> FALSE]
        /\ info' = info /\ store' = store /\ lost' = lost
    BY <1>11 DEF Archive!List
  <2>2. Archive!Prunable \subseteq Archive!Objects
    BY DEF Archive!Prunable, Archive!Listing
  <2>3. copy' \in CopyJob
    BY <2>1, <2>2 DEF CopyJob
  <2>4. copy'.todo = {o \in Archive!Objects : Archive!Differs(o)}
    BY <2>1
  <2>5. QED
    BY <1>1, <1>3, <2>1, <2>3, <2>4 DEF InfoOf, Holds, Archive!Differs
<1>12. CASE Archive!CopyNext
  <2>1. info' = info /\ lost' = lost
    BY <1>12 DEF Archive!CopyNext
  <2>2. PICK o \in copy.todo :
           /\ o \in Archive!Objects
           /\ copy' \in CopyJob /\ copy'.todo = copy.todo \ {o}
           /\ store'["primary"] = store["primary"]
           /\ \A p \in Archive!Objects \ {o} : store'["replica"][p] = store["replica"][p]
           /\ store'["replica"][o] \in {store["replica"][o], store["primary"][o]}
           /\ \/ copy'.blind
              \/ /\ copy'.blind = copy.blind
                 /\ store["primary"][o] # "absent" /\ ~Archive!Waits(o, TRUE) => store'["replica"][o] = store["primary"][o]
    BY <1>12, CopyNextPuts
  <2>3. ASSUME NEW b \in Ids PROVE InfoOf(b)'
    <3>1. CASE o = Archive!Data(b)
      <4>1. ~Archive!Waits(o, TRUE)
        BY <3>1, ObjectsApart DEF Archive!Waits
      <4>2. QED
        BY <1>1, <1>3, <2>1, <2>2, <3>1, <4>1 DEF InfoOf, Holds
    <3>2. CASE o # Archive!Data(b)
      BY <1>1, <1>3, <2>1, <2>2, <3>2 DEF InfoOf, Holds
    <3>3. QED
      BY <3>1, <3>2
  <2>4. QED
    BY <2>2, <2>3
<1>13. CASE Archive!Prune
  <2>1. /\ info' = info /\ copy' = Archive!NoCopy /\ lost' = lost
        /\ \A o \in Archive!Objects : store'["primary"][o] = store["primary"][o]
    BY <1>13, PruneTakes DEF Archive!Prune, Fewer
  <2>2. copy' \in CopyJob /\ copy'.todo = {}
    BY <2>1 DEF Archive!NoCopy, CopyJob
  <2>3. QED
    BY <1>1, <1>3, <2>1, <2>2 DEF InfoOf, Holds
<1>14. CASE Archive!KillCopy
  <2>1. info' = info /\ copy' = Archive!NoCopy /\ lost' = lost /\ store' = store
    BY <1>14 DEF Archive!KillCopy
  <2>2. copy' \in CopyJob /\ copy'.todo = {}
    BY <2>1 DEF Archive!NoCopy, CopyJob
  <2>3. QED
    BY <1>1, <2>1, <2>2 DEF InfoOf, Holds
<1>15. QED
  BY <1>5, <1>6, <1>7, <1>8, <1>9, <1>10, <1>11, <1>12, <1>13, <1>14 DEF Archive!Next

THEOREM ArchiveHolds == Archive!Spec => []ArchiveInv
<1>1. ArchiveInv /\ [Archive!Next]_(Archive!vars) => ArchiveInv'
  <2>1. CASE UNCHANGED Archive!vars
    BY <2>1 DEF Archive!vars, ArchiveInv, ServerInv, HoldingInv, InfoInv, Holds
  <2>2. QED
    BY <2>1, ServerHolds, HoldingHolds, InfoHolds DEF ArchiveInv
<1>2. QED
  BY <1>1, ArchiveStarts, PTL DEF Archive!Spec

\* No backup.info arrives on the replica, done, before its data and its end segment, but of
\* a run in which a call failed, or after an object was lost.
THEOREM CopiesAnnounceWholes == Spec => AnnouncedWhole
<1>1. ArchiveInv /\ [Archive!Next]_(Archive!vars)
        => [\A b \in Ids :
              store["replica"][Archive!Info(b)] = "absent" /\ store'["replica"][Archive!Info(b)] # "absent"
                => info[b].status # "DONE" \/ Archive!Whole("replica", b) \/ copy.blind \/ storeFaults' < storeFaults
                   \/ lost]_(Archive!vars)
  <2> SUFFICES ASSUME ArchiveInv, Archive!Next, NEW b \in Ids, info[b].status = "DONE", ~copy.blind, ~lost,
                      ~(storeFaults' < storeFaults),
                      store["replica"][Archive!Info(b)] = "absent", store'["replica"][Archive!Info(b)] # "absent"
               PROVE  Archive!Whole("replica", b)
    BY DEF Archive!vars
  <2> DEFINE announced == Archive!Info(b)
  <2>1. announced \in Archive!Objects /\ HoldingInv /\ InfoInv
    BY ObjectsApart DEF ArchiveInv
  <2>2. Archive!CopyNext
    <3>1. ~Archive!ArchiveWal
      BY <2>1, ArchiveWalPuts
    <3>2. ~Archive!EndBackup
      BY <2>1, EndBackupPuts
    <3>3. ~Archive!Retain /\ ~Archive!Prune
      BY <2>1, RetainTakes, PruneTakes DEF Fewer
    <3>4. ~Archive!Lose
      BY <2>1, LoseTakes
    <3>5. store' # store
      OBVIOUS
    <3>6. QED
      BY <3>1, <3>2, <3>3, <3>4, <3>5 DEF Archive!Next, Archive!StartBackup, Archive!Age, Archive!List,
         Archive!KillCopy
  <2>3. PICK o \in copy.todo :
          /\ o \in Archive!Objects
          /\ \A p \in Archive!Objects \ {o} : store'["replica"][p] = store["replica"][p]
          /\ store'["replica"][o] \in {store["replica"][o], store["primary"][o]}
          /\ Archive!IsInfo(o) => \A p \in copy.todo : Archive!IsInfo(p)
          /\ Archive!Waits(o, TRUE) => store'["replica"][o] = store["replica"][o]
    BY <2>2, CopyNextPuts
  <2>4. /\ o = announced /\ store["primary"][announced] # "absent" /\ ~Archive!Waits(announced, TRUE)
        /\ \A p \in copy.todo : Archive!IsInfo(p)
    <3>1. o = announced
      BY <2>1, <2>3
    <3>2. Archive!IsInfo(o)
      BY <3>1, ObjectsApart
    <3>3. store'["replica"][announced] = store["primary"][announced] /\ ~Archive!Waits(announced, TRUE)
      BY <2>3, <3>1
    <3>4. QED
      BY <2>3, <3>1, <3>2, <3>3
  <2>5. store["primary"][announced] = "good"
    BY <2>1, <2>4 DEF HoldingInv
  <2>6. store["replica"][Archive!Wal(info[b].tl, info[b].end)] # "absent"
    BY <2>4, <2>5, ObjectsApart DEF Archive!Waits, Archive!Info
  <2>7. store["replica"][Archive!Data(b)] # "absent"
    <3>1. Archive!Data(b) \notin copy.todo
      BY <2>4, ObjectsApart
    <3>2. QED
      BY <2>1, <2>3, <2>4, <3>1 DEF InfoInv, Holds
  <2>8. QED
    BY <2>6, <2>7 DEF Archive!Whole
<1>2. QED
  BY <1>1, ArchiveAlone, ArchiveHolds, PTL DEF Archive!Spec, AnnouncedWhole, Archive!AnnouncedWhole

-----------------------------------------------------------------------------
(* What a verdict on the two stores says of them.                          *)

Three == {"1", "0", "skip"}

\* A dataset that is published as ok had a pass of this cluster on both stores, or a skip on both.
LEMMA OkIsOfBoth ==
  ASSUME NEW this, \A s \in Archive!Stores : this[s] \in Three, Archive!Published(this) = "1"
  PROVE  \E st \in {"1", "skip"} : \A s \in Archive!Stores : this[s] = st
<1> DEFINE row(s) == [ds |-> "cnpg", of |-> "this", s |-> s, age |-> Archive!Unknown, st |-> this[s]]
           rows == Archive!CnpgRows(this)
           judged == Archive!Judged(rows, Archive!NothingIntact)
<1>1. \A s \in Archive!Stores : row(s) \in rows
  BY DEF Archive!CnpgRows
<1>2. \A r \in judged : r.ds = "cnpg" => r.st = "1"
  BY DEF Archive!Published, Archive!Ok, Archive!Passed
<1>3. \A r \in Archive!PromoteMissing(rows) : r.ds = "cnpg" /\ r.st # "skip" => r \in judged
  BY DEF Archive!Judged
<1> HIDE DEF rows, judged
<1>4. ASSUME NEW s \in Archive!Stores, this[s] = "0" PROVE FALSE
  <2>1. row(s) \in Archive!PromoteMissing(rows)
    BY <1>1, <1>4 DEF Archive!PromoteMissing
  <2>2. row(s).ds = "cnpg" /\ row(s).st = "0"
    BY <1>4
  <2>3. QED
    BY <1>2, <1>3, <2>1, <2>2
<1>5. ASSUME NEW s \in Archive!Stores, NEW t \in Archive!Stores, this[s] = "skip", this[t] = "1" PROVE FALSE
  <2>1. row(s) \in rows /\ row(t) \in rows
    BY <1>1
  <2>2. row(t).ds = row(s).ds /\ row(t).of = row(s).of /\ row(t).st = "1" /\ row(s).st = "skip"
    BY <1>5
  <2>3. [row(s) EXCEPT !.st = "0"] \in Archive!PromoteMissing(rows)
    BY <2>1, <2>2 DEF Archive!PromoteMissing
  <2>4. [row(s) EXCEPT !.st = "0"].ds = "cnpg" /\ [row(s) EXCEPT !.st = "0"].st = "0"
    OBVIOUS
  <2>5. QED
    BY <1>2, <1>3, <2>3, <2>4
<1>6. QED
  BY <1>4, <1>5 DEF Three, Archive!Stores

\* A store that is verified restores, but for a segment no sample reads; one without a
\* completed backup is all that is skipped.
LEMMA VerdictIsOfTheStore ==
  ASSUME ArchiveInv, NEW s \in {"primary", "replica"}, NEW y \in BOOLEAN
  PROVE  /\ Archive!Status(s, y) \in Three
         /\ Archive!Status(s, y) = "1" => Archive!Restorable(Archive!Archive(s)) \/ Archive!Unseen(Archive!Archive(s))
         /\ Archive!Status(s, y) = "skip" => Archive!Done(Archive!Archive(s)) = {}
<1> DEFINE a == Archive!Archive(s)
           c == [a EXCEPT !.young = y]
<1>1. /\ a.obj = store[s] /\ a.info = info /\ c.obj = store[s] /\ c.info = info /\ c.young = y
      /\ Archive!Status(s, y) = Archive!CheckCluster(c)
  BY DEF Archive!Archive, Archive!Status
<1> HIDE DEF a, c
<1>2. Archive!Done(c) = Archive!Done(a)
  BY <1>1 DEF Archive!Done
<1>3. \A t : Archive!Mine(c, t) = Archive!Mine(a, t)
  BY <1>1 DEF Archive!Mine, Archive!Has
<1>4. \A t, i : Archive!Sampled(c, t, i) = Archive!Sampled(a, t, i)
  <2> TAKE t, i
  <2> DEFINE sampled(mine) ==
               LET rank(n) == Archive!Cardinality({m \in mine : m < n})
                   size == Archive!Cardinality(mine) \div SampleWals
                   step == IF size > 1 THEN size ELSE 1
               IN {i.begin, i.end, Archive!Max(mine)}
                  \cup {n \in mine : rank(n) % step = 0 /\ rank(n) \div step < SampleWals}
  <2>1. Archive!Sampled(c, t, i) = sampled(Archive!Mine(c, t)) /\ Archive!Sampled(a, t, i) = sampled(Archive!Mine(a, t))
    BY Zenon DEF Archive!Sampled
  <2> HIDE DEF sampled
  <2>2. QED
    BY <1>3, <2>1, Zenon
<1>5. Archive!CheckCluster(c) \in Three /\ (Archive!CheckCluster(c) = "skip" => Archive!Done(c) = {})
  BY DEF Archive!CheckCluster, Three
<1>6. ASSUME Archive!CheckCluster(c) = "1" PROVE Archive!Restorable(a) \/ Archive!Unseen(a)
  <2> DEFINE b == Archive!Max(Archive!Done(a))
  <2>1. Archive!Done(a) # {} /\ store[s][Archive!Data(b)] = "good" /\ Archive!WalContinuous(c, info[b])
    BY <1>1, <1>2, <1>6 DEF Archive!CheckCluster
  <2>2. b \in Archive!Done(a)
    <3>1. Archive!Done(a) \subseteq Nat /\ \A d \in Archive!Done(a) : d \in Ids /\ info[d].status = "DONE"
      BY <1>1, StoreTimes DEF Archive!Done
    <3>2. \E k \in Nat : \A d \in Archive!Done(a) : d <= k
      BY <3>1 DEF ArchiveInv, ServerInv
    <3>3. QED
      BY <2>1, <3>1, <3>2, GreatestIs
  <2> HIDE DEF b
  <2> DEFINE i == info[b]
             mine == Archive!Mine(a, i.tl)
             top == Archive!Max(mine)
  <2>3. /\ b \in Ids /\ i.tl \in Timelines /\ i.begin \in Segments /\ i.end \in Segments /\ i.begin <= i.end
        /\ a.info[b] = i
    BY <1>1, <2>2 DEF Archive!Done, ArchiveInv, ServerInv
  <2>4. /\ mine # {} /\ top >= i.end
        /\ \A n \in i.begin..top : n \in mine /\ store[s][Archive!Wal(i.tl, n)] # "empty"
        /\ \A n \in Archive!Sampled(a, i.tl, i) \cap mine : store[s][Archive!Wal(i.tl, n)] # "corrupt"
    BY <1>1, <1>3, <1>4, <2>1 DEF Archive!WalContinuous
  <2>5. \A n \in mine : n \in Segments /\ n \in Nat /\ store[s][Archive!Wal(i.tl, n)] # "absent"
    BY <1>1, StoreTimes DEF Archive!Mine, Archive!Has
  <2>6. top \in Nat
    <3>1. mine \subseteq Nat /\ server.n \in Nat
      BY <2>5 DEF ArchiveInv, ServerInv, Server
    <3>2. \A n \in mine : n <= server.n
      BY <2>3, <2>5, <3>1 DEF ArchiveInv, HoldingInv, Holds
    <3>3. QED
      BY <2>4, <3>1, <3>2, GreatestIs
  <2> HIDE DEF i, mine, top
  <2>7. \A n \in i.begin..i.end : n \in i.begin..top /\ n \in mine
    BY <2>3, <2>4, <2>6, StoreTimes
  <2>8. CASE \E n \in i.begin..i.end : store[s][Archive!Wal(i.tl, n)] = "corrupt"
    <3>1. PICK n \in i.begin..i.end : store[s][Archive!Wal(i.tl, n)] = "corrupt"
      BY <2>8
    <3>2. n \in Segments /\ n \notin Archive!Sampled(a, i.tl, i)
      BY <2>4, <2>5, <2>7, <3>1
    <3>3. QED
      BY <1>1, <2>2, <2>3, <3>1, <3>2 DEF Archive!Unseen, i
  <2>9. CASE \A n \in i.begin..i.end : store[s][Archive!Wal(i.tl, n)] # "corrupt"
    <3>1. \A n \in i.begin..i.end : store[s][Archive!Wal(i.tl, n)] = "good"
      <4> TAKE n \in i.begin..i.end
      <4>1. /\ n \in Segments /\ store[s][Archive!Wal(i.tl, n)] # "absent" /\ store[s][Archive!Wal(i.tl, n)] # "empty"
            /\ store[s][Archive!Wal(i.tl, n)] # "corrupt"
        BY <2>4, <2>5, <2>7, <2>9
      <4>2. store[s][Archive!Wal(i.tl, n)] \in Archive!Contents
        BY <2>3, <4>1, ObjectsApart DEF ArchiveInv, HoldingInv, Holding
      <4>3. QED
        BY <4>1, <4>2 DEF Archive!Contents
    <3>2. i.end \in Archive!Replayed(a, b)
      BY <1>1, <2>3, <3>1, StoreTimes DEF Archive!Replayed
    <3>3. QED
      BY <1>1, <2>1, <2>2, <2>3, <3>2 DEF Archive!Restorable
  <2>10. QED
    BY <2>8, <2>9
<1>7. QED
  BY <1>1, <1>2, <1>5, <1>6 DEF a

\* The dataset cnpg is published as ok only when the archive restores from either store,
\* whatever was lost, damaged, retained or half copied - but for a corrupt segment out of
\* the sample, and for an archive neither store has a completed backup of.
THEOREM GreenIsRestorable == Spec => []GreenMeansRestorable
<1>1. ArchiveInv => GreenMeansRestorable
  <2> SUFFICES ASSUME ArchiveInv, NEW this \in Archive!Statuses, Archive!Published(this) = "1"
               PROVE  \/ \A s \in Archive!Stores : Archive!Restorable(Archive!Archive(s)) \/ Archive!Unseen(Archive!Archive(s))
                      \/ \A s \in Archive!Stores : Archive!Done(Archive!Archive(s)) = {}
    BY DEF GreenMeansRestorable, Archive!GreenMeansRestorable
  <2>1. \A s \in Archive!Stores : \E y \in BOOLEAN : this[s] = Archive!Status(s, y) \/ this[s] = "0"
    BY DEF Archive!Statuses, Archive!Stores
  <2>2. Archive!Stores = {"primary", "replica"}
    BY DEF Archive!Stores
  <2>3. \A s \in Archive!Stores : this[s] \in Three
    BY <2>1, <2>2, VerdictIsOfTheStore DEF Three
  <2>4. PICK st \in {"1", "skip"} : \A s \in Archive!Stores : this[s] = st
    BY <2>3, OkIsOfBoth
  <2>5. \A s \in Archive!Stores : \E y \in BOOLEAN : st = Archive!Status(s, y)
    BY <2>1, <2>4
  <2>6. CASE st = "1"
    BY <2>2, <2>5, <2>6, VerdictIsOfTheStore
  <2>7. CASE st = "skip"
    BY <2>2, <2>5, <2>7, VerdictIsOfTheStore
  <2>8. QED
    BY <2>6, <2>7
<1>2. QED
  BY <1>1, ArchiveAlone, ArchiveHolds, PTL
=============================================================================
