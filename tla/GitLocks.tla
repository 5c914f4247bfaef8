------------------------------ MODULE GitLocks ------------------------------
(***************************************************************************)
(* The stale git locks of the forge: two cleaners, one script              *)
(* (apps/base/forgejo/helmrelease.yaml), on the volume pushes write to,    *)
(* and the test that pins their configuration and runs the script on a     *)
(* tree (src/scripts/dev/test-forgejo-brick.py: cleaner_problems,          *)
(* cleaner_script_problems).  The configuration that runs is any one that  *)
(* test accepts.                                                           *)
(*                                                                         *)
(* A lock is named by its class: the lock of a branch ("ref") and that of  *)
(* packed-refs ("packed") stand for the classes the script removes.  Time  *)
(* is counted in units, ages stop at MaxAge.  git and Kubernetes are       *)
(* external: git ends after GitTimeout ([git.timeout] DEFAULT), a process  *)
(* killed leaves its locks, the containers of a pod that is gone write     *)
(* nothing (the volume is ReadWriteOnce).  Left out: what is logged, the   *)
(* fields of the two containers no step depends on, the exit status.       *)
(***************************************************************************)
EXTENDS Integers, FiniteSets, TLAPS

CONSTANTS
    GitTimeout,             \* 360 s
    SafeAge,                \* 10 minutes: the least age the sweeper may have
    FreshAge, OldAge,       \* 3 and 20 minutes: the locks in the test's tree
    MaxAge, MaxFaults       \* bounds

VARIABLES
    conf,       \* the two cleaners as configured
    pods,       \* pods[p]: "none", "init" (the first container runs) or "run"
    lock,       \* lock[l]: <<>> or <<the pod whose git holds it, or 0, its age>>
    pass,       \* pass[p]: the pass of the cleaner of pod p: what it has not looked at, what it is about to remove
    faults

vars == <<conf, pods, lock, pass, faults>>

ASSUME TimesAssumption ==
    /\ {GitTimeout, SafeAge, FreshAge, OldAge, MaxAge, MaxFaults} \subseteq Nat
    /\ FreshAge < SafeAge /\ GitTimeout < SafeAge /\ SafeAge < OldAge /\ OldAge <= MaxAge

Pods == {1, 2}
Locks == {"ref", "packed"}
Classes == Locks \cup {"index", "object", "stray"}
Cleaners == {"init", "sweep"}
NoNumber == 0 - 1     \* a setting that is not made of digits

-----------------------------------------------------------------------------
(* The script.  What it does of what it should is a record: the classes it  *)
(* takes; whether it looks at the age, takes regular files only, refuses a  *)
(* setting that is no number, looks again, and ends on TERM.                *)

Scripts == [takes : {Locks, Locks \ {"packed"}, Locks \cup {"index"}, Locks \cup {"object"}, Classes},
            aged : BOOLEAN, regular : BOOLEAN, numeric : BOOLEAN, again : BOOLEAN, stops : BOOLEAN]

\* "[ ten -gt 0 ]" is an error, hence no age limit.
Limit(script, min) == IF script.aged /\ min > 0 THEN min ELSE 0
Runs(script, min, every) == script.numeric => min # NoNumber /\ every # NoNumber
Old(script, min, age) == Limit(script, min) > 0 => age > Limit(script, min)

\* One pass over a tree: the files that are gone.
Removed(script, min, tree) ==
    IF ~Runs(script, min, 0) THEN {}
    ELSE {f \in tree : f.class \in script.takes /\ (script.regular => f.type = "file") /\ Old(script, min, f.age)}

File(class, age, type) == [class |-> class, age |-> age, type |-> type]
OldLocks == {File(l, OldAge, "file") : l \in Locks}
Fresh == File("ref", FreshAge, "file")
Kept == {File(c, OldAge, "file") : c \in Classes \ Locks} \cup {File("ref", OldAge, "link"), File("ref", OldAge, "dir")}

\* Mutant: one old lock that goes is enough.
ScriptProblemsSome(script, min, kind) ==
    LET gone == Removed(script, min, OldLocks \cup Kept \cup {Fresh})
    IN  \/ OldLocks \cap gone = {} \/ gone \cap Kept # {} \/ (Fresh \in gone) # (kind = "init")
        \/ Fresh \in Removed(script, NoNumber, {Fresh})
        \/ kind = "sweep" /\ ~(script.again /\ script.stops)

\* cleaner_script_problems
ScriptProblems(script, min, kind) ==
    LET gone == Removed(script, min, OldLocks \cup Kept \cup {Fresh})
    IN  \/ ~(OldLocks \subseteq gone) \/ gone \cap Kept # {}
        \/ (Fresh \in gone) # (kind = "init")
        \/ Fresh \in Removed(script, NoNumber, {Fresh})
        \/ kind = "sweep" /\ ~(script.again /\ script.stops)

-----------------------------------------------------------------------------
(* The configuration: for each cleaner whether its patch is there, its      *)
(* script, its two settings and whether its root is the directory of the    *)
(* repositories; the strategy of the Deployment, and whether Flux           *)
(* substitutes variables in the manifest, the script's own with it.         *)

Settings == [min : {NoNumber} \cup (0..OldAge), every : {NoNumber, 0, 1}, rooted : BOOLEAN, present : BOOLEAN]

\* Mutant: a sweeper may take what is older than the fresh lock of the test's tree.
AgeProblemsFresh(s) == s.init.min # 0 \/ s.init.every # 0 \/ s.sweep.min < FreshAge \/ s.sweep.every # 1
\* The ages the two cleaners may have.
AgeProblems(s) == s.init.min # 0 \/ s.init.every # 0 \/ s.sweep.min < SafeAge \/ s.sweep.every # 1

\* Mutant: the strategy is not looked at.
AnyStrategy(c) == FALSE
StrategyProblems(c) == c.strategy # "Recreate"

\* cleaner_problems
Problems(c) ==
    \/ \E k \in Cleaners : ~c.settings[k].present \/ ~c.settings[k].rooted
    \/ AgeProblems(c.settings)
    \/ c.substituted
    \/ c.script.init # c.script.sweep
    \/ StrategyProblems(c)
    \/ \E k \in Cleaners : ScriptProblems(c.script[k], c.settings[k].min, k)

Accepted ==
    UNION {LET fit(k) == {s \in Scripts : ~ScriptProblems(s, settings[k].min, k)}
           IN  {c \in [settings : {settings}, script : [init : fit("init"), sweep : fit("sweep")],
                       strategy : {"Recreate", "RollingUpdate"}, substituted : BOOLEAN] : ~Problems(c)} :
             settings \in {s \in [init : Settings, sweep : Settings] : ~AgeProblems(s)}}

\* ${LOCK_MIN_AGE_MIN:-0}, ${SWEEP_EVERY_S:-0}: what Flux substitutes is the default.
Setting(k, name) == IF conf.substituted THEN 0 ELSE conf.settings[k][name]
Cleans(k) ==
    /\ conf.settings[k].present /\ conf.settings[k].rooted
    /\ Runs(conf.script[k], Setting(k, "min"), Setting(k, "every"))

-----------------------------------------------------------------------------
Asleep == [todo |-> {}, doomed |-> {}]
Walk(k) == [todo |-> IF Cleans(k) THEN conf.script[k].takes \cap Locks ELSE {}, doomed |-> {}]

Kind(p) == IF pods[p] = "init" THEN "init" ELSE "sweep"
Live(l) == lock[l] # <<>> /\ lock[l][1] # 0
Stale(l) == lock[l] # <<>> /\ lock[l][1] = 0
\* The git processes of a pod die; their locks stay.
Orphaned(p) == [l \in Locks |-> IF lock[l] # <<>> /\ lock[l][1] = p THEN <<0, lock[l][2]>> ELSE lock[l]]

Init ==
    /\ conf \in Accepted
    /\ pods = [p \in Pods |-> "none"]
    /\ lock = [l \in Locks |-> <<>>]
    /\ pass = [p \in Pods |-> Asleep]
    /\ faults = 0

\* The Deployment starts a pod: with Recreate, once there is none; its first container cleans.
Start(p) ==
    /\ pods[p] = "none"
    /\ conf.strategy = "Recreate" => \A q \in Pods : pods[q] = "none"
    /\ pods' = [pods EXCEPT ![p] = "init"]
    /\ pass' = [pass EXCEPT ![p] = Walk("init")]
    /\ UNCHANGED <<conf, lock, faults>>

\* The next file find lists is there, and of an age: it will be removed.
Look(p, l) ==
    /\ l \in pass[p].todo /\ pass[p].doomed = {}
    /\ LET taken == lock[l] # <<>> /\ Old(conf.script[Kind(p)], Setting(Kind(p), "min"), lock[l][2])
       IN  pass' = [pass EXCEPT ![p] = [todo |-> @.todo \ {l}, doomed |-> IF taken THEN {l} ELSE {}]]
    /\ UNCHANGED <<conf, pods, lock, faults>>

\* rm -f, of whatever has that name by now.
Remove(p, l) ==
    /\ l \in pass[p].doomed
    /\ lock' = [lock EXCEPT ![l] = <<>>]
    /\ pass' = [pass EXCEPT ![p].doomed = {}]
    /\ UNCHANGED <<conf, pods, faults>>

RemoveFails(p, l) ==
    /\ l \in pass[p].doomed /\ faults < MaxFaults
    /\ pass' = [pass EXCEPT ![p].doomed = {}]
    /\ faults' = faults + 1
    /\ UNCHANGED <<conf, pods, lock>>

\* The first container ends: the forge and the sweeper start, which begins with a pass.
Begin(p) ==
    /\ pods[p] = "init" /\ pass[p] = Asleep
    /\ pods' = [pods EXCEPT ![p] = "run"]
    /\ pass' = [pass EXCEPT ![p] = Walk("sweep")]
    /\ UNCHANGED <<conf, lock, faults>>

\* sleep "$EVERY" & wait $!; sweep
Again(p) ==
    /\ pods[p] = "run" /\ pass[p] = Asleep
    /\ conf.script.sweep.again /\ Setting("sweep", "every") = 1
    /\ pass' = [pass EXCEPT ![p] = Walk("sweep")]
    /\ UNCHANGED <<conf, pods, lock, faults>>

\* A push takes a lock, and ends.
Push(p, l) ==
    /\ pods[p] = "run" /\ lock[l] = <<>>
    /\ lock' = [lock EXCEPT ![l] = <<p, 0>>]
    /\ UNCHANGED <<conf, pods, pass, faults>>
Pushed(l) ==
    /\ Live(l)
    /\ lock' = [lock EXCEPT ![l] = <<>>]
    /\ UNCHANGED <<conf, pods, pass, faults>>

\* Forgejo kills a git command that takes too long.
GitKilled(l) ==
    /\ Live(l) /\ lock[l][2] >= GitTimeout
    /\ lock' = [lock EXCEPT ![l] = <<0, @[2]>>]
    /\ UNCHANGED <<conf, pods, pass, faults>>

\* Only the main container restarts; the pod is gone, its node with it perhaps; the sweeper restarts.
MainRestarts(p) ==
    /\ pods[p] = "run" /\ faults < MaxFaults
    /\ lock' = Orphaned(p) /\ faults' = faults + 1
    /\ UNCHANGED <<conf, pods, pass>>
PodGone(p) ==
    /\ pods[p] # "none" /\ faults < MaxFaults
    /\ pods' = [pods EXCEPT ![p] = "none"]
    /\ pass' = [pass EXCEPT ![p] = Asleep]
    /\ lock' = Orphaned(p) /\ faults' = faults + 1
    /\ UNCHANGED conf
CleanerRestarts(p) ==
    /\ pods[p] # "none" /\ faults < MaxFaults
    /\ pass' = [pass EXCEPT ![p] = Walk(Kind(p))]
    /\ faults' = faults + 1
    /\ UNCHANGED <<conf, pods, lock>>

Tick ==
    /\ \A l \in Locks : Live(l) => lock[l][2] < GitTimeout
    /\ \E l \in Locks : lock[l] # <<>> /\ lock[l][2] < MaxAge
    /\ lock' = [l \in Locks |-> IF lock[l] = <<>> \/ lock[l][2] = MaxAge THEN lock[l] ELSE <<lock[l][1], lock[l][2] + 1>>]
    /\ UNCHANGED <<conf, pods, pass, faults>>

Clean(p) == Begin(p) \/ Again(p) \/ \E l \in Locks : Look(p, l) \/ Remove(p, l)
Next ==
    \/ \E p \in Pods :
         \/ Start(p) \/ Begin(p) \/ Again(p) \/ MainRestarts(p) \/ PodGone(p) \/ CleanerRestarts(p)
         \/ \E l \in Locks : Look(p, l) \/ Remove(p, l) \/ RemoveFails(p, l) \/ Push(p, l)
    \/ \E l \in Locks : Pushed(l) \/ GitKilled(l)
    \/ Tick

\* The Deployment restarts its pod, the cleaners and the clock go on, and Forgejo kills the git command whose
\* time is up.  Pushes owe nothing.
Spec == /\ Init /\ [][Next]_vars
        /\ WF_vars(\E p \in Pods : Start(p)) /\ WF_vars(Tick)
        /\ \A p \in Pods : WF_vars(Clean(p))
        /\ \A l \in Locks : WF_vars(GitKilled(l))
-----------------------------------------------------------------------------
\* No cleaner removes the lock of a git process that runs, whatever happens between its look at the
\* age and its rm: only the process itself gives up such a lock.  "A running forge CAN hold a live lock,
\* so this one never removes a young one" (helmrelease.yaml), for every configuration the test accepts.
LiveLockKept == [][\A l \in Locks : Live(l) /\ lock'[l] = <<>> => pass' = pass]_vars

\* A lock nobody holds goes, whichever part of the forge died and whichever restarted: no branch is
\* blocked "for good" (helmrelease.yaml).
StaleLockGoes == \A l \in Locks : Stale(l) ~> lock[l] = <<>>

-----------------------------------------------------------------------------
(* The proof.  The configuration of the sweeper and the single pod of       *)
(* Recreate make a lock that is about to be removed a stale one: what the   *)
(* first container finds is stale as no git runs yet, what the sweeper      *)
(* finds is older than any git gets.  A stale lock stays stale until it is  *)
(* removed, and only the one cleaner there is removes it.                   *)

ConfInv ==
    /\ conf.strategy = "Recreate" /\ ~conf.substituted
    /\ conf.settings["sweep"].min \in Nat /\ conf.settings["sweep"].min >= SafeAge
    /\ conf.script["sweep"].aged
PodsInv ==
    /\ pods \in [Pods -> {"none", "init", "run"}]
    /\ \A p, q \in Pods : pods[p] # "none" /\ pods[q] # "none" => p = q
\* A git that runs is one of the pod that runs, and its time is not up.
Held == ({0} \cup Pods) \X Nat
LockInv ==
    /\ lock \in [Locks -> {<<>>} \cup Held]
    /\ \A l \in Locks : Live(l) => pods[lock[l][1]] = "run" /\ lock[l][2] <= GitTimeout
PassInv ==
    /\ pass \in [Pods -> [todo : SUBSET Locks, doomed : SUBSET Locks]]
    /\ \A p \in Pods : /\ \A l \in pass[p].doomed : Stale(l)
                       /\ pods[p] = "none" => pass[p].todo = {} /\ pass[p].doomed = {}
LocksInv == ConfInv /\ PodsInv /\ LockInv /\ PassInv

LEMMA TimesAre == GitTimeout \in Nat /\ SafeAge \in Nat /\ FreshAge \in Nat /\ GitTimeout < SafeAge
<1>1. {GitTimeout, SafeAge, FreshAge, OldAge, MaxAge, MaxFaults} \subseteq Nat /\ GitTimeout < SafeAge
  BY TimesAssumption
<1>2. QED
  BY <1>1

\* A lock that is held has a holder and an age, one that is free has not.
LEMMA HeldIs ==
  /\ \A x \in Held : x # <<>> /\ x[1] \in {0} \cup Pods /\ x[2] \in Nat
  /\ \A h \in {0} \cup Pods, a \in Nat : <<h, a>> \in Held /\ <<h, a>>[1] = h /\ <<h, a>>[2] = a
BY DEF Held

\* What the test accepts: the sweeper takes nothing that is younger than SafeAge.
LEMMA AcceptedIsSafe == conf \in Accepted => ConfInv
<1> SUFFICES ASSUME conf \in Accepted PROVE ConfInv
  OBVIOUS
<1>1. /\ conf.settings \in [init : Settings, sweep : Settings] /\ conf.script["sweep"] \in Scripts /\ ~Problems(conf)
  BY DEF Accepted
<1>2. /\ conf.strategy = "Recreate" /\ ~conf.substituted /\ ~AgeProblems(conf.settings)
      /\ ~ScriptProblems(conf.script["sweep"], conf.settings["sweep"].min, "sweep")
  BY <1>1 DEF Problems, StrategyProblems, Cleaners
<1> DEFINE script == conf.script["sweep"]
           min == conf.settings["sweep"].min
<1>3. min \in Nat /\ min >= SafeAge
  <2>1. min \in {NoNumber} \cup (0..OldAge) /\ ~(min < SafeAge)
    BY <1>1, <1>2 DEF Settings, AgeProblems
  <2>2. min # NoNumber
    BY <2>1, TimesAre DEF NoNumber
  <2>3. QED
    BY <2>1, <2>2, TimesAre, TimesAssumption
<1> HIDE DEF script, min
<1>4. script.aged
  <2> SUFFICES ASSUME ~script.aged PROVE FALSE
    OBVIOUS
  <2> DEFINE tree == OldLocks \cup Kept \cup {Fresh}
  <2>1. /\ OldLocks \subseteq Removed(script, min, tree) /\ Fresh \notin Removed(script, min, tree)
    BY <1>2 DEF ScriptProblems, script, min
  <2>2. Runs(script, min, 0)
    <3>1. min # NoNumber /\ 0 # NoNumber
      BY <1>3 DEF NoNumber
    <3>2. QED
      BY <3>1 DEF Runs
  <2>3. Fresh.class \in script.takes /\ Fresh.type = "file" /\ Fresh \in tree
    BY <1>1 DEF Scripts, Locks, Classes, Fresh, File, script
  <2>4. Old(script, min, Fresh.age)
    BY DEF Old, Limit
  <2>5. QED
    BY <2>1, <2>2, <2>3, <2>4 DEF Removed
<1>5. QED
  BY <1>2, <1>3, <1>4 DEF ConfInv, script, min

LEMMA LocksStart == Init => LocksInv
<1> SUFFICES ASSUME Init PROVE LocksInv
  OBVIOUS
<1>1. ConfInv
  BY AcceptedIsSafe DEF Init
<1>2. /\ pods = [p \in Pods |-> "none"] /\ lock = [l \in Locks |-> <<>>] /\ pass = [p \in Pods |-> Asleep]
  BY DEF Init
<1>3. PodsInv
  BY <1>2 DEF PodsInv
<1>4. LockInv
  BY <1>2 DEF LockInv, Live
<1>5. PassInv
  BY <1>2 DEF PassInv, Asleep
<1>6. QED
  BY <1>1, <1>3, <1>4, <1>5 DEF LocksInv

\* A pass begins with nothing to remove.
LEMMA WalksAre == \A k : Walk(k) \in [todo : SUBSET Locks, doomed : SUBSET Locks] /\ Walk(k).doomed = {}
BY DEF Walk

LEMMA AsleepIs == Asleep \in [todo : SUBSET Locks, doomed : SUBSET Locks] /\ Asleep.doomed = {} /\ Asleep.todo = {}
BY DEF Asleep

\* The locks of a pod that is gone are stale; the others are what they were.
LEMMA OrphanedIs ==
  ASSUME LockInv, NEW p \in Pods, lock' = Orphaned(p)
  PROVE  /\ lock' \in [Locks -> {<<>>} \cup Held]
         /\ \A l \in Locks : /\ Stale(l) => Stale(l)'
                             /\ Live(l)' => lock'[l] = lock[l] /\ lock[l][1] # p
                             /\ lock[l] # <<>> => lock'[l] # <<>>
<1> SUFFICES ASSUME NEW l \in Locks
             PROVE  /\ lock'[l] \in {<<>>} \cup Held
                    /\ Stale(l) => Stale(l)'
                    /\ Live(l)' => lock'[l] = lock[l] /\ lock[l][1] # p
                    /\ lock[l] # <<>> => lock'[l] # <<>>
  BY DEF Orphaned
<1>1. lock[l] \in {<<>>} \cup Held /\ p # 0
  BY DEF LockInv, Pods
<1>2. CASE lock[l] # <<>> /\ lock[l][1] = p
  <2>1. lock'[l] = <<0, lock[l][2]>> /\ lock[l][2] \in Nat
    BY <1>1, <1>2, HeldIs DEF Orphaned
  <2>2. lock'[l] \in Held /\ lock'[l][1] = 0 /\ lock'[l] # <<>>
    BY <2>1, HeldIs
  <2>3. QED
    BY <1>1, <1>2, <2>2 DEF Stale, Live
<1>3. CASE ~(lock[l] # <<>> /\ lock[l][1] = p)
  <2>1. lock'[l] = lock[l]
    BY <1>3 DEF Orphaned
  <2>2. QED
    BY <1>1, <1>3, <2>1 DEF Stale, Live
<1>4. QED
  BY <1>2, <1>3

LEMMA PodStep ==
  ASSUME LocksInv, NEW p \in Pods, Start(p) \/ Begin(p) \/ Again(p) \/ MainRestarts(p) \/ PodGone(p) \/ CleanerRestarts(p)
  PROVE  LocksInv' /\ \A l \in Locks : lock[l] # <<>> => lock'[l] # <<>>
<1>1. ConfInv /\ PodsInv /\ LockInv /\ PassInv /\ conf' = conf
  BY DEF LocksInv, Start, Begin, Again, MainRestarts, PodGone, CleanerRestarts
<1>2. ConfInv'
  BY <1>1 DEF ConfInv
<1>3. CASE Start(p)
  <2>1. \A q \in Pods : pods[q] = "none"
    BY <1>1, <1>3 DEF Start, ConfInv
  <2>2. pods' = [pods EXCEPT ![p] = "init"] /\ pass' = [pass EXCEPT ![p] = Walk("init")] /\ lock' = lock
    BY <1>3 DEF Start
  <2>3. PodsInv'
    BY <1>1, <2>1, <2>2 DEF PodsInv
  <2>4. \A l \in Locks : ~Live(l)
    BY <1>1, <2>1, HeldIs DEF LockInv, Live
  <2>5. LockInv'
    BY <1>1, <2>2, <2>4 DEF LockInv, Live
  <2>6. PassInv'
    <3>1. /\ pass' \in [Pods -> [todo : SUBSET Locks, doomed : SUBSET Locks]] /\ pass'[p].doomed = {}
          /\ \A q \in Pods \ {p} : pass'[q] = pass[q]
      BY <1>1, <2>2, WalksAre DEF PassInv
    <3>2. pods'[p] = "init" /\ \A q \in Pods \ {p} : pass[q].todo = {} /\ pass[q].doomed = {}
      BY <1>1, <2>1, <2>2 DEF PassInv, PodsInv
    <3>3. QED
      BY <3>1, <3>2 DEF PassInv
  <2>7. QED
    BY <1>2, <2>2, <2>3, <2>5, <2>6 DEF LocksInv
<1>4. CASE Begin(p)
  <2>1. pods[p] = "init" /\ pods' = [pods EXCEPT ![p] = "run"] /\ pass' = [pass EXCEPT ![p] = Walk("sweep")] /\ lock' = lock
    BY <1>4 DEF Begin
  <2>2. PodsInv'
    BY <1>1, <2>1 DEF PodsInv
  <2>3. LockInv'
    <3>1. \A l \in Locks : Live(l) => lock[l][1] \in Pods
      BY <1>1, HeldIs DEF LockInv, Live
    <3>2. QED
      BY <1>1, <2>1, <3>1 DEF LockInv, Live, PodsInv
  <2>4. PassInv'
    BY <1>1, <2>1, WalksAre DEF PassInv, PodsInv, Stale
  <2>5. QED
    BY <1>2, <2>1, <2>2, <2>3, <2>4 DEF LocksInv
<1>5. CASE Again(p) \/ CleanerRestarts(p)
  <2>1. \E k : pass' = [pass EXCEPT ![p] = Walk(k)] /\ lock' = lock /\ pods' = pods /\ pods[p] # "none"
    BY <1>5 DEF Again, CleanerRestarts
  <2>2. PassInv'
    <3>1. /\ pass' \in [Pods -> [todo : SUBSET Locks, doomed : SUBSET Locks]] /\ pass'[p].doomed = {}
          /\ \A q \in Pods \ {p} : pass'[q] = pass[q]
      BY <1>1, <2>1, WalksAre DEF PassInv
    <3>2. QED
      BY <1>1, <2>1, <3>1 DEF PassInv, Stale
  <2>3. QED
    BY <1>1, <1>2, <2>1, <2>2 DEF LocksInv, PodsInv, LockInv, Live
<1>6. CASE MainRestarts(p)
  <2>1. pods' = pods /\ pass' = pass /\ lock' = Orphaned(p)
    BY <1>6 DEF MainRestarts
  <2>2. LockInv'
    BY <1>1, <2>1, OrphanedIs DEF LockInv, Live
  <2>3. PassInv'
    BY <1>1, <2>1, OrphanedIs DEF PassInv
  <2>4. QED
    BY <1>1, <1>2, <2>1, <2>2, <2>3, OrphanedIs DEF LocksInv, PodsInv
<1>7. CASE PodGone(p)
  <2>1. pods' = [pods EXCEPT ![p] = "none"] /\ pass' = [pass EXCEPT ![p] = Asleep] /\ lock' = Orphaned(p)
    BY <1>7 DEF PodGone
  <2>2. PodsInv'
    BY <1>1, <2>1 DEF PodsInv
  <2>3. LockInv'
    <3>1. \A l \in Locks : Live(l)' => Live(l) /\ lock'[l] = lock[l] /\ lock[l][1] # p /\ lock[l][1] \in Pods
      BY <1>1, <2>1, OrphanedIs, HeldIs DEF LockInv, Live
    <3>2. QED
      BY <1>1, <2>1, <3>1, OrphanedIs DEF LockInv, PodsInv
  <2>4. PassInv'
    <3>1. \A q \in Pods : q # p => pods[q] = "none" \/ pods[p] = "none"
      BY <1>1 DEF PodsInv
    <3>2. QED
      BY <1>1, <2>1, <3>1, OrphanedIs, AsleepIs DEF PassInv, PodsInv
  <2>5. QED
    BY <1>1, <1>2, <2>1, <2>2, <2>3, <2>4, OrphanedIs DEF LocksInv
<1>8. QED
  BY <1>3, <1>4, <1>5, <1>6, <1>7

\* The next lock of a pass is only about to be removed if it is stale.
LEMMA LookStep ==
  ASSUME LocksInv, NEW p \in Pods, NEW l \in Locks, Look(p, l)
  PROVE  LocksInv'
<1>1. ConfInv /\ PodsInv /\ LockInv /\ PassInv /\ UNCHANGED <<conf, pods, lock>>
  BY DEF LocksInv, Look
<1> DEFINE k == Kind(p)
           taken == lock[l] # <<>> /\ Old(conf.script[k], Setting(k, "min"), lock[l][2])
<1>2. /\ pass' = [pass EXCEPT ![p] = [todo |-> pass[p].todo \ {l}, doomed |-> IF taken THEN {l} ELSE {}]]
      /\ pass[p] \in [todo : SUBSET Locks, doomed : SUBSET Locks]
  BY <1>1 DEF Look, PassInv
<1>3. ASSUME taken PROVE Stale(l)
  <2> SUFFICES ASSUME Live(l) PROVE FALSE
    BY <1>1, <1>3 DEF LockInv, Stale, Live
  <2>1. lock[l][1] \in Pods /\ pods[lock[l][1]] = "run" /\ lock[l][2] <= GitTimeout /\ lock[l][2] \in Nat
    BY <1>1, HeldIs DEF LockInv, Live
  <2>2. k = "sweep"
    BY <1>1, <2>1 DEF PodsInv, Kind
  <2>3. Setting("sweep", "min") = conf.settings["sweep"].min
    BY <1>1 DEF Setting, ConfInv
  <2>4. lock[l][2] > conf.settings["sweep"].min
    BY <1>1, <1>3, <2>2, <2>3, TimesAre DEF Old, Limit, ConfInv
  <2>5. QED
    BY <1>1, <2>1, <2>4, TimesAre DEF ConfInv
<1>4. pods[p] # "none"
  BY <1>1 DEF Look, PassInv
<1>5. PassInv'
  BY <1>1, <1>2, <1>3, <1>4 DEF PassInv, Stale
<1>6. QED
  BY <1>1, <1>5 DEF LocksInv, ConfInv, PodsInv, LockInv, Live

LEMMA LockStep ==
  ASSUME LocksInv, NEW l \in Locks,
         \/ \E p \in Pods : Remove(p, l) \/ RemoveFails(p, l) \/ Push(p, l)
         \/ Pushed(l) \/ GitKilled(l)
  PROVE  LocksInv'
<1>1. ConfInv /\ PodsInv /\ LockInv /\ PassInv /\ UNCHANGED <<conf, pods>>
  BY DEF LocksInv, Remove, RemoveFails, Push, Pushed, GitKilled
<1>2. lock \in [Locks -> {<<>>} \cup Held] /\ lock[l] \in {<<>>} \cup Held
  BY <1>1 DEF LockInv
<1>3. ASSUME NEW p \in Pods, RemoveFails(p, l) \/ Remove(p, l)
      PROVE  LocksInv'
  <2>1. /\ pass' = [pass EXCEPT ![p].doomed = {}] /\ l \in pass[p].doomed /\ pods[p] # "none"
        /\ lock' = lock \/ lock' = [lock EXCEPT ![l] = <<>>]
    BY <1>1, <1>3 DEF Remove, RemoveFails, PassInv
  <2>2. LockInv'
    <3>1. CASE lock' = lock
      BY <1>1, <3>1 DEF LockInv, Live
    <3>2. CASE lock' = [lock EXCEPT ![l] = <<>>]
      BY <1>1, <1>2, <3>2 DEF LockInv, Live
    <3>3. QED
      BY <2>1, <3>1, <3>2
  <2>3. pass' \in [Pods -> [todo : SUBSET Locks, doomed : SUBSET Locks]] /\ pass'[p].doomed = {}
        /\ \A q \in Pods \ {p} : pass'[q] = pass[q]
    BY <1>1, <2>1 DEF PassInv
  <2>4. \A q \in Pods \ {p} : pods[q] = "none" /\ pass'[q].doomed = {}
    BY <1>1, <2>1, <2>3 DEF PodsInv, PassInv
  <2>5. PassInv'
    BY <1>1, <2>1, <2>3, <2>4 DEF PassInv
  <2>6. QED
    BY <1>1, <2>2, <2>5 DEF LocksInv, ConfInv, PodsInv
<1>4. ASSUME NEW p \in Pods, Push(p, l)
      PROVE  LocksInv'
  <2>1. pods[p] = "run" /\ lock[l] = <<>> /\ lock' = [lock EXCEPT ![l] = <<p, 0>>] /\ pass' = pass
    BY <1>4 DEF Push
  <2>2. <<p, 0>> \in Held /\ <<p, 0>>[1] = p /\ <<p, 0>>[2] = 0
    BY HeldIs
  <2>3. LockInv'
    BY <1>1, <1>2, <2>1, <2>2, TimesAre DEF LockInv, Live
  <2>4. PassInv'
    BY <1>1, <1>2, <2>1 DEF PassInv, Stale
  <2>5. QED
    BY <1>1, <2>3, <2>4 DEF LocksInv, ConfInv, PodsInv
<1>5. CASE Pushed(l)
  <2>1. Live(l) /\ lock' = [lock EXCEPT ![l] = <<>>] /\ pass' = pass
    BY <1>5 DEF Pushed
  <2>2. LockInv'
    BY <1>1, <1>2, <2>1 DEF LockInv, Live
  <2>3. PassInv'
    BY <1>1, <1>2, <2>1 DEF PassInv, Stale, Live
  <2>4. QED
    BY <1>1, <2>2, <2>3 DEF LocksInv, ConfInv, PodsInv
<1>6. CASE GitKilled(l)
  <2>1. Live(l) /\ lock' = [lock EXCEPT ![l] = <<0, lock[l][2]>>] /\ pass' = pass /\ lock[l] \in Held
    BY <1>2, <1>6 DEF GitKilled, Live
  <2>2. <<0, lock[l][2]>> \in Held /\ <<0, lock[l][2]>>[1] = 0
    BY <2>1, HeldIs
  <2>3. LockInv'
    BY <1>1, <1>2, <2>1, <2>2 DEF LockInv, Live
  <2>4. PassInv'
    BY <1>1, <1>2, <2>1, <2>2 DEF PassInv, Stale, Live
  <2>5. QED
    BY <1>1, <2>3, <2>4 DEF LocksInv, ConfInv, PodsInv
<1>7. QED
  BY <1>3, <1>4, <1>5, <1>6

LEMMA TickStep ==
  ASSUME LocksInv, Tick
  PROVE  LocksInv' /\ \A l \in Locks : lock[l] # <<>> => lock'[l] # <<>>
<1>1. ConfInv /\ PodsInv /\ LockInv /\ PassInv /\ UNCHANGED <<conf, pods, pass>>
  BY DEF LocksInv, Tick
<1>2. lock' = [l \in Locks |-> IF lock[l] = <<>> \/ lock[l][2] = MaxAge THEN lock[l] ELSE <<lock[l][1], lock[l][2] + 1>>]
  BY DEF Tick
<1>3. \A l \in Locks : lock'[l] = lock[l] \/ (lock[l] # <<>> /\ lock'[l] = <<lock[l][1], lock[l][2] + 1>>)
  BY <1>2
<1>4. ASSUME NEW l \in Locks
      PROVE  /\ lock'[l] \in {<<>>} \cup Held
             /\ (lock'[l] = <<>>) = (lock[l] = <<>>)
             /\ lock[l] # <<>> => lock'[l][1] = lock[l][1]
             /\ Live(l)' => lock'[l][2] <= GitTimeout
  <2>1. lock[l] \in {<<>>} \cup Held
    BY <1>1 DEF LockInv
  <2>2. CASE lock'[l] = lock[l]
    BY <1>1, <2>1, <2>2 DEF LockInv, Live
  <2>3. CASE lock[l] # <<>> /\ lock'[l] = <<lock[l][1], lock[l][2] + 1>>
    <3>1. lock[l][1] \in {0} \cup Pods /\ lock[l][2] \in Nat /\ lock[l][2] + 1 \in Nat
      BY <2>1, <2>3, HeldIs
    <3>2. lock'[l] \in Held /\ lock'[l][1] = lock[l][1] /\ lock'[l][2] = lock[l][2] + 1
      <4> DEFINE holder == lock[l][1]
                 age == lock[l][2] + 1
      <4>1. lock'[l] = <<holder, age>> /\ holder \in {0} \cup Pods /\ age \in Nat
        BY <2>3, <3>1
      <4> HIDE DEF holder, age
      <4>2. <<holder, age>> \in Held /\ <<holder, age>>[1] = holder /\ <<holder, age>>[2] = age
        BY <4>1, HeldIs
      <4>3. QED
        BY <4>1, <4>2 DEF holder, age
    <3>3. Live(l)' => lock[l][2] < GitTimeout
      BY <2>3, <3>2 DEF Live, Tick
    <3>4. QED
      BY <2>3, <3>1, <3>2, <3>3, HeldIs, TimesAre
  <2>4. QED
    BY <1>3, <2>2, <2>3
<1>5. LockInv'
  BY <1>1, <1>2, <1>4 DEF LockInv, Live
<1>6. PassInv'
  BY <1>1, <1>4 DEF PassInv, Stale
<1>7. QED
  BY <1>1, <1>4, <1>5, <1>6 DEF LocksInv, ConfInv, PodsInv

\* A lock that goes is given up by its own git, or was about to be removed.
LEMMA LocksKept ==
  ASSUME LocksInv, Next
  PROVE  /\ LocksInv'
         /\ \A l \in Locks : Live(l) /\ lock'[l] = <<>> => pass' = pass
<1>1. CASE \E p \in Pods : Start(p) \/ Begin(p) \/ Again(p) \/ MainRestarts(p) \/ PodGone(p) \/ CleanerRestarts(p)
  BY <1>1, PodStep DEF Live
<1>2. CASE \E p \in Pods, l \in Locks : Look(p, l)
  BY <1>2, LookStep DEF Look, Live
<1>3. CASE \E p \in Pods, l \in Locks : Remove(p, l)
  <2>1. PICK p \in Pods, l \in Locks : Remove(p, l)
    BY <1>3
  <2>2. Stale(l) /\ \A k \in Locks \ {l} : lock'[k] = lock[k]
    BY <2>1 DEF Remove, LocksInv, PassInv, LockInv
  <2>3. QED
    BY <2>1, <2>2, LockStep DEF Live, Stale
<1>4. CASE \E l \in Locks : Pushed(l) \/ GitKilled(l) \/ \E p \in Pods : Push(p, l)
  BY <1>4, LockStep DEF Pushed, GitKilled, Push
<1>5. CASE \E p \in Pods, l \in Locks : RemoveFails(p, l)
  BY <1>5, LockStep DEF RemoveFails, Live
<1>6. CASE Tick
  BY <1>6, TickStep DEF Live
<1>7. QED
  BY <1>1, <1>2, <1>3, <1>4, <1>5, <1>6 DEF Next

\* No cleaner the test accepts removes the lock of a git process that runs, however long it
\* stands between its look at the age and its rm.
THEOREM LiveLocksStay == Spec => LiveLockKept
<1>1. LocksInv /\ [Next]_vars
        => /\ LocksInv'
           /\ [\A l \in Locks : Live(l) /\ lock'[l] = <<>> => pass' = pass]_vars
  <2>1. CASE UNCHANGED vars
    BY <2>1 DEF vars, LocksInv, ConfInv, PodsInv, LockInv, PassInv, Live, Stale
  <2>2. QED
    BY <2>1, LocksKept
<1>2. QED
  BY <1>1, LocksStart, PTL DEF Spec, LiveLockKept
=============================================================================
