-------------------------------- MODULE Pick --------------------------------
(***************************************************************************)
(* The brick picker, src/scripts/pick.py: from the bricks an operator asks *)
(* for to the selection a profile keeps.  pick() runs closure() over the   *)
(* request, again over that and the baseline, then adds companions until a *)
(* pass over them adds none.                                               *)
(*                                                                         *)
(* The graph and the catalogue are read once (load_dag, load_catalog) and  *)
(* do not change: dependencies are known bricks, as validate_dag demands.  *)
(* Lists are sets here: the order in which the worklist is popped and the  *)
(* companions are tried is left open.  A reason is reduced to its kind.    *)
(***************************************************************************)
EXTENDS Dag

CONSTANTS Bricks

VARIABLES
  deps,         \* deps[n]: the dependsOn of brick n
  requested,    \* the bricks asked for, aliases resolved
  baseline, companions,            \* the catalogue
  withBaseline, withCompanions,    \* ~ --no-baseline, ~ --no-companions
  phase,        \* the loop pick() is in
  selected,     \* out of closure(), then selected of pick()
  work,         \* the worklist of closure()
  pass,         \* the companions the current pass has not tried yet
  changed,      \* did this pass add one?
  reasons       \* why a brick was selected

inputVars == <<deps, requested, baseline, companions, withBaseline, withCompanions>>
vars == <<inputVars, phase, selected, work, pass, changed, reasons>>

Reasons == {"none", "requested", "dependency", "baseline", "companion"}

TypeOK ==
  /\ deps \in [Bricks -> SUBSET Bricks]
  /\ requested \subseteq Bricks /\ baseline \subseteq Bricks
  /\ companions \subseteq Bricks
  /\ withBaseline \in BOOLEAN /\ withCompanions \in BOOLEAN
  /\ phase \in {"closeRequest", "closeBaseline", "companions", "done"}
  /\ selected \subseteq Bricks /\ work \subseteq Bricks /\ pass \subseteq Bricks
  /\ changed \in BOOLEAN
  /\ reasons \in [Bricks -> Reasons]

Init ==
  /\ deps \in [Bricks -> SUBSET Bricks]
  /\ requested \in (SUBSET Bricks) \ {{}}
  /\ baseline \in SUBSET Bricks
  /\ companions \in SUBSET Bricks
  /\ withBaseline \in BOOLEAN /\ withCompanions \in BOOLEAN
  /\ phase = "closeRequest"
  /\ selected = requested /\ work = requested
  /\ pass = {} /\ changed = FALSE
  /\ reasons = [b \in Bricks |-> IF b \in requested THEN "requested" ELSE "none"]

\* reasons.setdefault
WithReason(S, kind) ==
  [b \in Bricks |-> IF b \in S /\ reasons[b] = "none" THEN kind ELSE reasons[b]]

\* Mutant: what a dependency depends on is not followed.
PopShallow(n) ==
  /\ n \in work
  /\ selected' = selected \cup deps[n]
  /\ reasons' = WithReason(deps[n] \ selected, "dependency")
  /\ work' = work \ {n}
  /\ UNCHANGED <<inputVars, phase, pass, changed>>

\* Mutant: "if d not in out" is dropped.
PopAgain(n) ==
  /\ n \in work
  /\ selected' = selected \cup deps[n]
  /\ reasons' = WithReason(deps[n] \ selected, "dependency")
  /\ work' = (work \ {n}) \cup deps[n]
  /\ UNCHANGED <<inputVars, phase, pass, changed>>

\* One turn of the loop of closure().
Pop(n) ==
  /\ n \in work
  /\ selected' = selected \cup deps[n]
  /\ reasons' = WithReason(deps[n] \ selected, "dependency")
  /\ work' = (work \ {n}) \cup (deps[n] \ selected)
  /\ UNCHANGED <<inputVars, phase, pass, changed>>

\* The request is closed: the baseline joins, and all of it is closed again.
AddBaseline ==
  /\ phase = "closeRequest" /\ work = {}
  /\ phase' = "closeBaseline"
  /\ LET added == IF withBaseline THEN baseline ELSE {}
     IN  /\ reasons' = [b \in Bricks |-> IF b \in added \ selected THEN "baseline"
                                         ELSE reasons[b]]
         /\ selected' = selected \cup added
         /\ work' = IF withBaseline THEN selected \cup added ELSE {}
  /\ UNCHANGED <<inputVars, pass, changed>>

\* The first pass over the companions.
StartCompanions ==
  /\ phase = "closeBaseline" /\ work = {}
  /\ phase' = IF withCompanions THEN "companions" ELSE "done"
  /\ pass' = IF withCompanions THEN companions ELSE {}
  /\ UNCHANGED <<inputVars, selected, work, changed, reasons>>

Eligible(c) == deps[c] \subseteq selected

TryCompanion(c) ==
  /\ phase = "companions"
  /\ c \in pass
  /\ pass' = pass \ {c}
  /\ IF c \notin selected /\ Eligible(c)
     THEN /\ selected' = selected \cup {c}
          /\ reasons' = [reasons EXCEPT ![c] = "companion"]
          /\ changed' = TRUE
     ELSE UNCHANGED <<selected, reasons, changed>>
  /\ UNCHANGED <<inputVars, phase, work>>

\* Mutant: one pass over the companions is enough.
OnePass ==
  /\ phase = "companions" /\ pass = {}
  /\ phase' = "done"
  /\ UNCHANGED <<inputVars, selected, work, pass, changed, reasons>>

\* A pass is over: another one if it added a companion.
EndPass ==
  /\ phase = "companions" /\ pass = {}
  /\ phase' = IF changed THEN "companions" ELSE "done"
  /\ pass' = IF changed THEN companions ELSE {}
  /\ changed' = FALSE
  /\ UNCHANGED <<inputVars, selected, work, reasons>>

Next ==
  \/ \E n \in Bricks : Pop(n)
  \/ AddBaseline
  \/ StartCompanions
  \/ \E c \in Bricks : TryCompanion(c)
  \/ EndPass

Spec == Init /\ [][Next]_vars
-----------------------------------------------------------------------------
Finished == phase = "done"

\* What was asked for: the request, and the baseline unless refused.
Asked == requested \cup (IF withBaseline THEN baseline ELSE {})

\* No retained Kustomization depends on a removed one (header of pick.py),
\* companions included: they are added after the last closure().
SelectionIsClosed == Finished => ClosedUnder(deps, selected)

\* Nothing is selected that the request, the baseline and the companions do
\* not call for, and none of these is missing, in whatever order the worklist
\* and the companions are taken.
SelectionIsLeast ==
  Finished =>
    selected = LET closed == LeastClosed(deps, Asked)
               IN  IF withCompanions THEN LeastSettled(deps, companions, closed) ELSE closed

\* pick() ends on every graph, cyclic ones included: a turn of any of its loops
\* adds a brick, or leaves less to do before the next one can be added.
EveryTurnCounts ==
  [][\/ phase' # phase
     \/ selected \subseteq selected' /\ selected' # selected
     \/ /\ selected' = selected
        /\ \/ changed /\ ~changed'
           \/ /\ changed' = changed
              /\ \/ work' \subseteq work /\ work' # work /\ pass' = pass
                 \/ pass' \subseteq pass /\ pass' # pass /\ work' = work]_vars
=============================================================================
