----------------------------- MODULE PickProofs -----------------------------
(***************************************************************************)
(* For every graph, every request and every catalogue: a finished          *)
(* selection is dependency-closed, and before companions join it holds     *)
(* nothing but what the request and the baseline call for.                 *)
(***************************************************************************)
EXTENDS Pick, TLAPS

\* Every variable keeps its type.
THEOREM TypeCorrect == Spec => []TypeOK
<1>1. Init => TypeOK
  BY DEF Init, TypeOK, Reasons
<1>2. TypeOK /\ [Next]_vars => TypeOK'
  <2> SUFFICES ASSUME TypeOK, [Next]_vars PROVE TypeOK'
    OBVIOUS
  <2> USE DEF TypeOK, inputVars, Reasons
  <2>1. ASSUME NEW n \in Bricks, Pop(n) PROVE TypeOK'
    BY <2>1 DEF Pop, WithReason
  <2>2. CASE AddBaseline
    BY <2>2 DEF AddBaseline
  <2>3. CASE StartCompanions
    BY <2>3 DEF StartCompanions
  <2>4. ASSUME NEW c \in Bricks, TryCompanion(c) PROVE TypeOK'
    BY <2>4 DEF TryCompanion
  <2>5. CASE EndPass
    BY <2>5 DEF EndPass
  <2>6. CASE UNCHANGED vars
    BY <2>6 DEF vars
  <2>7. QED
    BY <2>1, <2>2, <2>3, <2>4, <2>5, <2>6 DEF Next
<1>3. QED
  BY <1>1, <1>2, PTL DEF Spec

-----------------------------------------------------------------------------
\* The worklist holds every selected brick some dependency of which may still
\* be outside: once it is empty the selection is closed, and a companion, whose
\* dependencies are all selected, keeps it so.
WorklistInv ==
  /\ work \subseteq selected
  /\ \A n \in selected \ work : deps[n] \subseteq selected
  /\ phase \in {"companions", "done"} => work = {}

THEOREM WorklistHolds == Spec => []WorklistInv
<1>1. Init => WorklistInv
  BY DEF Init, WorklistInv
<1>2. TypeOK /\ WorklistInv /\ [Next]_vars => WorklistInv'
  <2> SUFFICES ASSUME TypeOK, WorklistInv, [Next]_vars PROVE WorklistInv'
    OBVIOUS
  <2> USE DEF WorklistInv, TypeOK, inputVars
  <2>1. ASSUME NEW n \in Bricks, Pop(n) PROVE WorklistInv'
    BY <2>1 DEF Pop
  <2>2. CASE AddBaseline
    BY <2>2 DEF AddBaseline
  <2>3. CASE StartCompanions
    BY <2>3 DEF StartCompanions
  <2>4. ASSUME NEW c \in Bricks, TryCompanion(c) PROVE WorklistInv'
    BY <2>4 DEF TryCompanion, Eligible
  <2>5. CASE EndPass
    BY <2>5 DEF EndPass
  <2>6. CASE UNCHANGED vars
    BY <2>6 DEF vars
  <2>7. QED
    BY <2>1, <2>2, <2>3, <2>4, <2>5, <2>6 DEF Next
<1>3. QED
  BY <1>1, <1>2, TypeCorrect, PTL DEF Spec

\* No retained brick depends on a removed one.
THEOREM SelectionClosed == Spec => []SelectionIsClosed
<1>1. WorklistInv => SelectionIsClosed
  BY DEF WorklistInv, SelectionIsClosed, Finished, ClosedUnder
<1>2. QED
  BY <1>1, WorklistHolds, PTL

-----------------------------------------------------------------------------
\* What each phase has reached: the closure of the request, that of the request
\* and the baseline, then that closure and the companions it allows.  A pass
\* that has added nothing has left nothing out among those it tried.
WithinClosed(S) ==
  /\ S \subseteq selected
  /\ \A T \in SUBSET Bricks : S \subseteq T /\ ClosedUnder(deps, T) => selected \subseteq T

WithinSettled(S) ==
  /\ S \subseteq selected
  /\ \A T \in SUBSET Bricks :
       S \subseteq T /\ SettledUnder(deps, companions, T) => selected \subseteq T

LeastInv ==
  /\ phase = "closeRequest" => WithinClosed(requested)
  /\ phase = "closeBaseline" => WithinClosed(Asked)
  /\ phase = "companions" =>
       /\ withCompanions
       /\ WithinSettled(LeastClosed(deps, Asked))
       /\ ~changed => SettledUnder(deps, companions \ pass, selected)
  /\ phase = "done" /\ withCompanions =>
       /\ WithinSettled(LeastClosed(deps, Asked))
       /\ SettledUnder(deps, companions, selected)
  /\ phase = "done" /\ ~withCompanions => selected = LeastClosed(deps, Asked)
  /\ phase \in {"closeRequest", "closeBaseline"} => ~changed
  /\ pass \subseteq companions

\* A closed set within every closed set that holds S is the least of them.
LEMMA LeastIsClosure ==
  ASSUME TypeOK, NEW S, WithinClosed(S), ClosedUnder(deps, selected)
  PROVE  selected = LeastClosed(deps, S)
BY DEF TypeOK, WithinClosed, LeastClosed

\* The selection holds what was asked for, what that needs and what companions
\* follow from it, and nothing else.
THEOREM SelectionLeast == Spec => []SelectionIsLeast
<1>1. Init => LeastInv
  BY DEF Init, LeastInv, WithinClosed
<1>2. TypeOK /\ WorklistInv /\ LeastInv /\ [Next]_vars => LeastInv'
  <2> SUFFICES ASSUME TypeOK, WorklistInv, LeastInv, [Next]_vars PROVE LeastInv'
    OBVIOUS
  <2>1. ASSUME NEW n \in Bricks, Pop(n) PROVE LeastInv'
    <3>1. phase \in {"closeRequest", "closeBaseline"} /\ n \in selected
      BY <2>1 DEF Pop, WorklistInv, TypeOK
    <3>2. ASSUME NEW S, WithinClosed(S) PROVE WithinClosed(S)'
      BY <2>1, <3>1, <3>2 DEF Pop, WithinClosed, ClosedUnder, inputVars
    <3>3. Asked' = Asked /\ requested' = requested
      BY <2>1 DEF Pop, Asked, inputVars
    <3>4. QED
      BY <2>1, <3>1, <3>2, <3>3 DEF Pop, LeastInv, WithinClosed, inputVars
  <2>2. CASE AddBaseline
    <3>1. requested \subseteq Asked /\ Asked' = Asked
      BY <2>2 DEF AddBaseline, Asked, inputVars
    <3>2. WithinClosed(requested)
      BY <2>2 DEF AddBaseline, LeastInv
    <3>3. selected' = selected \cup (IF withBaseline THEN baseline ELSE {})
      BY <2>2 DEF AddBaseline
    <3>4. WithinClosed(Asked)'
      BY <2>2, <3>1, <3>2, <3>3 DEF AddBaseline, WithinClosed, Asked, inputVars
    <3>5. QED
      BY <2>2, <3>4 DEF AddBaseline, LeastInv, inputVars
  <2>3. CASE StartCompanions
    <3>1. ClosedUnder(deps, selected) /\ WithinClosed(Asked)
      BY <2>3 DEF StartCompanions, WorklistInv, LeastInv, ClosedUnder
    <3>2. selected = LeastClosed(deps, Asked)
      BY <3>1, LeastIsClosure
    <3>3. /\ selected' = selected
          /\ LeastClosed(deps, Asked)' = LeastClosed(deps, Asked)
      BY <2>3 DEF StartCompanions, Asked, LeastClosed, ClosedUnder, inputVars
    <3>4. WithinSettled(LeastClosed(deps, Asked))'
      BY <3>2, <3>3 DEF WithinSettled
    <3>5. QED
      BY <2>3, <3>2, <3>3, <3>4
      DEF StartCompanions, LeastInv, SettledUnder, inputVars
  <2>4. ASSUME NEW c \in Bricks, TryCompanion(c) PROVE LeastInv'
    <3>1. LeastClosed(deps, Asked)' = LeastClosed(deps, Asked)
      BY <2>4 DEF TryCompanion, Asked, LeastClosed, ClosedUnder, inputVars
    <3>2. /\ withCompanions
          /\ WithinSettled(LeastClosed(deps, Asked))
          /\ ~changed => SettledUnder(deps, companions \ pass, selected)
      BY <2>4 DEF TryCompanion, LeastInv
    <3>3. CASE c \notin selected /\ Eligible(c)
      <4>1. selected' = selected \cup {c} /\ changed' = TRUE
        BY <2>4, <3>3 DEF TryCompanion
      <4>2. c \in companions
        BY <2>4 DEF TryCompanion, LeastInv
      <4>3. WithinSettled(LeastClosed(deps, Asked))'
        BY <2>4, <3>1, <3>2, <3>3, <4>1, <4>2
        DEF TryCompanion, WithinSettled, SettledUnder, Eligible, inputVars
      <4>4. QED
        BY <2>4, <3>2, <4>1, <4>3 DEF TryCompanion, LeastInv, inputVars
    <3>4. CASE ~(c \notin selected /\ Eligible(c))
      <4>1. UNCHANGED <<selected, changed>>
        BY <2>4, <3>4 DEF TryCompanion
      <4>2. WithinSettled(LeastClosed(deps, Asked))'
        BY <2>4, <3>1, <3>2, <4>1 DEF TryCompanion, WithinSettled, SettledUnder, inputVars
      <4>3. ~changed => SettledUnder(deps, companions \ pass, selected)'
        BY <2>4, <3>2, <3>4, <4>1 DEF TryCompanion, SettledUnder, Eligible, inputVars
      <4>4. QED
        BY <2>4, <3>2, <4>1, <4>2, <4>3 DEF TryCompanion, LeastInv, inputVars
    <3>5. QED
      BY <3>3, <3>4
  <2>5. CASE EndPass
    <3>1. LeastClosed(deps, Asked)' = LeastClosed(deps, Asked)
      BY <2>5 DEF EndPass, Asked, LeastClosed, ClosedUnder, inputVars
    <3>2. /\ withCompanions
          /\ WithinSettled(LeastClosed(deps, Asked))
          /\ ~changed => SettledUnder(deps, companions, selected)
      BY <2>5 DEF EndPass, LeastInv, TypeOK, SettledUnder
    <3>3. WithinSettled(LeastClosed(deps, Asked))'
      BY <2>5, <3>1, <3>2 DEF EndPass, WithinSettled, SettledUnder, inputVars
    <3>4. QED
      BY <2>5, <3>2, <3>3 DEF EndPass, LeastInv, SettledUnder, inputVars
  <2>6. CASE UNCHANGED vars
    BY <2>6 DEF vars, inputVars, LeastInv, WithinClosed, WithinSettled, Asked,
      LeastClosed, ClosedUnder, SettledUnder
  <2>7. QED
    BY <2>1, <2>2, <2>3, <2>4, <2>5, <2>6 DEF Next
<1>3. TypeOK /\ LeastInv => SelectionIsLeast
  BY DEF TypeOK, LeastInv, SelectionIsLeast, Finished, WithinSettled, LeastSettled
<1>4. QED
  BY <1>1, <1>2, <1>3, TypeCorrect, WorklistHolds, PTL DEF Spec

-----------------------------------------------------------------------------
\* pick() ends on every graph: no turn of its loops leaves everything as it was,
\* and what a turn gains is never lost but by adding a brick.
THEOREM TurnsCount == Spec => EveryTurnCounts
<1> DEFINE Counts ==
      \/ phase' # phase
      \/ selected \subseteq selected' /\ selected' # selected
      \/ /\ selected' = selected
         /\ \/ changed /\ ~changed'
            \/ /\ changed' = changed
               /\ \/ work' \subseteq work /\ work' # work /\ pass' = pass
                  \/ pass' \subseteq pass /\ pass' # pass /\ work' = work
<1>1. ASSUME TypeOK, WorklistInv, Next PROVE Counts
  <2>1. ASSUME NEW n \in Bricks, Pop(n) PROVE Counts
    <3>1. CASE deps[n] \subseteq selected
      BY <2>1, <3>1 DEF Pop
    <3>2. CASE ~(deps[n] \subseteq selected)
      BY <2>1, <3>2 DEF Pop
    <3>3. QED
      BY <3>1, <3>2
  <2>2. CASE AddBaseline
    BY <2>2 DEF AddBaseline
  <2>3. CASE StartCompanions
    BY <2>3 DEF StartCompanions
  <2>4. ASSUME NEW c \in Bricks, TryCompanion(c) PROVE Counts
    <3>1. CASE c \notin selected /\ Eligible(c)
      BY <2>4, <3>1 DEF TryCompanion
    <3>2. CASE ~(c \notin selected /\ Eligible(c))
      BY <2>4, <3>2 DEF TryCompanion
    <3>3. QED
      BY <3>1, <3>2
  <2>5. CASE EndPass
    <3>1. CASE changed
      BY <2>5, <3>1 DEF EndPass, TypeOK
    <3>2. CASE ~changed
      BY <2>5, <3>2 DEF EndPass
    <3>3. QED
      BY <3>1, <3>2
  <2>6. QED
    BY <1>1, <2>1, <2>2, <2>3, <2>4, <2>5 DEF Next
<1>2. TypeOK /\ WorklistInv /\ [Next]_vars => [Counts]_vars
  BY <1>1
<1>3. QED
  BY <1>2, TypeCorrect, WorklistHolds, PTL DEF Spec, EveryTurnCounts
=============================================================================
