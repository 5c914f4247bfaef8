------------------------------ MODULE DagCheck ------------------------------
(***************************************************************************)
(* validate_dag of src/scripts/pick.py: the check every use of the picker  *)
(* runs first.  It demands that every dependency exists and searches for   *)
(* cycles with a three-colour depth-first search.  The recursion of dfs()  *)
(* is an explicit stack, its bottom first; a frame keeps the dependencies  *)
(* its loop has not looked at.  The order of the loops is left open.       *)
(*                                                                         *)
(* Left out: the checks of spec.path and of base/kustomization.yaml, which *)
(* read the file system and no graph.                                      *)
(***************************************************************************)
EXTENDS Dag, Integers, Sequences

CONSTANTS
  Bricks,       \* the Kustomizations load_dag found
  Missing       \* names that are not among them

ASSUME NamesAssumption == Bricks \cap Missing = {}

VARIABLES
  deps,         \* deps[n]: the dependsOn of brick n
  color,        \* color[n]: white, grey or black
  stack,        \* the calls of dfs() under way
  unknown,      \* errors: dependencies that do not exist
  cycles        \* errors: the cycles reported

vars == <<deps, color, stack, unknown, cycles>>

Frames == [node : Bricks, left : SUBSET (Bricks \cup Missing)]

TypeOK ==
  /\ deps \in [Bricks -> SUBSET (Bricks \cup Missing)]
  /\ color \in [Bricks -> {"white", "grey", "black"}]
  /\ stack \in Seq(Frames)
  /\ unknown \subseteq Bricks \X Missing
  /\ cycles \subseteq Seq(Bricks)

\* Mutant: unknown names are left to dfs(), which skips them.
UnknownIgnored == {}

\* if d not in bricks: errors.append(...)
Unknown == {e \in Bricks \X Missing : e[2] \in deps[e[1]]}

Init ==
  /\ deps \in [Bricks -> SUBSET (Bricks \cup Missing)]
  /\ color = [n \in Bricks |-> "white"]
  /\ stack = <<>>
  /\ unknown = Unknown
  /\ cycles = {}

Top == stack[Len(stack)]
Looked(d) == [stack EXCEPT ![Len(stack)].left = @ \ {d}]
Frame(n) == [node |-> n, left |-> deps[n]]

\* for n in bricks: if color[n] == WHITE: dfs(n, [n])
Root(n) ==
  /\ stack = <<>>
  /\ color[n] = "white"
  /\ stack' = <<Frame(n)>>
  /\ color' = [color EXCEPT ![n] = "grey"]
  /\ UNCHANGED <<deps, unknown, cycles>>

\* if d not in bricks: continue
SkipMissing(d) ==
  /\ stack # <<>>
  /\ d \in Top.left \cap Missing
  /\ stack' = Looked(d)
  /\ UNCHANGED <<deps, color, unknown, cycles>>

\* Mutant: two colours, a node is black once it is seen.
DescendTwoColours(d) ==
  /\ stack # <<>>
  /\ d \in Top.left \cap Bricks /\ color[d] = "white"
  /\ stack' = Append(Looked(d), Frame(d))
  /\ color' = [color EXCEPT ![d] = "black"]
  /\ UNCHANGED <<deps, unknown, cycles>>

\* elif color[d] == WHITE: dfs(d, stack + [d])
Descend(d) ==
  /\ stack # <<>>
  /\ d \in Top.left \cap Bricks /\ color[d] = "white"
  /\ stack' = Append(Looked(d), Frame(d))
  /\ color' = [color EXCEPT ![d] = "grey"]
  /\ UNCHANGED <<deps, unknown, cycles>>

\* The path dfs() hands down: the nodes of the calls under way.
Path == [k \in 1..Len(stack) |-> stack[k].node]

\* Mutant: the path is cut one call too late.
PathAfter(d) ==
  {SubSeq(Path, i + 1, Len(Path)) \o <<d>> : i \in {j \in 1..Len(stack) : Path[j] = d}}

\* stack[stack.index(d):] + [d] if d in stack else [n, d]
PathFrom(d) ==
  LET places == {j \in 1..Len(stack) : Path[j] = d}
  IN  IF places = {} THEN {<<Top.node, d>>}
      ELSE {SubSeq(Path, i, Len(Path)) \o <<d>> : i \in places}

\* if color[d] == GREY: the cycle is reported.
Report(d) ==
  /\ stack # <<>>
  /\ d \in Top.left \cap Bricks /\ color[d] = "grey"
  /\ \E p \in PathFrom(d) : cycles' = cycles \cup {p}
  /\ stack' = Looked(d)
  /\ UNCHANGED <<deps, color, unknown>>

SkipBlack(d) ==
  /\ stack # <<>>
  /\ d \in Top.left \cap Bricks /\ color[d] = "black"
  /\ stack' = Looked(d)
  /\ UNCHANGED <<deps, color, unknown, cycles>>

\* Mutant: a call leaves its node grey.
ReturnGrey ==
  /\ stack # <<>>
  /\ Top.left = {}
  /\ stack' = SubSeq(stack, 1, Len(stack) - 1)
  /\ UNCHANGED <<deps, color, unknown, cycles>>

Return ==
  /\ stack # <<>>
  /\ Top.left = {}
  /\ color' = [color EXCEPT ![Top.node] = "black"]
  /\ stack' = SubSeq(stack, 1, Len(stack) - 1)
  /\ UNCHANGED <<deps, unknown, cycles>>

Next ==
  \/ \E n \in Bricks : Root(n)
  \/ \E d \in Missing : SkipMissing(d)
  \/ \E d \in Bricks : Descend(d) \/ Report(d) \/ SkipBlack(d)
  \/ Return

Spec == Init /\ [][Next]_vars
-----------------------------------------------------------------------------
Finished == stack = <<>> /\ \A n \in Bricks : color[n] # "white"

Accepted == Finished /\ unknown = {} /\ cycles = {}

\* What pick() relies on: every dependency is a brick, and none depends on
\* itself through others.
Healthy == ClosedUnder(deps, Bricks) /\ ~Cyclic(deps)

\* An accepted graph is healthy, from whichever brick the search set out.
AcceptedIsHealthy == Accepted => Healthy

\* A healthy graph is accepted: a brick reached twice is no cycle.
HealthyIsAccepted == Finished /\ Healthy => Accepted

\* A reported cycle is one of the graph: it ends where it began, and each brick
\* of it depends on the next.  A grey node is always on the path, then: the
\* other way to report it, [n, d], is never a cycle.
CyclesAreReal ==
  \A p \in cycles :
    /\ Len(p) > 1 /\ p[1] = p[Len(p)]
    /\ \A i \in 1..(Len(p) - 1) : p[i + 1] \in deps[p[i]]
=============================================================================
