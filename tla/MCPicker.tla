------------------------------ MODULE MCPicker ------------------------------
(***************************************************************************)
(* The picker's three algorithms over every graph of a few bricks, up to   *)
(* renaming: the check of the graph (module DagCheck, extended here), the  *)
(* selection (Pick), and the life of a generated profile (Profiles).  Each *)
(* is run with the two others at rest.  PickerProofs proves their          *)
(* properties of this composition.                                         *)
(***************************************************************************)
EXTENDS DagCheck, TLC

CONSTANT Options

VARIABLES
  part,
  graph, requested, catalogue, options,
  phase, selected, work, pass, changed, reasons,
  bricks, needs, baseline, companions, profile, picked, fresh

selection == <<graph, requested, catalogue, options, phase, selected, work, pass, changed, reasons>>
life == <<bricks, needs, baseline, companions, profile, picked, fresh>>

Picking == INSTANCE PickProofs WITH
  deps <- graph, baseline <- catalogue[1], companions <- catalogue[2],
  withBaseline <- options[1], withCompanions <- options[2]
Life == INSTANCE Profiles WITH Names <- Bricks, deps <- needs, options <- picked

Renamings == Permutations(Bricks)
DefaultOptions == {<<TRUE, TRUE>>}
Nothing == [n \in Bricks |-> {}]

\* At rest: no dependency, an empty catalogue, every brick asked for.
CheckRests == deps = Nothing /\ Init
SelectionRests ==
  /\ graph = Nothing /\ requested = Bricks /\ catalogue = <<{}, {}>> /\ options = <<TRUE, TRUE>>
  /\ Picking!Init
LifeRests ==
  /\ bricks = Bricks /\ needs = Nothing /\ baseline = {} /\ companions = {}
  /\ profile = [requested |-> Bricks, excluded |-> {}] /\ picked = <<TRUE, TRUE>> /\ fresh = TRUE
  /\ Life!Init

MCInit ==
  \/ part = "check" /\ Init /\ SelectionRests /\ LifeRests
  \/ /\ part = "selection" /\ CheckRests /\ LifeRests
     /\ graph \in [Bricks -> SUBSET Bricks] /\ requested \in (SUBSET Bricks) \ {{}}
     /\ catalogue \in (SUBSET Bricks) \X (SUBSET Bricks) /\ options \in BOOLEAN \X BOOLEAN
     /\ Picking!Init
  \/ part = "life" /\ CheckRests /\ SelectionRests /\ Life!Init
MCNext ==
  /\ \/ part = "check" /\ Next /\ UNCHANGED <<selection, life>>
     \/ /\ part = "selection" /\ UNCHANGED <<vars, life, catalogue, options>>
        /\ Picking!Next
     \/ part = "life" /\ Life!Next /\ UNCHANGED <<vars, selection>>
  /\ UNCHANGED part
MCSpec == MCInit /\ [][MCNext]_<<part, vars, selection, life>>

\* The properties of the selection and of a profile, as modules Pick and Profiles state them: no retained brick
\* depends on a removed one; nothing is missing and nothing is selected without need; every turn of a loop of
\* pick() leaves less to do; a profile the check lets through deploys what its bricks need; one just written passes.
SelectionIsClosed == Picking!SelectionIsClosed
SelectionIsLeast == Picking!SelectionIsLeast
EveryTurnCounts == Picking!EveryTurnCounts
CheckedIsDeployable == Life!CheckedIsDeployable
FreshIsUpToDate == Life!FreshIsUpToDate
=============================================================================
