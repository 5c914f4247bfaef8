------------------------------ MODULE Profiles ------------------------------
(***************************************************************************)
(* The life of a generated profile (apps/flux/<profile>/kustomization.yaml)*)
(* beside the graph it was picked from: src/scripts/pick.py writes it      *)
(* (emit_profile), CI checks it (--check, cmd_check), and between the two  *)
(* people edit the graph and the catalogue.  A profile is the whole base   *)
(* less the bricks its patches delete, so a brick added to the base is     *)
(* deployed by every profile written before it.                            *)
(*                                                                         *)
(* What pick() selects is taken from module Pick, whose runs and proofs    *)
(* show that it is the least closed set.  Edits keep the graph valid: CI   *)
(* runs --validate first (module DagCheck), and load_catalog refuses a     *)
(* catalogue that names an unknown brick.  The order of the patches is     *)
(* left out.                                                               *)
(***************************************************************************)
EXTENDS Dag

CONSTANTS
  Names,        \* every name a brick may have
  Options       \* the <<baseline, companions>> options profiles are picked with, each a Boolean

VARIABLES
  bricks, deps,            \* apps/flux/base
  baseline, companions,    \* apps/flux/bricks.yaml
  profile,                 \* the generated file: its header, its patches
  options,                 \* ghost: the options it was generated with
  fresh                    \* ghost: nothing was edited since

graphVars == <<bricks, deps>>
catalogueVars == <<baseline, companions>>
vars == <<graphVars, catalogueVars, profile, options, fresh>>

Profile == [requested : SUBSET Names, excluded : SUBSET Names]

TypeOK ==
  /\ bricks \subseteq Names /\ deps \in [Names -> SUBSET Names]
  /\ baseline \subseteq bricks /\ companions \subseteq bricks
  /\ profile \in Profile
  /\ options \in Options /\ fresh \in BOOLEAN

Graph == [n \in bricks |-> deps[n]]
Valid(B, D) == ClosedUnder(D, B) /\ ~Cyclic([n \in B |-> D[n]])

\* pick(requested, bricks, cat, with_baseline, with_companions)
Picked(requested, option) ==
  LET closed == LeastClosed(Graph, requested \cup (IF option[1] THEN baseline ELSE {}))
  IN  IF option[2] THEN LeastSettled(Graph, companions, closed) ELSE closed

Init ==
  /\ bricks \in SUBSET Names
  /\ deps \in [Names -> SUBSET Names] /\ Valid(bricks, deps)
  /\ \A n \in Names \ bricks : deps[n] = {}
  /\ baseline \in SUBSET bricks /\ companions \in SUBSET bricks
  /\ \E requested \in (SUBSET bricks) \ {{}} :
       /\ options \in Options
       /\ profile = [requested |-> requested, excluded |-> bricks \ Picked(requested, options)]
  /\ fresh = TRUE

Edited == fresh' = FALSE /\ UNCHANGED <<profile, options>>

\* A Kustomization is added to the base.
AddBrick(n) ==
  /\ n \notin bricks
  /\ bricks' = bricks \cup {n}
  /\ \E D \in SUBSET bricks : deps' = [deps EXCEPT ![n] = D]
  /\ Edited
  /\ UNCHANGED catalogueVars

\* A Kustomization nothing refers to is removed.
RemoveBrick(n) ==
  /\ n \in bricks \ (baseline \cup companions)
  /\ bricks' = bricks \ {n}
  /\ deps' = [deps EXCEPT ![n] = {}]
  /\ Valid(bricks', deps')
  /\ Edited
  /\ UNCHANGED catalogueVars

\* A dependsOn changes.
EditDeps(n) ==
  /\ n \in bricks
  /\ \E D \in SUBSET bricks : deps' = [deps EXCEPT ![n] = D]
  /\ Valid(bricks, deps')
  /\ Edited
  /\ UNCHANGED <<bricks, catalogueVars>>

EditCatalogue ==
  /\ baseline' \in SUBSET bricks /\ companions' \in SUBSET bricks
  /\ Edited
  /\ UNCHANGED graphVars

\* pick.py <bricks> -o <profile>
Generate ==
  /\ \E requested \in (SUBSET bricks) \ {{}} :
       /\ options' \in Options
       /\ profile' = [requested |-> requested,
                      excluded |-> bricks \ Picked(requested, options')]
  /\ fresh' = TRUE
  /\ UNCHANGED <<graphVars, catalogueVars>>

Next ==
  \/ \E n \in Names : AddBrick(n) \/ RemoveBrick(n) \/ EditDeps(n)
  \/ EditCatalogue
  \/ Generate

Spec == Init /\ [][Next]_vars
-----------------------------------------------------------------------------
\* Mutant: a patch too few is taken for harmless, it deletes nothing.
CheckPatchesOnly ==
  /\ profile.requested \subseteq bricks
  /\ profile.excluded \subseteq bricks \ Picked(profile.requested, <<TRUE, TRUE>>)
\* Mutant: the replay forgets the companions, which nobody asked for.
CheckWithoutCompanions ==
  /\ profile.requested \subseteq bricks
  /\ profile.excluded = bricks \ Picked(profile.requested, <<TRUE, FALSE>>)

\* cmd_check: the bricks of the header, picked again, give the same patches.
CheckPasses ==
  /\ profile.requested \subseteq bricks
  /\ profile.excluded = bricks \ Picked(profile.requested, <<TRUE, TRUE>>)

\* What Flux reconciles: the base, less what the patches delete.
Deployed == bricks \ profile.excluded

\* A profile CI lets through deploys whatever its bricks depend on, whichever
\* edits came after it was generated: no brick stays stuck on one that is
\* excluded.
CheckedIsDeployable ==
  CheckPasses =>
    /\ ClosedUnder(deps, Deployed)
    /\ profile.requested \cup baseline \subseteq Deployed

\* A profile generated from the graph and the catalogue as they are is up to
\* date with them.
FreshIsUpToDate == fresh => CheckPasses
=============================================================================
