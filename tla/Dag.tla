-------------------------------- MODULE Dag --------------------------------
(***************************************************************************)
(* The graph of the Flux Kustomizations ("bricks") and what a set of them  *)
(* has to be for Flux to reconcile it: D[n] is the dependsOn of brick n.   *)
(* These are the reference definitions the algorithms of                   *)
(* src/scripts/pick.py are compared with.                                  *)
(***************************************************************************)

\* No brick of S depends on a brick outside S.
ClosedUnder(D, S) == \A n \in S : D[n] \subseteq S

\* No companion whose dependencies are all in S is left out of S.
SettledUnder(D, companions, S) == \A c \in companions : D[c] \subseteq S => c \in S

\* The least dependency-closed set of bricks that holds S.
LeastClosed(D, S) ==
  {b \in DOMAIN D : \A T \in SUBSET DOMAIN D : S \subseteq T /\ ClosedUnder(D, T) => b \in T}

\* The least set that holds S and every companion its dependencies allow.
LeastSettled(D, companions, S) ==
  {b \in DOMAIN D : \A T \in SUBSET DOMAIN D :
     S \subseteq T /\ SettledUnder(D, companions, T) => b \in T}

\* Some brick depends, in one step or several, on itself: a set of bricks
\* each of which depends on another of the set.
Cyclic(D) == \E S \in SUBSET DOMAIN D : S # {} /\ \A n \in S : D[n] \cap S # {}
=============================================================================
