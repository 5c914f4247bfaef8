----------------------------- MODULE JudgeProofs -----------------------------
(***************************************************************************)
(* Judgements that are right of everything they may be asked about, not    *)
(* only of the cases a run takes.                                          *)
(***************************************************************************)
EXTENDS CheckProofs, SequenceTheorems

\* A run of the picker: a tree, any profiles beside it, and arguments the parser of the
\* command line lets through.
PickWorld(c) ==
  LET t == c.tree
      a == c.args
  IN  /\ t = [deps |-> t.deps, file |-> t.file, twice |-> t.twice, gone |-> t.gone, listed |-> t.listed,
              baseline |-> t.baseline, companions |-> t.companions, aliases |-> t.aliases, profiles |-> t.profiles]
      /\ \A d \in DOMAIN t.profiles :
           LET p == t.profiles[d]
           IN  /\ p = [by |-> p.by, asked |-> p.asked, removed |-> p.removed]
               /\ p.asked = <<>> \/ p.asked = <<p.asked[1]>>
      /\ a = [do |-> a.do, bricks |-> a.bricks, noBaseline |-> a.noBaseline, noCompanions |-> a.noCompanions, output |-> a.output]
      /\ a.do \subseteq {"validate", "check", "list"}
      /\ a.noBaseline \in BOOLEAN /\ a.noCompanions \in BOOLEAN
      /\ a.output = <<>> \/ a.output = <<a.output[1]>>

\* The least closed set is closed, and holds what it was asked to hold.
LEMMA PickLeastClosed ==
  ASSUME NEW D, NEW S \in SUBSET DOMAIN D, \A n \in DOMAIN D : D[n] \subseteq DOMAIN D
  PROVE  /\ S \subseteq Picker!LeastClosed(D, S)
         /\ Picker!LeastClosed(D, S) \subseteq DOMAIN D
         /\ Picker!ClosedUnder(D, Picker!LeastClosed(D, S))
<1>1. S \subseteq Picker!LeastClosed(D, S) /\ Picker!LeastClosed(D, S) \subseteq DOMAIN D
  BY DEF Picker!LeastClosed
<1>2. ASSUME NEW n \in Picker!LeastClosed(D, S), NEW d \in D[n] PROVE d \in Picker!LeastClosed(D, S)
  <2>1. n \in DOMAIN D /\ d \in DOMAIN D
    BY <1>2 DEF Picker!LeastClosed
  <2>2. ASSUME NEW T \in SUBSET DOMAIN D, S \subseteq T, Picker!ClosedUnder(D, T) PROVE d \in T
    BY <1>2, <2>2 DEF Picker!LeastClosed, Picker!ClosedUnder
  <2>. QED  BY <2>1, <2>2 DEF Picker!LeastClosed
<1>. QED  BY <1>1, <1>2 DEF Picker!ClosedUnder

\* The companions it allows keep it closed.
LEMMA PickLeastSettled ==
  ASSUME NEW D, NEW companion, NEW S \in SUBSET DOMAIN D, companion \subseteq DOMAIN D, Picker!ClosedUnder(D, S)
  PROVE  /\ S \subseteq Picker!LeastSettled(D, companion, S)
         /\ Picker!LeastSettled(D, companion, S) \subseteq DOMAIN D
         /\ Picker!ClosedUnder(D, Picker!LeastSettled(D, companion, S))
<1> DEFINE L == Picker!LeastSettled(D, companion, S)
           K == {n \in L : D[n] \subseteq L}
<1>1. S \subseteq L /\ L \subseteq DOMAIN D
  BY DEF Picker!LeastSettled
<1>2. Picker!SettledUnder(D, companion, L)
  BY DEF Picker!LeastSettled, Picker!SettledUnder
<1>3. S \subseteq K
  BY <1>1 DEF Picker!ClosedUnder
<1>4. Picker!SettledUnder(D, companion, K)
  BY <1>2 DEF Picker!SettledUnder
<1>5. L \subseteq K
  BY <1>1, <1>3, <1>4 DEF Picker!LeastSettled
<1>. QED  BY <1>1, <1>5 DEF Picker!ClosedUnder

\* A tree that loads, of which neither the graph nor the catalogue is wrong.
Healthy(t) == Picker!LoadErrors(t) = {} /\ Picker!DagErrors(t) = {} /\ Picker!CatalogErrors(t) = {}

LEMMA HealthyIs ==
  ASSUME NEW t, Healthy(t)
  PROVE  /\ Picker!Sane(t)
         /\ \A n \in Picker!Names(t) : t.deps[n] \subseteq Picker!Names(t)
         /\ t.baseline \subseteq Picker!Names(t) /\ t.companions \subseteq Picker!Names(t)
         /\ DOMAIN t.aliases \cap Picker!Names(t) = {}
<1>1. Picker!LoadErrors(t) = {} /\ Picker!DagErrors(t) = {} /\ Picker!CatalogErrors(t) = {}
  BY DEF Healthy
<1>2. ~Picker!Cyclic(t.deps)
  <2>1. Picker!When(Picker!Cyclic(t.deps), {<<"cycle", "">>}) = {}
    BY <1>1 DEF Picker!DagErrors
  <2>. QED  BY <2>1, Zenon DEF Picker!When
<1>3. \A d \in UNION {t.deps[n] : n \in Picker!Names(t)} : d \in Picker!Names(t)
  <2>1. {<<"unknown", d>> : d \in (UNION {t.deps[n] : n \in Picker!Names(t)}) \ Picker!Names(t)} = {}
    BY <1>1 DEF Picker!DagErrors
  <2>. QED  BY <2>1
<1>4. \A n \in Picker!Names(t) : t.deps[n] \subseteq Picker!Names(t)
  BY <1>3
<1>5. \A n \in t.baseline \cup t.companions : n \in Picker!Names(t)
  <2>1. {<<"unknown", n>> : n \in (t.baseline \cup t.companions \cup Picker!Range(t.aliases)) \ Picker!Names(t)} = {}
    BY <1>1 DEF Picker!CatalogErrors
  <2>. QED  BY <2>1
<1>6. DOMAIN t.aliases \cap Picker!Names(t) = {}
  <2>1. {<<"shadows", a>> : a \in DOMAIN t.aliases \cap Picker!Names(t)} = {}
    BY <1>1 DEF Picker!CatalogErrors
  <2>. QED  BY <2>1
<1>. QED  BY <1>1, <1>2, <1>4, <1>5, <1>6 DEF Picker!Sane, Picker!ClosedUnder

\* What is selected of a healthy tree is closed, and holds what was requested.
LEMMA SelectionIs ==
  ASSUME NEW t, Healthy(t), NEW requested, requested \subseteq Picker!Names(t), NEW b, NEW m
  PROVE  /\ requested \subseteq Picker!Selection(t, requested, b, m)
         /\ Picker!Selection(t, requested, b, m) \subseteq Picker!Names(t)
         /\ Picker!ClosedUnder(t.deps, Picker!Selection(t, requested, b, m))
<1>. DEFINE start == requested \cup (IF b THEN t.baseline ELSE {})
            companion == IF m THEN t.companions ELSE {}
            closed == Picker!LeastClosed(t.deps, start)
<1>1. start \in SUBSET DOMAIN t.deps /\ companion \subseteq DOMAIN t.deps /\ \A n \in DOMAIN t.deps : t.deps[n] \subseteq DOMAIN t.deps
  BY HealthyIs DEF Picker!Names
<1>2. requested \subseteq start
  OBVIOUS
<1>3. Picker!Selection(t, requested, b, m) = Picker!LeastSettled(t.deps, companion, closed)
  BY DEF Picker!Selection
<1>. HIDE DEF start, companion
<1>4. start \subseteq closed /\ closed \in SUBSET DOMAIN t.deps /\ Picker!ClosedUnder(t.deps, closed)
  BY <1>1, PickLeastClosed
<1>. HIDE DEF closed
<1>5. /\ closed \subseteq Picker!LeastSettled(t.deps, companion, closed)
      /\ Picker!LeastSettled(t.deps, companion, closed) \subseteq DOMAIN t.deps
      /\ Picker!ClosedUnder(t.deps, Picker!LeastSettled(t.deps, companion, closed))
  BY <1>1, <1>4, PickLeastSettled
<1>. QED  BY <1>2, <1>3, <1>4, <1>5 DEF Picker!Names

\* The requests and what is selected for a run.
Asked(c) == Picker!Resolved(c.tree, c.args.bricks)
Chosen(c) == Picker!Selection(c.tree, Asked(c), ~c.args.noBaseline, ~c.args.noCompanions)
Planned(c) == c.args.do = {} /\ c.args.bricks # <<>> /\ Picker!Known(c.tree, c.args.bricks)

Says(c, status, shown) == Picker!Main(c.tree, c.args) = Picker!Ends(c.tree, status, shown)
Writes(c) == IF c.args.output = <<>> THEN c.tree ELSE Picker!Emit(c.tree, c.args.output[1], Chosen(c), c.args.bricks)

\* What main does, by the errors of the tree and by what the arguments ask for.
LEMMA MainIs ==
  ASSUME NEW c, PickWorld(c)
  PROVE  /\ ~Healthy(c.tree) => Says(c, 1, {})
         /\ Healthy(c.tree) /\ "validate" \in c.args.do => Says(c, 0, {})
         /\ Healthy(c.tree) /\ "check" \in c.args.do /\ "validate" \notin c.args.do => Says(c, Picker!CheckStatus(c.tree), {})
         /\ Healthy(c.tree) /\ c.args.do = {"list"} => Says(c, 0, Picker!Names(c.tree))
         /\ Healthy(c.tree) /\ c.args.do = {} /\ c.args.bricks = <<>> => Says(c, 1, Picker!Names(c.tree))
         /\ Healthy(c.tree) /\ c.args.do = {} /\ c.args.bricks # <<>> /\ ~Picker!Known(c.tree, c.args.bricks) => Says(c, 1, {})
         /\ Healthy(c.tree) /\ Planned(c) => Picker!Main(c.tree, c.args) = Picker!Ends(Writes(c), 0, Chosen(c))
<1>. DEFINE t == c.tree
            a == c.args
            wrong == Picker!LoadErrors(t) # {} \/ Picker!DagErrors(t) # {} \/ Picker!CatalogErrors(t) # {}
            rest == CASE "validate" \in a.do -> Picker!Ends(t, 0, {})
                      [] "check" \in a.do /\ "validate" \notin a.do -> Picker!Ends(t, Picker!CheckStatus(t), {})
                      [] a.do \cap {"validate", "check"} = {} /\ ("list" \in a.do \/ a.bricks = <<>>) ->
                           Picker!Ends(t, IF "list" \in a.do THEN 0 ELSE 1, Picker!Names(t))
                      [] a.do = {} /\ a.bricks # <<>> ->
                           IF ~Picker!Known(t, a.bricks) THEN Picker!Ends(t, 1, {})
                           ELSE Picker!Ends(IF a.output = <<>> THEN t ELSE Picker!Emit(t, a.output[1], Chosen(c), a.bricks), 0, Chosen(c))
<1>1. Picker!Main(t, a) = CASE wrong -> Picker!Ends(t, 1, {}) [] OTHER -> rest
  BY DEF Picker!Main, Chosen, Asked
<1>2. wrong <=> ~Healthy(t)
  BY DEF Healthy
<1>. HIDE DEF wrong
<1>3. "validate" \in a.do => rest = Picker!Ends(t, 0, {})
  OBVIOUS
<1>4. "check" \in a.do /\ "validate" \notin a.do => rest = Picker!Ends(t, Picker!CheckStatus(t), {})
  OBVIOUS
<1>5. a.do = {"list"} => rest = Picker!Ends(t, 0, Picker!Names(t))
  OBVIOUS
<1>6. a.do = {} /\ a.bricks = <<>> => rest = Picker!Ends(t, 1, Picker!Names(t))
  OBVIOUS
<1>7. a.do = {} /\ a.bricks # <<>> =>
        rest = IF ~Picker!Known(t, a.bricks) THEN Picker!Ends(t, 1, {})
               ELSE Picker!Ends(IF a.output = <<>> THEN t ELSE Picker!Emit(t, a.output[1], Chosen(c), a.bricks), 0, Chosen(c))
  OBVIOUS
<1>. HIDE DEF rest
<1>8. wrong => Picker!Main(t, a) = Picker!Ends(t, 1, {})
  BY <1>1
<1>9. ~wrong => Picker!Main(t, a) = rest
  BY <1>1
<1>. QED  BY <1>2, <1>3, <1>4, <1>5, <1>6, <1>7, <1>8, <1>9 DEF Planned, Says, Writes

\* What was written, if anything was.
LEMMA EmitIs ==
  ASSUME NEW c, PickWorld(c), NEW dir, NEW selected, NEW asked
  PROVE  LET t == c.tree
             e == Picker!Emit(t, dir, selected, asked)
         IN  /\ e = [t EXCEPT !.profiles = e.profiles]
             /\ DOMAIN e.profiles = {dir} \cup DOMAIN t.profiles
             /\ e.profiles[dir] = Picker!RenderProfile(t, selected, asked)
             /\ \A d \in DOMAIN t.profiles : d # dir => e.profiles[d] = t.profiles[d]
<1>. DEFINE t == c.tree
            p == [d \in {dir} \cup DOMAIN t.profiles |-> IF d = dir THEN Picker!RenderProfile(t, selected, asked) ELSE t.profiles[d]]
<1>1. Picker!Emit(t, dir, selected, asked) = [t EXCEPT !.profiles = p]
  BY DEF Picker!Emit
<1>2. t = [deps |-> t.deps, file |-> t.file, twice |-> t.twice, gone |-> t.gone, listed |-> t.listed,
           baseline |-> t.baseline, companions |-> t.companions, aliases |-> t.aliases, profiles |-> t.profiles]
  BY Zenon DEF PickWorld
<1>3. [t EXCEPT !.profiles = p].profiles = p
  <2>. HIDE DEF p
  <2>. QED  BY <1>2
<1>4. DOMAIN p = {dir} \cup DOMAIN t.profiles /\ p[dir] = Picker!RenderProfile(t, selected, asked)
      /\ \A d \in DOMAIN t.profiles : d # dir => p[d] = t.profiles[d]
  OBVIOUS
<1>. HIDE DEF p, t
<1>. QED  BY <1>1, <1>3, <1>4 DEF t

\* Writing a profile changes nothing of a tree that the errors or a selection are taken from.
Alike(e, t) ==
  /\ Healthy(e) <=> Healthy(t)
  /\ Picker!Names(e) = Picker!Names(t)
  /\ \A profile : Picker!Stale(e, profile) <=> Picker!Stale(t, profile)

LEMMA SameTree ==
  ASSUME NEW c, PickWorld(c), NEW p
  PROVE  Alike([c.tree EXCEPT !.profiles = p], c.tree)
<1>. DEFINE t == c.tree
            e == [t EXCEPT !.profiles = p]
<1>1. t = [deps |-> t.deps, file |-> t.file, twice |-> t.twice, gone |-> t.gone, listed |-> t.listed,
           baseline |-> t.baseline, companions |-> t.companions, aliases |-> t.aliases, profiles |-> t.profiles]
  BY Zenon DEF PickWorld
<1>2. /\ e.deps = t.deps /\ e.file = t.file /\ e.twice = t.twice /\ e.gone = t.gone /\ e.listed = t.listed
      /\ e.baseline = t.baseline /\ e.companions = t.companions /\ e.aliases = t.aliases /\ e.profiles = p
  BY <1>1
<1>. HIDE DEF e, t
<1>3. Picker!Names(e) = Picker!Names(t)
  BY <1>2 DEF Picker!Names
<1>4. Picker!LoadErrors(e) = Picker!LoadErrors(t) /\ Picker!DagErrors(e) = Picker!DagErrors(t) /\ Picker!CatalogErrors(e) = Picker!CatalogErrors(t)
  BY <1>2, <1>3 DEF Picker!LoadErrors, Picker!DagErrors, Picker!CatalogErrors
<1>6. \A x : Picker!Resolved(e, x) = Picker!Resolved(t, x)
  BY <1>2, <1>3 DEF Picker!Resolved, Picker!Resolve
<1>7. \A r, x, y : Picker!Selection(e, r, x, y) = Picker!Selection(t, r, x, y)
  BY <1>2 DEF Picker!Selection
<1>8. \A x : Picker!Known(e, x) <=> Picker!Known(t, x)
  BY <1>3, <1>6 DEF Picker!Known
<1>9. ASSUME NEW profile PROVE Picker!Stale(e, profile) <=> Picker!Stale(t, profile)
  <2>. DEFINE a == profile.asked[1]
  <2>1. Picker!Known(e, a) <=> Picker!Known(t, a)
    BY <1>8
  <2>2. Picker!Selection(e, Picker!Resolved(e, a), TRUE, TRUE) = Picker!Selection(t, Picker!Resolved(t, a), TRUE, TRUE)
    BY <1>6, <1>7
  <2>3. Picker!RenderProfile(e, Picker!Selection(e, Picker!Resolved(e, a), TRUE, TRUE), a)
          = Picker!RenderProfile(t, Picker!Selection(t, Picker!Resolved(t, a), TRUE, TRUE), a)
    BY <1>3, <2>2 DEF Picker!RenderProfile
  <2>. QED  BY <2>1, <2>3, Zenon DEF Picker!Stale
<1>10. Healthy(e) <=> Healthy(t)
  BY <1>4 DEF Healthy
<1>11. Alike(e, t)
  BY <1>3, <1>9, <1>10 DEF Alike
<1>. QED  BY <1>11 DEF e, t

\* What a run may do to the profiles: nothing, or write the one it was asked for.
Written(c) ==
  LET ran == Picker!Main(c.tree, c.args)
  IN  /\ Healthy(c.tree) /\ Planned(c) /\ c.args.output # <<>>
      /\ ran.tree = Picker!Emit(c.tree, c.args.output[1], Chosen(c), c.args.bricks)
      /\ ran.exit = 0 /\ ran.shown = Chosen(c)

LEMMA SaysIs ==
  ASSUME NEW c, NEW status, NEW shown, Says(c, status, shown)
  PROVE  /\ Picker!Main(c.tree, c.args).tree = c.tree
         /\ Picker!Main(c.tree, c.args).exit = status
         /\ Picker!Main(c.tree, c.args).shown = shown
BY DEF Says, Picker!Ends

LEMMA RunWrites ==
  ASSUME NEW c, PickWorld(c)
  PROVE  Picker!Main(c.tree, c.args).tree = c.tree \/ Written(c)
<1>1. c.args.do \subseteq {"validate", "check", "list"}
  BY Zenon DEF PickWorld
<1>2. CASE Planned(c) /\ Healthy(c.tree)
  <2>1. Picker!Main(c.tree, c.args) = Picker!Ends(Writes(c), 0, Chosen(c))
    BY <1>2, MainIs
  <2>. QED  BY <1>2, <2>1 DEF Picker!Ends, Writes, Written
<1>3. CASE ~(Planned(c) /\ Healthy(c.tree))
  <2>1. c.args.do = {} \/ c.args.do = {"list"} \/ "validate" \in c.args.do \/ ("check" \in c.args.do /\ "validate" \notin c.args.do)
    BY <1>1
  <2>2. \E status, shown : Says(c, status, shown)
    BY <1>3, <2>1, MainIs DEF Planned
  <2>. QED  BY <2>2, SaysIs
<1>. QED  BY <1>2, <1>3

\* Of a run without -o, the same is shown.
LEMMA DryRun ==
  ASSUME NEW c, PickWorld(c), Healthy(c.tree), Planned(c)
  PROVE  Picker!Main(c.tree, [c.args EXCEPT !.output = <<>>]).shown = Chosen(c)
<1>. DEFINE a == [c.args EXCEPT !.output = <<>>]
            d == [tree |-> c.tree, args |-> a]
<1>1. c.args = [do |-> c.args.do, bricks |-> c.args.bricks, noBaseline |-> c.args.noBaseline,
                noCompanions |-> c.args.noCompanions, output |-> c.args.output]
  BY Zenon DEF PickWorld
<1>2. /\ a.do = c.args.do /\ a.bricks = c.args.bricks /\ a.noBaseline = c.args.noBaseline
      /\ a.noCompanions = c.args.noCompanions /\ a.output = <<>>
      /\ a = [do |-> a.do, bricks |-> a.bricks, noBaseline |-> a.noBaseline, noCompanions |-> a.noCompanions, output |-> a.output]
  BY <1>1
<1>. HIDE DEF a
<1>3. d.tree = c.tree /\ d.args = a
  OBVIOUS
<1>. HIDE DEF d
<1>4. PickWorld(d)
  BY <1>2, <1>3 DEF PickWorld
<1>5. Planned(d) /\ Chosen(d) = Chosen(c)
  BY <1>2, <1>3 DEF Planned, Chosen, Asked
<1>6. Picker!Main(d.tree, d.args) = Picker!Ends(Writes(d), 0, Chosen(d))
  BY <1>3, <1>4, <1>5, MainIs
<1>. QED  BY <1>3, <1>5, <1>6 DEF Picker!Ends, a

\* The profile a run writes keeps what it selected, and what it was asked for is in it.
LEMMA WrittenIs ==
  ASSUME NEW c, PickWorld(c), Written(c)
  PROVE  LET ran == Picker!Main(c.tree, c.args)
             dir == c.args.output[1]
         IN  /\ ran.tree = [c.tree EXCEPT !.profiles = ran.tree.profiles]
             /\ DOMAIN ran.tree.profiles = {dir} \cup DOMAIN c.tree.profiles
             /\ ran.tree.profiles[dir] = Picker!RenderProfile(c.tree, Chosen(c), c.args.bricks)
             /\ \A d \in DOMAIN c.tree.profiles : d # dir => ran.tree.profiles[d] = c.tree.profiles[d]
             /\ Asked(c) \subseteq Chosen(c) /\ Chosen(c) \subseteq Picker!Names(c.tree)
             /\ Picker!ClosedUnder(c.tree.deps, Chosen(c))
             /\ Picker!Kept(c.tree, ran.tree.profiles[dir]) = Chosen(c)
<1>. DEFINE ran == Picker!Main(c.tree, c.args)
            dir == c.args.output[1]
            e == Picker!Emit(c.tree, dir, Chosen(c), c.args.bricks)
<1>1. /\ e = [c.tree EXCEPT !.profiles = e.profiles]
      /\ DOMAIN e.profiles = {dir} \cup DOMAIN c.tree.profiles
      /\ e.profiles[dir] = Picker!RenderProfile(c.tree, Chosen(c), c.args.bricks)
      /\ \A d \in DOMAIN c.tree.profiles : d # dir => e.profiles[d] = c.tree.profiles[d]
  BY EmitIs
<1>2. ran.tree = e
  BY DEF Written
<1>3. Healthy(c.tree) /\ Asked(c) \subseteq Picker!Names(c.tree)
  BY DEF Written, Planned, Picker!Known, Asked
<1>4. /\ Asked(c) \subseteq Chosen(c) /\ Chosen(c) \subseteq Picker!Names(c.tree)
      /\ Picker!ClosedUnder(c.tree.deps, Chosen(c))
  BY <1>3, SelectionIs DEF Chosen
<1>5. Picker!Kept(c.tree, Picker!RenderProfile(c.tree, Chosen(c), c.args.bricks)) = Chosen(c)
  BY <1>4 DEF Picker!Kept, Picker!RenderProfile
<1>. HIDE DEF ran, e
<1>. QED  BY <1>1, <1>2, <1>4, <1>5 DEF ran

\* For every tree, what a run writes deploys.
THEOREM PickWrites ==
  ASSUME NEW c, PickWorld(c)
  PROVE  Picker!WrittenDeploys(c)
<1>. DEFINE ran == Picker!Main(c.tree, c.args)
            dirs == {d \in DOMAIN ran.tree.profiles : d \notin DOMAIN c.tree.profiles \/ ran.tree.profiles[d] # c.tree.profiles[d]}
<1>1. CASE ran.tree = c.tree
  <2>1. dirs = {}
    BY <1>1
  <2>2. \A d \in dirs : FALSE
    BY <2>1
  <2>. HIDE DEF dirs
  <2>. QED  BY <1>1, <2>1, <2>2 DEF Picker!WrittenDeploys, dirs
<1>2. CASE Written(c)
  <2>. DEFINE dir == c.args.output[1]
  <2>1. /\ ran.tree = [c.tree EXCEPT !.profiles = ran.tree.profiles]
        /\ DOMAIN ran.tree.profiles = {dir} \cup DOMAIN c.tree.profiles
        /\ \A d \in DOMAIN c.tree.profiles : d # dir => ran.tree.profiles[d] = c.tree.profiles[d]
        /\ Asked(c) \subseteq Chosen(c)
        /\ Picker!ClosedUnder(c.tree.deps, Chosen(c))
        /\ Picker!Kept(c.tree, ran.tree.profiles[dir]) = Chosen(c)
    BY <1>2, WrittenIs
  <2>2. dirs \subseteq {dir}
    BY <2>1
  <2>3. c.args.output = <<dir>>
    BY <1>2 DEF Written, PickWorld
  <2>4. dir \in Picker!Range(c.args.output)
    BY <2>3 DEF Picker!Range
  <2>5. [ran.tree EXCEPT !.profiles = <<>>] = [c.tree EXCEPT !.profiles = <<>>]
    <3>1. c.tree = [deps |-> c.tree.deps, file |-> c.tree.file, twice |-> c.tree.twice, gone |-> c.tree.gone, listed |-> c.tree.listed,
                    baseline |-> c.tree.baseline, companions |-> c.tree.companions, aliases |-> c.tree.aliases, profiles |-> c.tree.profiles]
      BY Zenon DEF PickWorld
    <3>. HIDE DEF ran
    <3>. QED  BY <2>1, <3>1
  <2>6. /\ ran.exit = 0 /\ ran.shown = Chosen(c) /\ Healthy(c.tree) /\ Planned(c)
    BY <1>2 DEF Written
  <2>7. Picker!Sane(c.tree) /\ DOMAIN c.tree.aliases \cap Picker!Names(c.tree) = {}
    BY <2>6, HealthyIs
  <2>8. ASSUME NEW r \in Picker!Range(c.args.bricks)
        PROVE  IF r \in Picker!Names(c.tree) THEN r \in ran.shown ELSE c.tree.aliases[r] \in ran.shown
    <3>1. Picker!Resolve(c.tree, r) \in Asked(c)
      BY DEF Asked, Picker!Resolved
    <3>2. Picker!Resolve(c.tree, r) \in Picker!Names(c.tree)
      BY <2>6, <3>1 DEF Planned, Picker!Known, Asked
    <3>3. r \in Picker!Names(c.tree) => Picker!Resolve(c.tree, r) = r
      BY <2>7 DEF Picker!Resolve
    <3>4. r \notin Picker!Names(c.tree) => Picker!Resolve(c.tree, r) = c.tree.aliases[r]
      BY <3>2 DEF Picker!Resolve
    <3>. HIDE DEF ran
    <3>. QED  BY <2>1, <2>6, <3>1, <3>3, <3>4
  <2>9. Picker!Main(c.tree, [c.args EXCEPT !.output = <<>>]).shown = ran.shown
    BY <2>6, DryRun
  <2>10. DOMAIN c.tree.profiles \subseteq DOMAIN ran.tree.profiles /\ dirs \subseteq Picker!Range(c.args.output)
    <3>. HIDE DEF ran, dirs, dir
    <3>. QED  BY <2>1, <2>2, <2>4
  <2>11. \A d \in dirs : /\ ran.exit = 0 /\ Picker!Sane(c.tree) /\ ran.shown = Picker!Kept(c.tree, ran.tree.profiles[d])
                         /\ Picker!ClosedUnder(c.tree.deps, ran.shown)
    <3>. HIDE DEF ran, dirs, dir
    <3>. QED  BY <2>1, <2>2, <2>6, <2>7
  <2>. HIDE DEF ran, dirs
  <2>12. LET x == ran
             y == dirs
         IN  /\ [x.tree EXCEPT !.profiles = <<>>] = [c.tree EXCEPT !.profiles = <<>>]
             /\ DOMAIN c.tree.profiles \subseteq DOMAIN x.tree.profiles /\ y \subseteq Picker!Range(c.args.output)
             /\ \A d \in y :
                  /\ x.exit = 0 /\ Picker!Sane(c.tree) /\ x.shown = Picker!Kept(c.tree, x.tree.profiles[d])
                  /\ Picker!ClosedUnder(c.tree.deps, x.shown)
                  /\ \A r \in Picker!Range(c.args.bricks) : IF r \in Picker!Names(c.tree) THEN r \in x.shown ELSE c.tree.aliases[r] \in x.shown
                  /\ Picker!Main(c.tree, [c.args EXCEPT !.output = <<>>]).shown = x.shown
    BY <2>5, <2>8, <2>9, <2>10, <2>11
  <2>. QED  BY <2>12, Zenon DEF Picker!WrittenDeploys, ran, dirs
<1>. QED  BY <1>1, <1>2, RunWrites

\* A profile is a record.
ProfileIs(p) == /\ p = [by |-> p.by, asked |-> p.asked, removed |-> p.removed]
                /\ p.asked = <<>> \/ p.asked = <<p.asked[1]>>

\* A check of a tree passes when the tree is healthy and each of its profiles is current.
LEMMA ChecksAre ==
  ASSUME NEW c, PickWorld(c), NEW t, PickWorld([tree |-> t, args |-> c.args])
  PROVE  Picker!Main(t, [c.args EXCEPT !.do = {"check"}]).exit = 0 <=> Healthy(t) /\ Picker!CheckStatus(t) = 0
<1>. DEFINE a == [c.args EXCEPT !.do = {"check"}]
            d == [tree |-> t, args |-> a]
            o == [tree |-> t, args |-> c.args]
<1>1. c.args = [do |-> c.args.do, bricks |-> c.args.bricks, noBaseline |-> c.args.noBaseline,
                noCompanions |-> c.args.noCompanions, output |-> c.args.output]
  BY Zenon DEF PickWorld
<1>2. /\ a.do = {"check"} /\ a.bricks = c.args.bricks /\ a.noBaseline = c.args.noBaseline
      /\ a.noCompanions = c.args.noCompanions /\ a.output = c.args.output
      /\ a = [do |-> a.do, bricks |-> a.bricks, noBaseline |-> a.noBaseline, noCompanions |-> a.noCompanions, output |-> a.output]
  BY <1>1
<1>. HIDE DEF a
<1>3. d.tree = t /\ d.args = a /\ o.tree = t /\ o.args = c.args
  OBVIOUS
<1>. HIDE DEF d, o
<1>4. PickWorld(o)
  BY DEF o
<1>5. PickWorld(d)
  BY <1>2, <1>3, <1>4, SMTT(30) DEF PickWorld
<1>6. "check" \in d.args.do /\ "validate" \notin d.args.do
  BY <1>2, <1>3
<1>7. CASE Healthy(t)
  <2>1. Says(d, Picker!CheckStatus(t), {})
    BY <1>3, <1>5, <1>6, <1>7, MainIs
  <2>. QED  BY <1>3, <1>7, <2>1, SaysIs DEF a
<1>8. CASE ~Healthy(t)
  <2>1. Says(d, 1, {})
    BY <1>3, <1>5, <1>8, MainIs
  <2>2. Picker!Main(t, a).exit = 1
    BY <1>3, <2>1, SaysIs
  <2>. QED  BY <1>8, <2>2 DEF a
<1>. QED  BY <1>7, <1>8

\* No profile that a check which passes looked at is stale.
LEMMA CheckedIs ==
  ASSUME NEW t, Picker!CheckStatus(t) = 0
  PROVE  /\ \A d \in DOMAIN t.profiles : ~Picker!Stale(t, t.profiles[d])
         /\ \E d \in DOMAIN t.profiles : t.profiles[d].by = "pick"
BY DEF Picker!CheckStatus

LEMMA CheckPasses ==
  ASSUME NEW t, \A d \in DOMAIN t.profiles : ~Picker!Stale(t, t.profiles[d]),
         \E d \in DOMAIN t.profiles : t.profiles[d].by = "pick"
  PROVE  Picker!CheckStatus(t) = 0
BY DEF Picker!CheckStatus

\* A profile that is not stale keeps a closed selection, and what its header asks for.
LEMMA CurrentIs ==
  ASSUME NEW t, Healthy(t), NEW p, p.by = "pick", ~Picker!Stale(t, p)
  PROVE  /\ Picker!ClosedUnder(t.deps, Picker!Kept(t, p))
         /\ Picker!Resolved(t, p.asked[1]) \subseteq Picker!Kept(t, p)
<1>. DEFINE asked == Picker!Resolved(t, p.asked[1])
            selected == Picker!Selection(t, asked, TRUE, TRUE)
<1>1. asked \subseteq Picker!Names(t) /\ p = Picker!RenderProfile(t, selected, p.asked[1])
  BY DEF Picker!Stale, Picker!Known
<1>2. asked \subseteq selected /\ selected \subseteq Picker!Names(t) /\ Picker!ClosedUnder(t.deps, selected)
  BY <1>1, SelectionIs
<1>. HIDE DEF selected, asked
<1>3. p.removed = Picker!Names(t) \ selected
  BY <1>1 DEF Picker!RenderProfile
<1>4. Picker!Kept(t, p) = selected
  BY <1>2, <1>3 DEF Picker!Kept
<1>. QED  BY <1>2, <1>4 DEF asked

\* A profile written with the default options is not stale.
LEMMA WrittenIsCurrent ==
  ASSUME NEW c, PickWorld(c), Healthy(c.tree), Planned(c), c.args.noBaseline = FALSE, c.args.noCompanions = FALSE
  PROVE  ~Picker!Stale(c.tree, Picker!RenderProfile(c.tree, Chosen(c), c.args.bricks))
<1>. DEFINE p == Picker!RenderProfile(c.tree, Chosen(c), c.args.bricks)
<1>1. p.asked = <<c.args.bricks>> /\ p.asked[1] = c.args.bricks /\ p.asked # <<>>
  BY DEF Picker!RenderProfile
<1>2. Picker!Known(c.tree, c.args.bricks)
  BY DEF Planned
<1>3. Chosen(c) = Picker!Selection(c.tree, Picker!Resolved(c.tree, c.args.bricks), TRUE, TRUE)
  <2>1. Chosen(c) = Picker!Selection(c.tree, Picker!Resolved(c.tree, c.args.bricks), ~FALSE, ~FALSE)
    BY DEF Chosen, Asked
  <2>2. (~FALSE) = TRUE
    OBVIOUS
  <2>. QED  BY <2>1, <2>2
<1>4. Picker!RenderProfile(c.tree, Picker!Selection(c.tree, Picker!Resolved(c.tree, p.asked[1]), TRUE, TRUE), p.asked[1]) = p
  BY <1>1, <1>3
<1>. HIDE DEF p
<1>5. ~Picker!Stale(c.tree, p)
  BY <1>1, <1>2, <1>4 DEF Picker!Stale
<1>. QED  BY <1>5 DEF p

\* What is written is a tree with profiles.
LEMMA WrittenWorld ==
  ASSUME NEW c, PickWorld(c), Written(c)
  PROVE  PickWorld([tree |-> Picker!Main(c.tree, c.args).tree, args |-> c.args])
<1>. DEFINE e == Picker!Main(c.tree, c.args).tree
            dir == c.args.output[1]
            d == [tree |-> e, args |-> c.args]
            new == Picker!RenderProfile(c.tree, Chosen(c), c.args.bricks)
<1>1. /\ e = [c.tree EXCEPT !.profiles = e.profiles]
      /\ DOMAIN e.profiles = {dir} \cup DOMAIN c.tree.profiles
      /\ e.profiles[dir] = new
      /\ \A f \in DOMAIN c.tree.profiles : f # dir => e.profiles[f] = c.tree.profiles[f]
  BY WrittenIs
<1>. HIDE DEF e
<1>2. ProfileIs(new)
  BY DEF ProfileIs, Picker!RenderProfile
<1>3. \A f \in DOMAIN c.tree.profiles : ProfileIs(c.tree.profiles[f])
  BY DEF PickWorld, ProfileIs
<1>. HIDE DEF new
<1>4. \A f \in DOMAIN e.profiles : ProfileIs(e.profiles[f])
  BY <1>1, <1>2, <1>3
<1>5. e = [deps |-> e.deps, file |-> e.file, twice |-> e.twice, gone |-> e.gone, listed |-> e.listed,
           baseline |-> e.baseline, companions |-> e.companions, aliases |-> e.aliases, profiles |-> e.profiles]
  <2>1. c.tree = [deps |-> c.tree.deps, file |-> c.tree.file, twice |-> c.tree.twice, gone |-> c.tree.gone, listed |-> c.tree.listed,
                  baseline |-> c.tree.baseline, companions |-> c.tree.companions, aliases |-> c.tree.aliases, profiles |-> c.tree.profiles]
    BY Zenon DEF PickWorld
  <2>. QED  BY <1>1, <2>1
<1>6. d.tree = e /\ d.args = c.args
  OBVIOUS
<1>. HIDE DEF d
<1>7. PickWorld(d)
  BY <1>4, <1>5, <1>6 DEF PickWorld, ProfileIs
<1>. QED  BY <1>7 DEF d, e

\* For every tree, a profile just written passes the check, and a check that passes has
\* looked at profiles each of which deploys what its header asks for.
THEOREM PickChecks ==
  ASSUME NEW c, PickWorld(c)
  PROVE  Picker!CheckedIsCurrent(c)
<1>. DEFINE ran == Picker!Main(c.tree, c.args)
            checks(t) == Picker!Main(t, [c.args EXCEPT !.do = {"check"}]).exit = 0
            dir == c.args.output[1]
<1>1. ran.tree = c.tree \/ Written(c)
  BY RunWrites
<1>2. Written(c) => /\ ran.tree = [c.tree EXCEPT !.profiles = ran.tree.profiles]
                    /\ DOMAIN ran.tree.profiles = {dir} \cup DOMAIN c.tree.profiles
                    /\ ran.tree.profiles[dir] = Picker!RenderProfile(c.tree, Chosen(c), c.args.bricks)
                    /\ \A d \in DOMAIN c.tree.profiles : d # dir => ran.tree.profiles[d] = c.tree.profiles[d]
  BY WrittenIs
<1>3. PickWorld([tree |-> c.tree, args |-> c.args])
  BY DEF PickWorld
<1>4. PickWorld([tree |-> ran.tree, args |-> c.args])
  BY <1>1, <1>3, WrittenWorld
<1>5. checks(c.tree) <=> Healthy(c.tree) /\ Picker!CheckStatus(c.tree) = 0
  BY <1>3, ChecksAre
<1>6. checks(ran.tree) <=> Healthy(ran.tree) /\ Picker!CheckStatus(ran.tree) = 0
  <2>. HIDE DEF ran
  <2>. QED  BY <1>4, ChecksAre
<1>. HIDE DEF ran
<1>7. /\ Healthy(ran.tree) <=> Healthy(c.tree)
      /\ Picker!Names(ran.tree) = Picker!Names(c.tree)
      /\ \A p : Picker!Stale(ran.tree, p) <=> Picker!Stale(c.tree, p)
  <2>1. CASE ran.tree = c.tree
    BY <2>1
  <2>2. CASE Written(c)
    <3>. DEFINE new == ran.tree.profiles
    <3>1. ran.tree = [c.tree EXCEPT !.profiles = new]
      BY <1>2, <2>2
    <3>2. Alike(ran.tree, c.tree)
      <4>. HIDE DEF new
      <4>. QED  BY <3>1, SameTree
    <3>. QED  BY <3>2 DEF Alike
  <2>. QED  BY <1>1, <2>1, <2>2
<1>8. ASSUME ran.tree # c.tree, ~c.args.noBaseline, ~c.args.noCompanions, checks(c.tree) PROVE checks(ran.tree)
  <2>1. Written(c) /\ Healthy(c.tree) /\ Planned(c)
    BY <1>1, <1>8 DEF Written
  <2>2. c.args.noBaseline = FALSE /\ c.args.noCompanions = FALSE
    BY <1>8 DEF PickWorld
  <2>3. ~Picker!Stale(c.tree, ran.tree.profiles[dir]) /\ ran.tree.profiles[dir].by = "pick"
    <3>1. ~Picker!Stale(c.tree, Picker!RenderProfile(c.tree, Chosen(c), c.args.bricks))
      BY <2>1, <2>2, WrittenIsCurrent
    <3>. QED  BY <1>2, <2>1, <3>1 DEF Picker!RenderProfile
  <2>4. \A d \in DOMAIN c.tree.profiles : ~Picker!Stale(c.tree, c.tree.profiles[d])
    BY <1>5, <1>8, CheckedIs
  <2>5. \A d \in DOMAIN ran.tree.profiles : ~Picker!Stale(ran.tree, ran.tree.profiles[d])
    BY <1>2, <1>7, <2>1, <2>3, <2>4
  <2>6. \E d \in DOMAIN ran.tree.profiles : ran.tree.profiles[d].by = "pick"
    BY <1>2, <2>1, <2>3
  <2>. QED  BY <1>6, <1>7, <2>1, <2>5, <2>6, CheckPasses
<1>9. ASSUME checks(ran.tree)
      PROVE  /\ \E d \in DOMAIN ran.tree.profiles : ran.tree.profiles[d].by = "pick"
             /\ \A d \in DOMAIN ran.tree.profiles : ran.tree.profiles[d].by = "pick" =>
                  /\ Picker!ClosedUnder(c.tree.deps, Picker!Kept(c.tree, ran.tree.profiles[d]))
                  /\ Picker!Resolved(c.tree, ran.tree.profiles[d].asked[1]) \subseteq Picker!Kept(c.tree, ran.tree.profiles[d])
  <2>1. /\ Healthy(c.tree)
        /\ \A d \in DOMAIN ran.tree.profiles : ~Picker!Stale(c.tree, ran.tree.profiles[d])
        /\ \E d \in DOMAIN ran.tree.profiles : ran.tree.profiles[d].by = "pick"
    BY <1>6, <1>7, <1>9, CheckedIs
  <2>. QED  BY <2>1, CurrentIs
<1>. HIDE DEF checks
<1>10. /\ (ran.tree # c.tree /\ ~c.args.noBaseline /\ ~c.args.noCompanions /\ checks(c.tree)) => checks(ran.tree)
       /\ checks(ran.tree) =>
            /\ \E d \in DOMAIN ran.tree.profiles : ran.tree.profiles[d].by = "pick"
            /\ \A d \in DOMAIN ran.tree.profiles :
                 LET p == ran.tree.profiles[d] IN
                 p.by = "pick" => Picker!ClosedUnder(c.tree.deps, Picker!Kept(c.tree, p)) /\ Picker!Resolved(c.tree, p.asked[1]) \subseteq Picker!Kept(c.tree, p)
  BY <1>8, <1>9
<1>. QED  BY <1>10, Zenon DEF Picker!CheckedIsCurrent, checks, ran

\* For every tree whose profiles remove bricks of it, a run fails only for a reason.
THEOREM PickFails ==
  ASSUME NEW c, PickWorld(c), \A d \in DOMAIN c.tree.profiles : c.tree.profiles[d].removed \subseteq Picker!Names(c.tree)
  PROVE  Picker!FailsForAReason(c)
<1>. DEFINE t == c.tree
            a == c.args
            ran == Picker!Main(c.tree, c.args)
            reason == \/ Picker!LoadErrors(t) \cup Picker!DagErrors(t) # {}
                      \/ \E n \in t.baseline \cup t.companions \cup Picker!Range(t.aliases) : n \notin Picker!Names(t)
                      \/ DOMAIN t.aliases \cap Picker!Names(t) # {}
                      \/ \E r \in Picker!Range(a.bricks) : r \notin Picker!Names(t) \cup DOMAIN t.aliases
                      \/ a.bricks = <<>> /\ a.do = {}
                      \/ "check" \in a.do /\ ~Picker!GoodProfiles(t)
<1>1. ASSUME ~reason, ran.exit = 1 PROVE FALSE
  <2>1. Healthy(t)
    <3>1. Picker!LoadErrors(t) = {} /\ Picker!DagErrors(t) = {}
      BY <1>1
    <3>2. Picker!CatalogErrors(t) = {}
      BY <1>1 DEF Picker!CatalogErrors
    <3>. QED  BY <3>1, <3>2 DEF Healthy
  <2>2. Picker!Known(t, a.bricks)
    <3>1. ASSUME NEW r \in Picker!Range(a.bricks) PROVE Picker!Resolve(t, r) \in Picker!Names(t)
      <4>1. CASE r \in DOMAIN t.aliases
        BY <1>1, <4>1 DEF Picker!Resolve, Picker!Range
      <4>2. CASE r \notin DOMAIN t.aliases
        BY <1>1, <4>2 DEF Picker!Resolve
      <4>. QED  BY <4>1, <4>2
    <3>. QED  BY <3>1 DEF Picker!Known, Picker!Resolved
  <2>3. a.do \subseteq {"validate", "check", "list"}
    BY Zenon DEF PickWorld
  <2>4. CASE "check" \in a.do /\ "validate" \notin a.do
    <3>1. Picker!GoodProfiles(t)
      BY <1>1, <2>4
    <3>2. \A d \in DOMAIN t.profiles : ProfileIs(t.profiles[d])
      BY DEF PickWorld, ProfileIs
    <3>3. ASSUME NEW d \in DOMAIN t.profiles PROVE ~Picker!Stale(t, t.profiles[d])
      <4>. DEFINE p == t.profiles[d]
      <4>1. CASE p.by # "pick"
        BY <4>1 DEF Picker!Stale
      <4>2. CASE p.by = "pick"
        <5>1. p \in {t.profiles[e] : e \in {f \in DOMAIN t.profiles : t.profiles[f].by = "pick"}}
          BY <4>2
        <5>2. p.asked # <<>> /\ Picker!Known(t, p.asked[1]) /\ Picker!Kept(t, p) = Picker!Selection(t, Picker!Resolved(t, p.asked[1]), TRUE, TRUE)
          BY <3>1, <5>1, Zenon DEF Picker!GoodProfiles
        <5>. DEFINE selected == Picker!Selection(t, Picker!Resolved(t, p.asked[1]), TRUE, TRUE)
        <5>3. p.removed = Picker!Names(t) \ selected
          <6>1. p.removed \subseteq Picker!Names(t)
            OBVIOUS
          <6>. HIDE DEF selected, p, t
          <6>. QED  BY <5>2, <6>1 DEF Picker!Kept, selected
        <5>4. p = [by |-> p.by, asked |-> p.asked, removed |-> p.removed] /\ p.asked = <<p.asked[1]>>
          BY <3>2, <5>2 DEF ProfileIs
        <5>. HIDE DEF selected, p, t
        <5>5. p = Picker!RenderProfile(t, selected, p.asked[1])
          BY <4>2, <5>3, <5>4 DEF Picker!RenderProfile
        <5>6. ~Picker!Stale(t, p)
          BY <5>2, <5>5, Zenon DEF Picker!Stale, selected
        <5>. QED  BY <5>6 DEF p
      <4>. QED  BY <4>1, <4>2
    <3>4. \E d \in DOMAIN t.profiles : t.profiles[d].by = "pick"
      BY <3>1 DEF Picker!GoodProfiles
    <3>5. Picker!CheckStatus(t) = 0
      BY <3>3, <3>4, CheckPasses
    <3>6. Says(c, Picker!CheckStatus(c.tree), {})
      BY <2>1, <2>4, MainIs
    <3>7. ran.exit = 0
      BY <3>5, <3>6, SaysIs
    <3>. QED  BY <1>1, <3>7
  <2>5. CASE "validate" \in a.do \/ a.do = {"list"}
    <3>1. \E shown : Says(c, 0, shown)
      BY <2>1, <2>5, MainIs
    <3>2. ran.exit = 0
      BY <3>1, SaysIs
    <3>. QED  BY <1>1, <3>2
  <2>6. CASE a.do = {}
    <3>1. Planned(c)
      BY <1>1, <2>2, <2>6 DEF Planned
    <3>2. ran = Picker!Ends(Writes(c), 0, Chosen(c))
      BY <2>1, <3>1, MainIs
    <3>3. ran.exit = 0
      BY <3>2 DEF Picker!Ends
    <3>. QED  BY <1>1, <3>3
  <2>. QED  BY <2>3, <2>4, <2>5, <2>6
<1>2. ran.exit = 1 => reason
  BY <1>1
<1>. QED  BY <1>2 DEF Picker!FailsForAReason

\* The runs that are checked are such runs.
LEMMA PickCasesAre ==
  ASSUME NEW c \in Picker!PickCases
  PROVE  PickWorld(c) /\ \A d \in DOMAIN c.tree.profiles : c.tree.profiles[d].removed \subseteq Picker!Names(c.tree)
<1>1. c.tree \in Picker!PickTrees /\ c.args \in Picker!Args
  BY DEF Picker!PickCases
<1>2. /\ c.args = [do |-> c.args.do, bricks |-> c.args.bricks, noBaseline |-> c.args.noBaseline,
                   noCompanions |-> c.args.noCompanions, output |-> c.args.output]
      /\ c.args.do \subseteq {"validate", "check", "list"}
      /\ c.args.noBaseline \in BOOLEAN /\ c.args.noCompanions \in BOOLEAN
      /\ c.args.output = <<>> \/ c.args.output = <<c.args.output[1]>>
  <2>1. c.args \in [do : {{}, {"check"}, {"list"}, {"validate", "check"}}, bricks : {<<>>, <<"b">>, <<"v">>, <<"a", "c">>, <<"y">>},
                    noBaseline : {FALSE}, noCompanions : BOOLEAN, output : {<<>>, <<"old">>, <<"new">>}]
    BY <1>1 DEF Picker!Args
  <2>2. c.args = [do |-> c.args.do, bricks |-> c.args.bricks, noBaseline |-> c.args.noBaseline,
                   noCompanions |-> c.args.noCompanions, output |-> c.args.output]
    BY <2>1
  <2>3. c.args.do \in {{}, {"check"}, {"list"}, {"validate", "check"}} /\ c.args.noBaseline \in {FALSE} /\ c.args.noCompanions \in BOOLEAN
        /\ c.args.output \in {<<>>, <<"old">>, <<"new">>}
    BY <2>1
  <2>4. c.args.do \subseteq {"validate", "check", "list"}
    BY <2>3
  <2>5. c.args.output = <<>> \/ c.args.output = <<c.args.output[1]>>
    BY <2>3
  <2>6. c.args.noBaseline \in BOOLEAN
    BY <2>3
  <2>. QED  BY <2>2, <2>3, <2>4, <2>5, <2>6
<1>. DEFINE Trees == {t \in {c.tree} :
               /\ t = [deps |-> t.deps, file |-> t.file, twice |-> t.twice, gone |-> t.gone, listed |-> t.listed,
                       baseline |-> t.baseline, companions |-> t.companions, aliases |-> t.aliases, profiles |-> t.profiles]
               /\ DOMAIN t.deps = {"a", "b", "c"}
               /\ t.profiles \in Picker!Profiles}
<1>3. \A g \in Picker!Graphs : DOMAIN g = {"a", "b", "c"}
  BY DEF Picker!Graphs, Picker!Chain
<1>4. <<>> \in Picker!Profiles
  BY DEF Picker!Profiles
<1>5. c.tree \in Trees
  <2>1. ASSUME NEW deps \in Picker!Graphs, NEW gone, NEW listed, NEW baseline, NEW companion, NEW aliases, NEW profiles \in Picker!Profiles,
               c.tree = Picker!Tree(deps, gone, listed, baseline, companion, aliases, profiles)
        PROVE  c.tree \in Trees
    BY <1>3, <2>1 DEF Picker!Tree
  <2>2. Picker!Chain \in Picker!Graphs
    BY DEF Picker!Graphs
  <2>3. ASSUME c.tree = [Picker!Tree(Picker!Chain, {}, {"1", "2"}, {}, {}, <<>>, <<>>) EXCEPT !.twice = {"a"}] PROVE c.tree \in Trees
    BY <1>3, <1>4, <2>2, <2>3 DEF Picker!Tree
  <2>. DEFINE A == {Picker!Tree(deps, {}, {"1", "2"}, baseline, companions, aliases, profiles) :
                      deps \in Picker!Graphs, baseline \in {{}, {"b"}}, companions \in {{}, {"c"}},
                      aliases \in {<<>>, [v |-> "b"], [a |-> "c"], [v |-> "x"]}, profiles \in Picker!Profiles}
              B == {Picker!Tree(Picker!Chain, gone, listed, {}, {}, <<>>, <<>>) : gone \in {{}, {"c"}}, listed \in {{"1"}, {"1", "2"}}}
              C == {[Picker!Tree(Picker!Chain, {}, {"1", "2"}, {}, {}, <<>>, <<>>) EXCEPT !.twice = {"a"}]}
  <2>4. Picker!PickTrees = (A \cup B) \cup C
    BY DEF Picker!PickTrees
  <2>. HIDE DEF Trees
  <2>5. c.tree \in A => c.tree \in Trees
    BY <2>1
  <2>6. c.tree \in B => c.tree \in Trees
    BY <1>4, <2>1, <2>2
  <2>7. c.tree \in C => c.tree \in Trees
    BY <2>3
  <2>. HIDE DEF A, B, C
  <2>. QED  BY <1>1, <2>4, <2>5, <2>6, <2>7
<1>6. ASSUME NEW d \in DOMAIN c.tree.profiles PROVE ProfileIs(c.tree.profiles[d]) /\ c.tree.profiles[d].removed \subseteq Picker!Names(c.tree)
  BY <1>5 DEF ProfileIs, Picker!Names, Picker!Profiles, Picker!ByHand
<1>. QED  BY <1>2, <1>5, <1>6, Zenon DEF PickWorld, ProfileIs

-----------------------------------------------------------------------------
\* A file of any number of pages, of which anything was changed or cut off.
EtcdWorld(f) ==
  /\ f.pages \in Nat /\ f.pages >= 2 /\ f.hashed \in BOOLEAN /\ f.cut \in Nat
  /\ f.mark \in [{0, 1} -> Nat] /\ f.txid \in [{0, 1} -> Nat]

\* An etcd snapshot that passes holds every page in use, and as written when its hash is there; a whole one passes.
THEOREM EtcdJudged ==
  ASSUME NEW f, EtcdWorld(f)
  PROVE  Content!EtcdPassRestores(f) /\ Content!EtcdWholePasses(f)
<1>. DEFINE len == Content!Length(f)
            top == Content!HighWater(f)
<1>1. /\ f.pages \in Nat /\ f.pages >= 2 /\ f.hashed \in BOOLEAN /\ f.cut \in Nat
      /\ f.mark[0] \in Nat /\ f.mark[1] \in Nat /\ f.txid[0] \in Nat /\ f.txid[1] \in Nat
  BY DEF EtcdWorld
<1>2. Content!PageSize = 4 /\ Content!TrailerSize = 1
  BY DEF Content!PageSize, Content!TrailerSize
<1>3. Content!Cardinality({f}) = 1
  <2>1. Content!Cardinality({f}) = Cardinality({f})
    BY DEF Content!Cardinality, Cardinality
  <2>. QED  BY <2>1, FS_Singleton
<1>4. Content!CheckEtcd({f}) <=> Content!CheckBolt(f)
  BY <1>3 DEF Content!CheckEtcd
<1>5. len = f.pages * 4 + (IF f.hashed THEN 1 ELSE 0) - f.cut /\ len \in Int
  BY <1>1, <1>2 DEF Content!Length
<1>6. top \in Nat /\ \A i, j \in {0, 1} : f.txid[i] > f.txid[j] => f.mark[i] = top
  BY <1>1 DEF Content!HighWater
<1>. HIDE DEF len, top
<1>7. Content!CheckBolt(f) <=>
        /\ len >= 8 /\ f.bad \cap {0, 1} = {} /\ len % 4 \in {0, 1} /\ len - (len % 4) >= top * 4
        /\ len % 4 = 1 => f.hashed /\ f.cut = 0 /\ f.bad = {}
  BY <1>2 DEF Content!CheckBolt, Content!Body, len, top
<1>8. ASSUME Content!CheckBolt(f)
      PROVE  /\ \A i, j \in {0, 1} : f.txid[i] > f.txid[j] => f.mark[i] * 4 <= len
             /\ f.bad \cap {0, 1} = {}
             /\ f.bad = {} \/ ~f.hashed \/ f.cut >= 1
  <2>1. top * 4 <= len
    BY <1>5, <1>6, <1>7, <1>8
  <2>2. f.hashed /\ f.cut = 0 => len % 4 = 1
    BY <1>1, <1>5
  <2>. QED  BY <1>1, <1>6, <1>7, <1>8, <2>1, <2>2
<1>9. ASSUME f.bad = {}, f.cut = 0, top <= f.pages PROVE Content!CheckBolt(f)
  <2>1. CASE f.hashed
    <3>1. len = f.pages * 4 + 1
      BY <1>1, <1>5, <1>9, <2>1
    <3>2. len % 4 = 1
      BY <1>1, <3>1
    <3>. QED  BY <1>1, <1>6, <1>7, <1>9, <2>1, <3>1, <3>2
  <2>2. CASE ~f.hashed
    <3>1. len = f.pages * 4
      BY <1>1, <1>5, <1>9, <2>2
    <3>2. len % 4 = 0
      BY <1>1, <3>1
    <3>. QED  BY <1>1, <1>6, <1>7, <1>9, <3>1, <3>2
  <2>. QED  BY <2>1, <2>2
<1>. QED  BY <1>2, <1>4, <1>8, <1>9 DEF Content!EtcdPassRestores, Content!EtcdWholePasses, len, top

\* A tar whose list of hashes is as raft writes it, or damaged: then it names nothing.
OpenbaoWorld(s) ==
  /\ s.bad \subseteq s.members /\ s.members \subseteq Content!Parts
  /\ s.listed = IF "SHA256SUMS" \in s.bad THEN {} ELSE {"meta.json", "state.bin"}

\* A raft snapshot that passes has its parts, as written unless their list is damaged; an intact one passes.
THEOREM OpenbaoJudged ==
  ASSUME NEW s, OpenbaoWorld(s)
  PROVE  Content!OpenbaoPassIsIntact(s) /\ Content!OpenbaoIntactPasses(s)
BY DEF OpenbaoWorld, Content!OpenbaoPassIsIntact, Content!OpenbaoIntactPasses, Content!CheckOpenbao, Content!Present, Content!Parts

\* A Longhorn pass: every volume, in any number, names a backup, and it is whole.
THEOREM LonghornJudged ==
  ASSUME NEW w, w.answer \in {"read", "absent", "error"}
  PROVE  Content!LonghornPassIsWhole(w)
<1>. SUFFICES ASSUME Content!Longhorn(w).st = "1"
              PROVE  /\ w.answer = "read" /\ w.volumes # {}
                     /\ \A v \in w.volumes : w.names[v] \in DOMAIN w.backups /\ w.backups[w.names[v]].whole
  BY DEF Content!LonghornPassIsWhole
<1>1. w.answer # "error"
  BY DEF Content!Longhorn
<1>2. w.answer # "absent" /\ w.volumes # {}
  BY <1>1 DEF Content!Longhorn
<1>3. Content!Bad(w) = {}
  BY <1>1, <1>2 DEF Content!Longhorn
<1>. QED  BY <1>1, <1>2, <1>3 DEF Content!Bad

\* The files, tars and volumes that are checked are such ones.
LEMMA ContentCasesAre ==
  /\ \A f \in Content!Files : EtcdWorld(f)
  /\ \A s \in Content!Snapshots : OpenbaoWorld(s)
  /\ \A w \in Content!Worlds : w.answer \in {"read", "absent", "error"}
<1>1. ASSUME NEW f \in Content!Files PROVE EtcdWorld(f)
  <2>1. PICK n \in 2..4 : f \in [pages : {n}, hashed : BOOLEAN, cut : 0..(Content!PageSize + 1), bad : SUBSET (0..n),
                                 mark : [{0, 1} -> 2..n], txid : {[i \in {0, 1} |-> IF i = o THEN 2 ELSE 1] : o \in {0, 1}}]
    BY DEF Content!Files
  <2>2. f.pages = n /\ f.hashed \in BOOLEAN /\ f.cut \in 0..5 /\ f.mark \in [{0, 1} -> 2..n]
        /\ f.txid \in {[i \in {0, 1} |-> IF i = o THEN 2 ELSE 1] : o \in {0, 1}}
    BY <2>1 DEF Content!PageSize
  <2>. QED  BY <2>2 DEF EtcdWorld
<1>2. \A s \in Content!Snapshots : OpenbaoWorld(s)
  BY DEF Content!Snapshots, OpenbaoWorld
<1>3. \A w \in Content!Worlds : w.answer \in {"read", "absent", "error"}
  BY DEF Content!Worlds
<1>. QED  BY <1>1, <1>2, <1>3

-----------------------------------------------------------------------------
\* Rows as a copy may hold them, damaged or not.
RowSet == [c : Nat \ {0}, t : Int, sha : Seq(Int)]

\* The first rows of a line are what the hash of a row is.
LEMMA HeadIs ==
  ASSUME NEW S, NEW line \in Seq(S), NEW c \in Nat, c <= Len(line)
  PROVE  /\ SubSeq(line, 1, c) \in Seq(S) /\ Len(SubSeq(line, 1, c)) = c
         /\ \A j \in 1..c : SubSeq(line, 1, c)[j] = line[j]
OBVIOUS

\* A chain is linked: the number of a row is one more than that of the row before it.
Linked(res) == \A k \in 2..Len(res) : /\ res[k].c = res[k-1].c + 1
                                      /\ res[k].sha = Copy!ChainSha(res[k-1].sha, res[k].c, res[k].t)
LEMMA ChainIs ==
  ASSUME NEW res
  PROVE  ~Copy!ChainErrors(res) <=> Linked(res)
BY DEF Copy!ChainErrors, Linked

LEMMA CountsUp ==
  ASSUME NEW res \in Seq(RowSet), Linked(res), Len(res) > 0
  PROVE  \A k \in 1..Len(res) : res[k].c = res[1].c + (k - 1)
<1>. DEFINE m == Len(res)
            n == m - 1
            P == {j \in 0..n : res[j + 1].c = res[1].c + j}
<1>1. m \in Nat /\ n \in Nat /\ m = n + 1 /\ \A k \in 1..m : res[k].c \in Nat
  <2>1. m \in Nat /\ m >= 1 /\ \A k \in 1..m : res[k] \in RowSet
    OBVIOUS
  <2>2. \A k \in 1..m : res[k].c \in Nat
    BY <2>1 DEF RowSet
  <2>. QED  BY <2>1, <2>2
<1>2. \A k \in 2..m : res[k].c = res[k-1].c + 1
  BY DEF Linked
<1>. HIDE DEF m, n
<1>3. 0 \in P
  BY <1>1
<1>4. ASSUME NEW k \in 1..n, k - 1 \in P PROVE k \in P
  <2>1. res[(k - 1) + 1].c = res[1].c + (k - 1)
    BY <1>4
  <2>2. k + 1 \in 2..m /\ (k + 1) - 1 = k /\ (k - 1) + 1 = k /\ res[1].c \in Nat
    BY <1>1
  <2>3. res[k + 1].c = res[k].c + 1
    BY <1>2, <2>2
  <2>4. res[k].c = res[1].c + (k - 1)
    BY <2>1, <2>2
  <2>5. res[k + 1].c = res[1].c + k /\ k \in 0..n
    <3>. DEFINE x == res[k + 1].c
                y == res[k].c
                z == res[1].c
    <3>1. z \in Nat /\ x = y + 1 /\ y = z + (k - 1)
      BY <2>2, <2>3, <2>4
    <3>. HIDE DEF x, y, z
    <3>2. x = z + k /\ k \in 0..n
      BY <1>1, <3>1
    <3>. QED  BY <3>2 DEF x, z
  <2>. QED  BY <2>5
<1>5. 0..n \subseteq P
  <2>. HIDE DEF P
  <2>. QED  BY <1>1, <1>3, <1>4, Induction
<1>6. ASSUME NEW k \in 1..m PROVE res[k].c = res[1].c + (k - 1)
  <2>1. k - 1 \in 0..n /\ (k - 1) + 1 = k
    BY <1>1
  <2>2. res[(k - 1) + 1].c = res[1].c + (k - 1)
    BY <1>5, <2>1
  <2>. QED  BY <2>1, <2>2
<1>. QED  BY <1>6 DEF m

\* A row whose hash is that of the live line is the live row, and so is the one before.
LEMMA ChainDown ==
  ASSUME NEW live \in Seq(Nat), NEW r \in RowSet, NEW p \in RowSet,
         r.c = p.c + 1, r.sha = Copy!ChainSha(p.sha, r.c, r.t), r.c <= Len(live), r.sha = SubSeq(live, 1, r.c)
  PROVE  /\ p.sha = SubSeq(live, 1, p.c)
         /\ r.t = live[r.c]
<1>. DEFINE c == r.c
            t == r.t
            prev == p.sha
            head == SubSeq(live, 1, c)
<1>1. c \in Nat /\ c >= 2 /\ c <= Len(live) /\ prev \in Seq(Int) /\ t \in Int /\ p.c = c - 1
  <2>1. r.c \in Nat \ {0} /\ p.c \in Nat \ {0} /\ p.sha \in Seq(Int) /\ r.t \in Int
    BY DEF RowSet
  <2>. DEFINE d == p.c
  <2>2. c \in Nat \ {0} /\ d \in Nat \ {0} /\ c = d + 1 /\ c <= Len(live) /\ prev \in Seq(Int) /\ t \in Int
    BY <2>1
  <2>. HIDE DEF c, d, prev, t
  <2>3. c \in Nat /\ c >= 2 /\ d = c - 1
    BY <2>2
  <2>. QED  BY <2>2, <2>3 DEF d
<1>2. head = IF Len(prev) = c - 1 THEN Append(prev, t) ELSE <<Copy!NoStop>>
  BY DEF Copy!ChainSha
<1>3. head \in Seq(Nat) /\ Len(head) = c /\ \A j \in 1..c : head[j] = live[j]
  BY <1>1, HeadIs
<1>. DEFINE before == SubSeq(live, 1, c - 1)
<1>4. before \in Seq(Nat) /\ Len(before) = c - 1 /\ \A j \in 1..(c - 1) : before[j] = live[j]
  BY <1>1, HeadIs, SMTT(30)
<1>. HIDE DEF c, t, prev, head, before
<1>5. Len(prev) = c - 1 /\ head = Append(prev, t)
  <2>1. Len(<<Copy!NoStop>>) = 1
    OBVIOUS
  <2>. QED  BY <1>1, <1>2, <1>3, <2>1
<1>6. head[c] = t /\ \A j \in 1..(c - 1) : head[j] = prev[j]
  BY <1>1, <1>5
<1>7. t = live[c]
  BY <1>1, <1>3, <1>6
<1>8. \A j \in 1..(c - 1) : prev[j] = before[j]
  BY <1>1, <1>3, <1>4, <1>6, SMTT(30)
<1>9. prev = before
  <2>1. before \in Seq(Int) /\ Len(prev) = Len(before) /\ \A j \in 1..Len(prev) : prev[j] = before[j]
    BY <1>1, <1>4, <1>5, <1>8
  <2>. QED  BY <1>1, <2>1, SeqEqual
<1>. QED  BY <1>1, <1>7, <1>9 DEF c, t, prev, before


\* Below a row that is the live one every row of a chain is, the first but for its time.
LEMMA ChainIsLive ==
  ASSUME NEW live \in Seq(Nat), NEW res \in Seq(RowSet), Linked(res), NEW h \in 1..Len(res),
         res[h].c <= Len(live), res[h].sha = SubSeq(live, 1, res[h].c)
  PROVE  \A k \in 1..h : /\ res[k].sha = SubSeq(live, 1, res[k].c)
                         /\ k > 1 => res[k].t = live[res[k].c]
<1>. DEFINE good(k) == res[k].c <= Len(live) /\ res[k].sha = SubSeq(live, 1, res[k].c)
            n == h - 1
            P == {j \in 0..n : good(h - j)}
<1>1. h \in Nat /\ n \in Nat /\ h = n + 1 /\ \A k \in 1..h : res[k] \in RowSet
  OBVIOUS
<1>2. ASSUME NEW k \in 2..h, good(k) PROVE good(k - 1) /\ res[k].t = live[res[k].c]
  <2>1. res[k] \in RowSet /\ res[k-1] \in RowSet
    OBVIOUS
  <2>2. res[k].c = res[k-1].c + 1 /\ res[k].sha = Copy!ChainSha(res[k-1].sha, res[k].c, res[k].t)
    BY DEF Linked
  <2>3. res[k-1].sha = SubSeq(live, 1, res[k-1].c) /\ res[k].t = live[res[k].c]
    <3>. DEFINE r == res[k]
                p == res[k-1]
    <3>1. r \in RowSet /\ p \in RowSet /\ r.c = p.c + 1 /\ r.sha = Copy!ChainSha(p.sha, r.c, r.t)
          /\ r.c <= Len(live) /\ r.sha = SubSeq(live, 1, r.c)
      BY <1>2, <2>1, <2>2
    <3>. HIDE DEF r, p
    <3>2. p.sha = SubSeq(live, 1, p.c) /\ r.t = live[r.c]
      BY <3>1, ChainDown
    <3>. QED  BY <3>2 DEF r, p
  <2>4. res[k-1].c \in Nat /\ res[k].c \in Nat
    BY <2>1 DEF RowSet
  <2>5. res[k-1].c <= Len(live)
    BY <1>2, <2>2, <2>4
  <2>. QED  BY <2>3, <2>5
<1>. HIDE DEF good
<1>3. 0 \in P
  BY <1>1 DEF good
<1>4. ASSUME NEW j \in 1..n, j - 1 \in P PROVE j \in P
  <2>1. h - (j - 1) \in 2..h /\ (h - (j - 1)) - 1 = h - j
    BY <1>1
  <2>2. good(h - (j - 1))
    BY <1>4
  <2>. QED  BY <1>2, <2>1, <2>2
<1>5. 0..n \subseteq P
  <2>. HIDE DEF P, n
  <2>. QED  BY <1>1, <1>3, <1>4, Induction
<1>6. ASSUME NEW k \in 1..h PROVE good(k)
  <2>1. h - k \in 0..n /\ h - (h - k) = k
    BY <1>1
  <2>. QED  BY <1>5, <2>1
<1>7. \A k \in 1..h : res[k].sha = SubSeq(live, 1, res[k].c)
  BY <1>6 DEF good
<1>8. ASSUME NEW k \in 1..h, k > 1 PROVE res[k].t = live[res[k].c]
  BY <1>2, <1>6, <1>8
<1>. QED  BY <1>7, <1>8

\* A database and an archive, of any length, archived to any row, kept from any.
CopyWorld(i) ==
  /\ i.live \in Seq(Nat) /\ i.line \in Seq(Nat)
  /\ i.written \in Nat /\ i.written <= Len(i.live) /\ i.from \in Nat \ {0} /\ (i.written > 0 => i.from <= i.written)
  /\ i.archived \in Nat /\ i.archived <= Len(i.line) /\ i.first \in Nat \ {0}
  /\ i.mode \in {"latest", "pitr"} /\ i.store \in {"primary", "replica"} /\ i.now \in Int /\ i.created \in Int

\* The rows of a line from one on.
TheRows(rows, line, a, b) ==
  /\ rows \in Seq(RowSet)
  /\ Len(rows) = IF a <= b THEN b - a + 1 ELSE 0
  /\ \A k \in 1..Len(rows) : /\ rows[k].c = a + k - 1
                             /\ rows[k].t = line[a + k - 1]
                             /\ rows[k].sha = SubSeq(line, 1, a + k - 1)
LEMMA RowsAre ==
  ASSUME NEW line \in Seq(Nat), NEW a \in Nat \ {0}, NEW b \in Nat, b <= Len(line)
  PROVE  TheRows(Copy!Rows(line, a, b), line, a, b)
<1>. DEFINE m == IF a <= b THEN b - a + 1 ELSE 0
            row(k) == Copy!Row(line, a + k - 1)
<1>1. m \in Nat /\ 1..(b - a + 1) = 1..m
  OBVIOUS
<1>2. ASSUME NEW k \in 1..m PROVE row(k) \in RowSet
  <2>1. a + k - 1 \in Nat \ {0} /\ a + k - 1 <= Len(line)
    OBVIOUS
  <2>2. line[a + k - 1] \in Int
    BY <2>1
  <2>3. SubSeq(line, 1, a + k - 1) \in Seq(Int)
    <3>1. line \in Seq(Int)
      OBVIOUS
    <3>. QED  BY <2>1, <3>1, HeadIs
  <2>. QED  BY <2>1, <2>2, <2>3 DEF Copy!Row, RowSet
<1>3. Copy!Rows(line, a, b) = [k \in 1..m |-> row(k)]
  BY <1>1 DEF Copy!Rows
<1>4. \A k \in 1..m : /\ row(k).c = a + k - 1
                      /\ row(k).t = line[a + k - 1]
                      /\ row(k).sha = SubSeq(line, 1, a + k - 1)
  BY DEF Copy!Row
<1>. HIDE DEF m, row
<1>5. [k \in 1..m |-> row(k)] \in Seq(RowSet) /\ Len([k \in 1..m |-> row(k)]) = m
  BY <1>1, <1>2
<1>6. \A k \in 1..m : [j \in 1..m |-> row(j)][k] = row(k)
  OBVIOUS
<1>. QED  BY <1>3, <1>4, <1>5, <1>6 DEF m, TheRows

\* What is recovered from an archive is rows, damaged or not.
LEMMA RecoveredIs ==
  ASSUME NEW i, CopyWorld(i), NEW target
  PROVE  Copy!Recovered(i, target) \in Seq(RowSet)
<1>. DEFINE C == {c \in 1..i.archived : i.mode = "latest" \/ i.line[c] <= target}
<1>1. Cardinality(C) \in Nat /\ Cardinality(C) <= i.archived
  <2>1. C \in SUBSET (1..i.archived) /\ i.archived \in Nat
    BY DEF CopyWorld
  <2>. HIDE DEF C
  <2>2. IsFiniteSet(1..i.archived) /\ Cardinality(1..i.archived) = i.archived
    BY <2>1, FS_Interval, SMTT(30)
  <2>3. IsFiniteSet(C) /\ Cardinality(C) <= i.archived
    BY <2>1, <2>2, FS_Subset
  <2>. QED  BY <2>3, FS_CardinalityType
<1>3. Copy!Recovered(i, target) = Copy!Rows(i.line, i.first, Cardinality(C))
  BY DEF Copy!Recovered, Copy!Cardinality, Cardinality
<1>. HIDE DEF C
<1>4. i.line \in Seq(Nat) /\ i.first \in Nat \ {0} /\ Cardinality(C) <= Len(i.line)
  BY <1>1 DEF CopyWorld
<1>5. TheRows(Copy!Rows(i.line, i.first, Cardinality(C)), i.line, i.first, Cardinality(C))
  BY <1>1, <1>4, RowsAre
<1>. QED  BY <1>3, <1>5 DEF TheRows

LEMMA DamagedIs ==
  ASSUME NEW rows \in Seq(RowSet), NEW d
  PROVE  Copy!Damaged(rows, d) \in Seq(RowSet)
<1>1. \A k \in 1..Len(rows) : rows[k] \in RowSet
  OBVIOUS
<1>2. CASE d.what = "hash"
  <2>1. ASSUME NEW r \in RowSet PROVE [r EXCEPT !.sha = <<Copy!NoStop>>] \in RowSet
    <3>1. r.c \in Nat \ {0} /\ r.t \in Int /\ <<Copy!NoStop>> \in Seq(Int)
      BY DEF RowSet, Copy!NoStop
    <3>2. [r EXCEPT !.sha = <<Copy!NoStop>>] = [c |-> r.c, t |-> r.t, sha |-> <<Copy!NoStop>>]
      BY SMTT(30) DEF RowSet
    <3>. QED  BY <3>1, <3>2 DEF RowSet
  <2>2. Copy!Damaged(rows, d) = [k \in 1..Len(rows) |-> IF k = d.at THEN [rows[k] EXCEPT !.sha = <<Copy!NoStop>>] ELSE rows[k]]
    BY <1>2 DEF Copy!Damaged
  <2>3. \A k \in 1..Len(rows) : (IF k = d.at THEN [rows[k] EXCEPT !.sha = <<Copy!NoStop>>] ELSE rows[k]) \in RowSet
    BY <1>1, <2>1
  <2>. QED  BY <2>2, <2>3
<1>3. CASE d.what = "time"
  <2>1. ASSUME NEW r \in RowSet PROVE [r EXCEPT !.t = @ + 1] \in RowSet
    <3>1. r.c \in Nat \ {0} /\ r.t + 1 \in Int /\ r.sha \in Seq(Int)
      BY DEF RowSet
    <3>2. [r EXCEPT !.t = @ + 1] = [c |-> r.c, t |-> r.t + 1, sha |-> r.sha]
      BY DEF RowSet
    <3>. QED  BY <3>1, <3>2 DEF RowSet
  <2>2. Copy!Damaged(rows, d) = [k \in 1..Len(rows) |-> IF k = d.at THEN [rows[k] EXCEPT !.t = @ + 1] ELSE rows[k]]
    BY <1>3 DEF Copy!Damaged
  <2>3. \A k \in 1..Len(rows) : (IF k = d.at THEN [rows[k] EXCEPT !.t = @ + 1] ELSE rows[k]) \in RowSet
    BY <1>1, <2>1
  <2>. QED  BY <2>2, <2>3
<1>4. CASE d.what = "hole"
  <2>1. Copy!Damaged(rows, d) = [k \in 1..(Len(rows) - 1) |-> IF k < d.at THEN rows[k] ELSE rows[k+1]]
    BY <1>4 DEF Copy!Damaged
  <2>2. \A k \in 1..(Len(rows) - 1) : (IF k < d.at THEN rows[k] ELSE rows[k+1]) \in RowSet
    BY <1>1
  <2>3. \E n \in Nat : 1..(Len(rows) - 1) = 1..n
    <3>1. CASE Len(rows) = 0
      BY <3>1, 1..(-1) = 1..0
    <3>2. CASE Len(rows) > 0
      <4>1. Len(rows) - 1 \in Nat
        BY <3>2
      <4>. QED  BY <4>1
    <3>. QED  BY <3>1, <3>2
  <2>. QED  BY <2>1, <2>2, <2>3
<1>5. CASE d.what \notin {"hash", "time", "hole"}
  BY <1>5 DEF Copy!Damaged
<1>. QED  BY <1>2, <1>3, <1>4, <1>5

\* The budgets the run gives the stores.
LagBudget == [s \in {"primary", "replica"} |-> IF s = "primary" THEN 10 ELSE 20]

\* A copy that compares well with the live rows is this database, as far as it is known.
LEMMA CompareIs ==
  ASSUME NEW live \in Seq(Nat), NEW from \in Nat \ {0}, NEW written \in Nat, from <= written, written <= Len(live),
         NEW res \in Seq(RowSet), NEW tables, NEW emptied, NEW store, NEW mode, NEW want,
         Copy!Compare(Copy!Rows(live, from, written), res, tables, emptied, store, mode, want)
  PROVE  /\ tables /\ ~emptied /\ Len(res) > 0 /\ Linked(res)
         /\ \A k \in 1..Len(res) : res[k].c <= written =>
              /\ res[k].sha = SubSeq(live, 1, res[k].c)
              /\ k > 1 => res[k].t = live[res[k].c]
         /\ mode = "pitr" => res[Len(res)].c = want
         /\ mode # "pitr" /\ res[Len(res)].c < written => live[written] - live[res[Len(res)].c] <= LagBudget[store]
<1>. DEFINE src == Copy!Rows(live, from, written)
            n == Len(src)
            m == Len(res)
            last == res[m]
            same == {k \in 1..n : src[k].c = last.c}
<1>1. /\ n = written - from + 1 /\ n \in Nat \ {0}
      /\ \A k \in 1..n : src[k].c = from + k - 1 /\ src[k].t = live[from + k - 1] /\ src[k].sha = SubSeq(live, 1, from + k - 1)
  <2>1. TheRows(src, live, from, written)
    BY RowsAre
  <2>. HIDE DEF src
  <2>. QED  BY <2>1 DEF TheRows
<1>2. tables /\ ~emptied /\ res # <<>> /\ Linked(res)
  BY ChainIs DEF Copy!Compare
<1>3. /\ \A k \in same : src[k].sha = last.sha
      /\ same = {} => Copy!Ahead(src, res)
      /\ IF mode = "pitr" THEN last.c = want ELSE \A k \in same : src[n].t - src[k].t <= LagBudget[store]
  BY DEF Copy!Compare, LagBudget
<1>4. m \in Nat \ {0} /\ \A k \in 1..m : res[k] \in RowSet
  BY <1>2
<1>5. \A k \in 1..m : res[k].c = res[1].c + (k - 1)
  <2>1. Len(res) > 0
    BY <1>4
  <2>. QED  BY <1>2, <2>1, CountsUp
<1>6. \A k \in 1..m : res[k].c \in Nat \ {0}
  BY <1>4 DEF RowSet
<1>7. ASSUME from <= last.c, last.c <= written PROVE last.c - from + 1 \in same
  <2>1. last.c \in Nat
    BY <1>4, <1>6
  <2>2. last.c - from + 1 \in 1..n /\ from + (last.c - from + 1) - 1 = last.c
    <3>1. ASSUME NEW c \in Nat, from <= c, c <= written, NEW b, b = written - from + 1
          PROVE  c - from + 1 \in 1..b /\ from + (c - from + 1) - 1 = c
      BY <3>1
    <3>. HIDE DEF n, last
    <3>. QED  BY <1>1, <1>7, <2>1, <3>1
  <2>. QED  BY <1>1, <2>2
<1>8. ASSUME same = {} PROVE last.c > written /\ \E k \in 1..m : res[k].c = written /\ res[k].sha = SubSeq(live, 1, written)
  <2>1. n \in 1..n /\ from + n - 1 = written
    BY <1>1, SMTT(30)
  <2>2. src[n].c = written /\ src[n].sha = SubSeq(live, 1, written)
    BY <1>1, <2>1
  <2>3. Copy!Ahead(src, res)
    BY <1>3, <1>8
  <2>. HIDE DEF src, same
  <2>4. res[m].c > src[n].c /\ \E k \in 1..m : res[k].c = src[n].c /\ res[k].sha = src[n].sha
    BY <2>3 DEF Copy!Ahead
  <2>. QED  BY <2>2, <2>4
<1>9. same # {} => last.sha = SubSeq(live, 1, last.c) /\ last.c <= written /\ last.c <= Len(live)
  <2>. SUFFICES ASSUME NEW k \in same
                PROVE  last.sha = SubSeq(live, 1, last.c) /\ last.c <= written /\ last.c <= Len(live)
    <3>. HIDE DEF same, last
    <3>. QED  OBVIOUS
  <2>1. k \in 1..n /\ from + k - 1 = last.c /\ src[k].sha = SubSeq(live, 1, from + k - 1) /\ src[k].sha = last.sha
    BY <1>1, <1>3
  <2>2. from + k - 1 <= written /\ from + k - 1 <= Len(live)
    BY <1>1, <2>1
  <2>. QED  BY <2>1, <2>2
<1>10. \E h \in 1..m : /\ res[h].c <= Len(live) /\ res[h].sha = SubSeq(live, 1, res[h].c)
                       /\ \A k \in 1..m : res[k].c <= written => k <= h
  <2>1. CASE same # {}
    <3>1. m \in 1..m /\ \A k \in 1..m : k <= m
      BY <1>4
    <3>. QED  BY <1>9, <2>1, <3>1
  <2>2. CASE same = {}
    <3>1. PICK h \in 1..m : res[h].c = written /\ res[h].sha = SubSeq(live, 1, written)
      BY <1>8, <2>2
    <3>2. ASSUME NEW k \in 1..m, res[k].c <= written PROVE k <= h
      <4>1. res[k].c = res[1].c + (k - 1) /\ res[h].c = res[1].c + (h - 1) /\ res[1].c \in Nat
        BY <1>4, <1>5, <1>6
      <4>. QED  BY <3>1, <3>2, <4>1, SMTT(30)
    <3>. QED  BY <3>1, <3>2
  <2>. QED  BY <2>1, <2>2
<1>11. ASSUME NEW k \in 1..m, res[k].c <= written
       PROVE  res[k].sha = SubSeq(live, 1, res[k].c) /\ (k > 1 => res[k].t = live[res[k].c])
  <2>1. PICK h \in 1..m : /\ res[h].c <= Len(live) /\ res[h].sha = SubSeq(live, 1, res[h].c)
                          /\ \A j \in 1..m : res[j].c <= written => j <= h
    BY <1>10
  <2>2. k \in 1..h
    BY <1>11, <2>1
  <2>. QED  BY <1>2, <2>1, <2>2, ChainIsLive
<1>12. ASSUME mode # "pitr", last.c < written PROVE live[written] - live[last.c] <= LagBudget[store]
  <2>1. same # {}
    BY <1>4, <1>6, <1>8, <1>12
  <2>2. PICK k \in same : TRUE
    BY <2>1
  <2>3. k \in 1..n /\ from + k - 1 = last.c /\ src[k].t = live[last.c] /\ src[n].t - src[k].t <= LagBudget[store]
    BY <1>1, <1>3, <1>12
  <2>4. src[n].t = live[written]
    <3>1. n \in 1..n /\ from + n - 1 = written
      BY <1>1
    <3>. QED  BY <1>1, <3>1
  <2>. QED  BY <2>3, <2>4
<1>13. mode = "pitr" => last.c = want
  BY <1>3
<1>. HIDE DEF src, same
<1>. QED  BY <1>2, <1>4, <1>11, <1>12, <1>13

\* A copy that passes is this database's own history, fresh enough or cut at the target,
\* whatever line its archive holds and whatever a row of it lost.
THEOREM CopyPassIsGenuine ==
  ASSUME NEW i, CopyWorld(i)
  PROVE  Copy!PassIsGenuine(i)
<1>. DEFINE res == Copy!Restored(i)
            m == Len(res)
<1>1. SUFFICES ASSUME Copy!Verdict(i) = "pass"
               PROVE  /\ i.tables /\ ~i.emptied /\ res # <<>>
                      /\ Copy!Genuine(i) /\ Copy!Fresh(i)
                      /\ i.mode = "pitr" => Copy!Newest(i) = Copy!Target(i).c
  BY DEF Copy!PassIsGenuine
<1>2. i.written # 0 /\ Copy!Compare(Copy!Source(i), res, i.tables, i.emptied, i.store, i.mode, Copy!Target(i).c)
  BY <1>1 DEF Copy!Verdict, Copy!FirstBackup
<1>3. res \in Seq(RowSet)
  <2>. HIDE DEF CopyWorld
  <2>. QED  BY RecoveredIs, DamagedIs DEF Copy!Restored
<1>4. /\ i.live \in Seq(Nat) /\ i.from \in Nat \ {0} /\ i.written \in Nat /\ (i.written > 0 => i.from <= i.written) /\ i.written <= Len(i.live)
      /\ i.mode \in {"latest", "pitr"}
  BY DEF CopyWorld
<1>5. CASE i.from <= i.written
  <2>. HIDE DEF res
  <2>0. Copy!Compare(Copy!Rows(i.live, i.from, i.written), res, i.tables, i.emptied, i.store, i.mode, Copy!Target(i).c)
    BY <1>2 DEF Copy!Source
  <2>1. /\ i.tables /\ ~i.emptied /\ Len(res) > 0 /\ Linked(res)
        /\ \A k \in 1..Len(res) : res[k].c <= i.written =>
              /\ res[k].sha = SubSeq(i.live, 1, res[k].c)
              /\ k > 1 => res[k].t = i.live[res[k].c]
        /\ i.mode = "pitr" => res[Len(res)].c = Copy!Target(i).c
        /\ i.mode # "pitr" /\ res[Len(res)].c < i.written =>
              i.live[i.written] - i.live[res[Len(res)].c] <= LagBudget[i.store]
    BY <1>3, <1>4, <1>5, <2>0, CompareIs
  <2>2. Copy!Genuine(i)
    <3>1. \A k \in 1..Len(res) : k > 1 => res[k].c = res[k-1].c + 1
      BY <2>1 DEF Linked
    <3>. QED  BY <2>1, <3>1 DEF Copy!Genuine, res
  <2>3. Copy!Fresh(i) /\ (i.mode = "pitr" => Copy!Newest(i) = Copy!Target(i).c)
    BY <2>1, <1>4 DEF Copy!Fresh, Copy!Newest, LagBudget, res
  <2>4. res # <<>>
    BY <2>1
  <2>. QED  BY <2>1, <2>2, <2>3, <2>4
<1>6. i.from <= i.written
  BY <1>2, <1>4
<1>. QED  BY <1>5, <1>6

\* The rows of a line are a chain.
LEMMA RowsAreLinked ==
  ASSUME NEW line \in Seq(Nat), NEW a \in Nat \ {0}, NEW b \in Nat, b <= Len(line)
  PROVE  Linked(Copy!Rows(line, a, b))
<1>. DEFINE rows == Copy!Rows(line, a, b)
<1>1. Len(rows) = (IF a <= b THEN b - a + 1 ELSE 0)
      /\ \A k \in 1..Len(rows) : rows[k].c = a + k - 1 /\ rows[k].t = line[a + k - 1] /\ rows[k].sha = SubSeq(line, 1, a + k - 1)
  <2>1. TheRows(rows, line, a, b)
    BY RowsAre
  <2>. HIDE DEF rows
  <2>. QED  BY <2>1 DEF TheRows
<1>. HIDE DEF rows
<1>2. ASSUME NEW k \in 2..Len(rows)
      PROVE  rows[k].c = rows[k-1].c + 1 /\ rows[k].sha = Copy!ChainSha(rows[k-1].sha, rows[k].c, rows[k].t)
  <2>. DEFINE c == a + k - 1
              head == SubSeq(line, 1, c)
              before == SubSeq(line, 1, c - 1)
  <2>1. k \in 1..Len(rows) /\ k - 1 \in 1..Len(rows) /\ a + (k - 1) - 1 = c - 1 /\ c \in Nat /\ c - 1 \in Nat /\ c <= Len(line)
    BY <1>1
  <2>2. rows[k].c = c /\ rows[k].t = line[c] /\ rows[k].sha = head /\ rows[k-1].c = c - 1 /\ rows[k-1].sha = before
    BY <1>1, <2>1
  <2>3. head \in Seq(Nat) /\ Len(head) = c /\ \A j \in 1..c : head[j] = line[j]
    BY <2>1, HeadIs
  <2>4. before \in Seq(Nat) /\ Len(before) = c - 1 /\ \A j \in 1..(c - 1) : before[j] = line[j]
    BY <2>1, HeadIs
  <2>5. line[c] \in Nat
    BY <1>1, <2>1
  <2>6. c = (c - 1) + 1
    BY <2>1
  <2>. HIDE DEF c, head, before
  <2>7. Append(before, line[c]) \in Seq(Nat) /\ Len(Append(before, line[c])) = c
        /\ \A j \in 1..c : Append(before, line[c])[j] = line[j]
    BY <2>1, <2>4, <2>5, SMTT(30)
  <2>8. head = Append(before, line[c])
    <3>. DEFINE next == Append(before, line[c])
    <3>1. next \in Seq(Nat) /\ Len(next) = c /\ \A j \in 1..c : next[j] = head[j]
      BY <2>3, <2>7
    <3>. HIDE DEF next
    <3>2. Len(head) = Len(next) /\ \A j \in 1..Len(head) : head[j] = next[j]
      BY <2>3, <3>1
    <3>3. head = next
      BY <2>3, <3>1, <3>2, SeqEqual
    <3>. QED  BY <3>3 DEF next
  <2>9. Copy!ChainSha(before, c, line[c]) = head
    BY <2>4, <2>8 DEF Copy!ChainSha
  <2>. QED  BY <2>2, <2>6, <2>9
<1>. QED  BY <1>2 DEF Linked, rows

\* The copy of a sound archive compares well.
SoundTo(i, n, want) ==
  /\ i.live \in Seq(Nat) /\ i.from \in Nat \ {0} /\ i.written \in Nat /\ i.from <= i.written /\ i.written <= Len(i.live)
  /\ i.first \in Nat \ {0} /\ i.first <= i.from /\ n \in Nat /\ i.from <= n /\ n <= Len(i.live)
  /\ i.tables /\ ~i.emptied /\ i.store \in {"primary", "replica"}
  /\ i.mode = "pitr" => n = want /\ n <= i.written
  /\ i.mode # "pitr" /\ n < i.written => i.live[i.written] - i.live[n] <= LagBudget[i.store]
LEMMA SoundCompares ==
  ASSUME NEW i, NEW n, NEW want, SoundTo(i, n, want)
  PROVE  Copy!Compare(Copy!Source(i), Copy!Rows(i.live, i.first, n), i.tables, i.emptied, i.store, i.mode, want)
<1>. DEFINE live == i.live
            from == i.from
            written == i.written
            first == i.first
            store == i.store
            mode == i.mode
<1>0. /\ live \in Seq(Nat) /\ from \in Nat \ {0} /\ written \in Nat /\ from <= written /\ written <= Len(live)
      /\ first \in Nat \ {0} /\ first <= from /\ n \in Nat /\ from <= n /\ n <= Len(live)
  BY DEF SoundTo
<1>a. i.tables /\ ~i.emptied /\ store \in {"primary", "replica"}
  BY DEF SoundTo
<1>b. /\ mode = "pitr" => n = want /\ n <= written
      /\ mode # "pitr" /\ n < written => live[written] - live[n] <= LagBudget[store]
  BY DEF SoundTo
<1>. HIDE DEF live, from, written, first, store, mode
<1>. DEFINE src == Copy!Rows(live, from, written)
            res == Copy!Rows(live, first, n)
            last == res[Len(res)]
            same == {k \in 1..Len(src) : src[k].c = last.c}
<1>1. /\ Len(src) = written - from + 1
      /\ \A k \in 1..Len(src) : src[k].c = from + k - 1 /\ src[k].t = live[from + k - 1] /\ src[k].sha = SubSeq(live, 1, from + k - 1)
  <2>1. TheRows(src, live, from, written)
    BY <1>0, RowsAre
  <2>. HIDE DEF src
  <2>. QED  BY <1>0, <2>1 DEF TheRows
<1>2. /\ Len(res) = n - first + 1
      /\ \A k \in 1..Len(res) : res[k].c = first + k - 1 /\ res[k].sha = SubSeq(live, 1, first + k - 1)
  <2>1. TheRows(res, live, first, n)
    BY <1>0, RowsAre
  <2>. HIDE DEF res
  <2>2. first <= n
    BY <1>0
  <2>. QED  BY <1>0, <2>1, <2>2 DEF TheRows
<1>3. Linked(res)
  BY <1>0, RowsAreLinked
<1>. HIDE DEF src, res
<1>4. Len(res) \in 1..Len(res) /\ first + Len(res) - 1 = n /\ res # <<>>
  BY <1>0, <1>2
<1>5. last.c = n /\ last.sha = SubSeq(live, 1, n)
  BY <1>0, <1>2, <1>4
<1>6. ASSUME NEW k \in same PROVE k \in 1..Len(src) /\ from + k - 1 = n /\ src[k].sha = last.sha /\ src[k].t = live[n] /\ n <= written
  <2>1. k \in 1..Len(src) /\ from + k - 1 = n
    BY <1>0, <1>1, <1>5
  <2>2. n <= written
    BY <1>0, <1>1, <2>1
  <2>. QED  BY <1>1, <1>5, <2>1, <2>2
<1>7. n <= written => n - from + 1 \in same
  <2>. SUFFICES ASSUME n <= written PROVE n - from + 1 \in same
    OBVIOUS
  <2>1. n - from + 1 \in 1..Len(src) /\ from + (n - from + 1) - 1 = n
    BY <1>0, <1>1
  <2>. QED  BY <1>1, <1>5, <2>1
<1>8. Len(src) \in 1..Len(src) /\ from + Len(src) - 1 = written
  BY <1>0, <1>1, SMTT(30)
<1>9. src[Len(src)].c = written /\ src[Len(src)].t = live[written] /\ src[Len(src)].sha = SubSeq(live, 1, written)
  BY <1>0, <1>1, <1>8
<1>10. ASSUME same = {} PROVE Copy!Ahead(src, res)
  <2>1. n > written
    BY <1>0, <1>7, <1>10
  <2>2. written - first + 1 \in 1..Len(res) /\ first + (written - first + 1) - 1 = written
    BY <1>0, <1>2, <2>1
  <2>3. res[written - first + 1].c = written /\ res[written - first + 1].sha = SubSeq(live, 1, written)
    BY <1>0, <1>2, <2>2
  <2>. QED  BY <1>5, <1>9, <2>1, <2>2, <2>3 DEF Copy!Ahead
<1>11. ASSUME mode # "pitr", NEW k \in same PROVE src[Len(src)].t - src[k].t <= LagBudget[store]
  <2>1. n <= written /\ src[k].t = live[n]
    BY <1>0, <1>6
  <2>2. live[written] - live[n] <= LagBudget[store]
    <3>1. CASE n < written
      BY <1>b, <1>11, <3>1
    <3>2. CASE n = written
      <4>1. LagBudget[store] \in {10, 20}
        BY <1>a DEF LagBudget
      <4>2. live[written] \in Nat
        BY <1>0
      <4>. QED  BY <3>2, <4>1, <4>2
    <3>3. n < written \/ n = written
      BY <1>0, <2>1
    <3>. QED  BY <3>1, <3>2, <3>3
  <2>. QED  BY <1>9, <2>1, <2>2
<1>12. mode = "pitr" => last.c = want
  BY <1>b, <1>5
<1>13. ~Copy!ChainErrors(res)
  BY <1>0, <1>3, ChainIs
<1>14. \A k \in same : src[k].sha = last.sha
  BY <1>0, <1>6
<1>15. Copy!Compare(src, res, i.tables, i.emptied, store, mode, want)
  BY <1>a, <1>4, <1>10, <1>11, <1>12, <1>13, <1>14 DEF Copy!Compare, LagBudget
<1>. QED  BY <1>15 DEF src, res, live, from, written, first, store, mode, Copy!Source

\* The row a point in time recovery aims at is a live one, old enough.
LEMMA TargetIs ==
  ASSUME NEW i, CopyWorld(i), i.written > 0, Copy!Target(i) # Copy!NoRow
  PROVE  \E c \in i.from..i.written : /\ Copy!Target(i).c = c /\ Copy!Target(i).t = i.live[c]
                                      /\ i.live[c] <= i.now - 20
<1>. DEFINE src == Copy!Source(i)
            ok == {k \in 1..Len(src) : src[k].t <= i.now - 20 /\ \A s \in i.stops \ {Copy!NoStop} : src[k].t >= s + 3}
            k0 == CHOOSE k \in ok : \A j \in ok : j <= k
<1>1. i.live \in Seq(Nat) /\ i.from \in Nat \ {0} /\ i.written \in Nat /\ i.from <= i.written /\ i.written <= Len(i.live)
  BY DEF CopyWorld
<1>2. /\ Len(src) = i.written - i.from + 1
      /\ \A k \in 1..Len(src) : src[k].c = i.from + k - 1 /\ src[k].t = i.live[i.from + k - 1]
  <2>1. TheRows(Copy!Rows(i.live, i.from, i.written), i.live, i.from, i.written)
    BY <1>1, RowsAre
  <2>2. TheRows(src, i.live, i.from, i.written)
    BY <2>1 DEF Copy!Source
  <2>. HIDE DEF src
  <2>. QED  BY <1>1, <2>2 DEF TheRows
<1>3. Copy!Target(i) = IF ok = {} THEN Copy!NoRow ELSE src[k0]
  BY DEF Copy!Target, Copy!PickPitrTarget
<1>4. ok # {}
  BY <1>3
<1>5. k0 \in ok
  <2>1. ok \in SUBSET (0..Len(src)) /\ Len(src) \in Nat
    BY <1>1, <1>2
  <2>. HIDE DEF ok, src
  <2>2. \E k \in ok : \A j \in ok : j <= k
    BY <1>4, <2>1, GreatestExists
  <2>. QED  BY <2>2
<1>6. k0 \in 1..Len(src) /\ src[k0].t <= i.now - 20
  <2>. HIDE DEF k0
  <2>. QED  BY <1>5
<1>. HIDE DEF k0, ok, src
<1>7. i.from + k0 - 1 \in i.from..i.written
  BY <1>1, <1>2, <1>6
<1>8. Copy!Target(i) = src[k0]
  BY <1>3, <1>4
<1>. QED  BY <1>2, <1>6, <1>7, <1>8

\* Rows that are two seconds apart are told by their times.
LEMMA ApartGrows ==
  ASSUME NEW line \in Seq(Nat), Copy!Apart(line), NEW a \in 1..Len(line), NEW b \in 1..Len(line), a < b
  PROVE  line[a] + 4 < line[b]
<1>. DEFINE n == b - a - 1
            P == {j \in 0..n : line[a] + 4 < line[a + 1 + j]}
<1>1. n \in Nat /\ a \in Nat \ {0} /\ b \in Nat /\ b = a + 1 + n /\ b <= Len(line)
  OBVIOUS
<1>2. \A c \in 2..Len(line) : line[c] - line[c-1] > 4
  BY DEF Copy!Apart
<1>3. \A c \in 1..Len(line) : line[c] \in Nat
  OBVIOUS
<1>. HIDE DEF n
<1>4. 0 \in P
  <2>1. a + 1 \in 2..Len(line) /\ (a + 1) - 1 = a /\ a + 1 + 0 = a + 1
    BY <1>1
  <2>. QED  BY <1>1, <1>2, <1>3, <2>1, SMTT(30)
<1>5. ASSUME NEW j \in 1..n, j - 1 \in P PROVE j \in P
  <2>1. a + 1 + j \in 2..Len(line) /\ (a + 1 + j) - 1 = a + 1 + (j - 1) /\ a + 1 + (j - 1) \in 1..Len(line)
    BY <1>1
  <2>2. line[a] + 4 < line[a + 1 + (j - 1)]
    BY <1>5
  <2>3. line[a + 1 + j] - line[a + 1 + (j - 1)] > 4
    BY <1>2, <2>1
  <2>4. line[a] \in Nat /\ line[a + 1 + (j - 1)] \in Nat /\ line[a + 1 + j] \in Nat
    BY <1>3, <2>1
  <2>5. ASSUME NEW x \in Nat, NEW y \in Nat, NEW z \in Nat, x + 4 < y, z - y > 4 PROVE x + 4 < z
    BY <2>5
  <2>6. line[a] + 4 < line[a + 1 + j]
    BY <2>2, <2>3, <2>4, <2>5
  <2>. QED  BY <2>6
<1>6. 0..n \subseteq P
  <2>. HIDE DEF P
  <2>. QED  BY <1>1, <1>4, <1>5, Induction
<1>7. n \in 0..n /\ a + 1 + n = b
  BY <1>1
<1>8. line[a] + 4 < line[a + 1 + n]
  BY <1>6, <1>7
<1>. QED  BY <1>7, <1>8

\* What is recovered of a sound archive: all of it, or its rows up to the target.
LEMMA RecoveredOf ==
  ASSUME NEW i, CopyWorld(i), NEW target, NEW n \in Nat, n <= i.archived,
         \A c \in 1..i.archived : (i.mode = "latest" \/ i.line[c] <= target) <=> c <= n
  PROVE  Copy!Recovered(i, target) = Copy!Rows(i.line, i.first, n)
<1>. DEFINE C == {c \in 1..i.archived : i.mode = "latest" \/ i.line[c] <= target}
<1>1. C = 1..n
  <2>1. i.archived \in Nat
    BY DEF CopyWorld
  <2>. QED  BY <2>1
<1>2. Cardinality(C) = n
  <2>1. Cardinality(1..n) = IF 1 > n THEN 0 ELSE n - 1 + 1
    BY FS_Interval, 1 \in Int, n \in Int
  <2>. HIDE DEF C
  <2>. QED  BY <1>1, <2>1
<1>3. Copy!Recovered(i, target) = Copy!Rows(i.line, i.first, Cardinality(C))
  BY DEF Copy!Recovered, Copy!Cardinality, Cardinality
<1>. HIDE DEF C
<1>. QED  BY <1>2, <1>3

\* A copy of a sound archive is not failed: neither an archive that is young, cut short
\* within the budget or gone on since, nor a target it was cut at.
THEOREM CopyFailsForAReason ==
  ASSUME NEW i, CopyWorld(i)
  PROVE  Copy!NoFalseFailure(i)
<1>. SUFFICES ASSUME Copy!Sound(i), Copy!Verdict(i) = "fail" PROVE FALSE
  BY DEF Copy!NoFalseFailure
<1>. DEFINE t == Copy!Target(i).t
            c0 == Copy!Target(i).c
            target == Copy!TargetTime(t)
<1>1. /\ i.live \in Seq(Nat) /\ i.from \in Nat \ {0} /\ i.written \in Nat /\ i.written <= Len(i.live)
      /\ i.archived \in Nat /\ i.archived <= Len(i.line) /\ i.first \in Nat \ {0}
      /\ i.mode \in {"latest", "pitr"} /\ i.store \in {"primary", "replica"} /\ i.now \in Int
  BY DEF CopyWorld
<1>2. /\ i.tables /\ ~i.emptied /\ i.damage.what = "none" /\ i.line = i.live
      /\ i.stops = {} => i.now - i.created <= 15
      /\ i.archived >= i.first /\ i.first <= i.from
  BY DEF Copy!Sound
<1>3. Copy!FirstBackup(i.stops, i.created, i.now) # "fail"
  <2>1. i.now \in Int /\ i.created \in Int
    BY DEF CopyWorld
  <2>2. i.stops = {} => ~(i.now - i.created > 15)
    BY <1>2, <2>1
  <2>. QED  BY <2>2 DEF Copy!FirstBackup
<1>4. /\ i.written # 0 /\ ~(i.mode = "pitr" /\ Copy!Target(i) = Copy!NoRow)
      /\ ~Copy!Compare(Copy!Source(i), Copy!Restored(i), i.tables, i.emptied, i.store, i.mode, c0)
  BY <1>3 DEF Copy!Verdict, Copy!FirstBackup
<1>5. i.from <= i.written
  BY <1>1, <1>4 DEF CopyWorld
<1>6. Copy!Restored(i) = Copy!Recovered(i, target)
  BY <1>2 DEF Copy!Restored, Copy!Damaged
<1>7. CASE i.mode = "latest"
  <2>1. i.archived < i.written => i.archived >= i.from /\ i.live[i.written] - i.live[i.archived] <= LagBudget[i.store]
    BY <1>7, <1>1, <1>4 DEF Copy!Sound, LagBudget
  <2>2. i.from <= i.archived
    BY <1>1, <1>5, <2>1
  <2>. HIDE DEF target, t, c0
  <2>3. Copy!Restored(i) = Copy!Rows(i.live, i.first, i.archived)
    <3>1. \A c \in 1..i.archived : (i.mode = "latest" \/ i.line[c] <= target) <=> c <= i.archived
      BY <1>1, <1>7
    <3>2. Copy!Recovered(i, target) = Copy!Rows(i.line, i.first, i.archived)
      BY <1>1, <3>1, RecoveredOf
    <3>. QED  BY <1>2, <1>6, <3>2
  <2>4. i.mode # "pitr" /\ i.archived <= Len(i.live)
    BY <1>1, <1>2, <1>7
  <2>5. SoundTo(i, i.archived, c0)
    <3>1. /\ i.live \in Seq(Nat) /\ i.from \in Nat \ {0} /\ i.written \in Nat /\ i.from <= i.written /\ i.written <= Len(i.live)
          /\ i.first \in Nat \ {0} /\ i.first <= i.from /\ i.archived \in Nat /\ i.from <= i.archived /\ i.archived <= Len(i.live)
          /\ i.tables /\ ~i.emptied /\ i.store \in {"primary", "replica"}
      BY <1>1, <1>2, <1>5, <2>2, <2>4
    <3>2. i.mode = "pitr" => i.archived = c0 /\ i.archived <= i.written
      BY <2>4
    <3>3. i.mode # "pitr" /\ i.archived < i.written => i.live[i.written] - i.live[i.archived] <= LagBudget[i.store]
      BY <2>1
    <3>. QED  BY ONLY <3>1, <3>2, <3>3 DEF SoundTo
  <2>. QED  BY <1>4, <2>3, <2>5, SoundCompares
<1>8. CASE i.mode = "pitr"
  <2>1. Copy!Apart(i.live) /\ \A c \in 1..i.written : i.live[c] <= i.now - 20 => i.archived >= c
    BY <1>2, <1>8 DEF Copy!Sound
  <2>2. PICK n \in i.from..i.written : c0 = n /\ t = i.live[n] /\ i.live[n] <= i.now - 20
    BY <1>1, <1>4, <1>8, TargetIs
  <2>3. n \in 1..i.written /\ n \in 1..Len(i.live) /\ n \in Nat /\ i.archived >= n /\ t \in Nat
    BY <1>1, <2>1, <2>2, SMTT(30)
  <2>4. t + 2 < target /\ target <= t + 4 /\ target \in Int
    <3>. HIDE DEF t
    <3>. QED  BY <2>3 DEF Copy!TargetTime
  <2>. HIDE DEF target, t, c0
  <2>5. ASSUME NEW c \in 1..i.archived PROVE (i.mode = "latest" \/ i.line[c] <= target) <=> c <= n
    <3>1. c \in 1..Len(i.live) /\ i.line[c] = i.live[c] /\ i.live[c] \in Nat /\ c \in Nat
      BY <1>1, <1>2
    <3>2. CASE c < n
      <4>1. i.live[c] + 4 < i.live[n]
        BY <1>1, <2>1, <2>3, <3>1, <3>2, ApartGrows
      <4>. QED  BY <2>2, <2>3, <2>4, <3>1, <3>2, <4>1
    <3>3. CASE c = n
      BY <2>2, <2>3, <2>4, <3>1, <3>3
    <3>4. CASE n < c
      <4>1. i.live[n] + 4 < i.live[c]
        BY <1>1, <2>1, <2>3, <3>1, <3>4, ApartGrows
      <4>2. ~(i.line[c] <= target)
        BY <2>2, <2>3, <2>4, <3>1, <4>1
      <4>. QED  BY <1>8, <2>3, <3>1, <3>4, <4>2
    <3>. QED  BY <2>3, <3>1, <3>2, <3>3, <3>4
  <2>6. Copy!Restored(i) = Copy!Rows(i.live, i.first, n)
    <3>1. Copy!Recovered(i, target) = Copy!Rows(i.line, i.first, n)
      BY <2>3, <2>5, RecoveredOf
    <3>. QED  BY <1>2, <1>6, <3>1
  <2>7. i.from <= n /\ n <= Len(i.live) /\ n <= i.written
    BY <2>2, <2>3, <1>1
  <2>8. SoundTo(i, n, c0)
    <3>1. /\ i.live \in Seq(Nat) /\ i.from \in Nat \ {0} /\ i.written \in Nat /\ i.from <= i.written /\ i.written <= Len(i.live)
          /\ i.first \in Nat \ {0} /\ i.first <= i.from /\ n \in Nat /\ i.from <= n /\ n <= Len(i.live)
          /\ i.tables /\ ~i.emptied /\ i.store \in {"primary", "replica"}
      BY <1>1, <1>2, <1>5, <2>3, <2>7
    <3>2. i.mode = "pitr" => n = c0 /\ n <= i.written
      BY <2>2, <2>7
    <3>3. i.mode # "pitr" /\ n < i.written => i.live[i.written] - i.live[n] <= LagBudget[i.store]
      BY <1>8
    <3>. QED  BY ONLY <3>1, <3>2, <3>3 DEF SoundTo
  <2>. QED  BY <1>4, <2>6, <2>8, SoundCompares
<1>. QED  BY <1>1, <1>7, <1>8

\* The cases of the run are such databases and archives.
LEMMA CopyCasesAre == \A i \in Copy!Cases : CopyWorld(i)
<1>1. ASSUME NEW l \in MCLines PROVE l \in Seq(Nat) /\ Len(l) = 5
  <2>1. ASSUME NEW a \in Nat, NEW b \in Nat, NEW c \in Nat, NEW d \in Nat, NEW e \in Nat, l = <<a, b, c, d, e>>
        PROVE  l \in Seq(Nat) /\ Len(l) = 5
    BY <2>1
  <2>2. \/ l = <<10, 20, 30, 40, 50>> \/ l = <<10, 20, 33, 43, 53>>
        \/ l = <<10, 20, 24, 34, 44>> \/ l = <<11, 21, 31, 41, 51>>
    BY DEF MCLines
  <2>3. CASE l = <<10, 20, 30, 40, 50>>
    BY <2>3, <2>1
  <2>4. CASE l = <<10, 20, 33, 43, 53>>
    BY <2>4, <2>1
  <2>5. CASE l = <<10, 20, 24, 34, 44>>
    BY <2>5, <2>1
  <2>6. CASE l = <<11, 21, 31, 41, 51>>
    BY <2>6, <2>1
  <2>. QED  BY <2>2, <2>3, <2>4, <2>5, <2>6
<1>2. ASSUME NEW i, i.live \in MCLines, i.line \in MCLines, i.from \in 1..2, i.first \in 1..2, i.archived \in 0..5,
             i.written \in {0, 2, 3, 4, 5}, i.written = 0 \/ i.from <= i.written,
             i.mode \in {"latest", "pitr"}, i.store \in {"primary", "replica"}, i.now \in {51, 60}, i.created \in {0, 40}
      PROVE  CopyWorld(i)
  <2>1. i.live \in Seq(Nat) /\ Len(i.live) = 5 /\ i.line \in Seq(Nat) /\ Len(i.line) = 5
    BY <1>1, <1>2
  <2>. QED  BY <1>2, <2>1 DEF CopyWorld
<1>. DEFINE A == {[mode |-> "latest", store |-> s, live |-> l, from |-> f, written |-> n, line |-> m,
                   archived |-> k, first |-> f, damage |-> d, tables |-> TRUE, emptied |-> FALSE,
                   stops |-> {0}, created |-> 0, now |-> 60] :
                    s \in {"primary", "replica"}, l \in MCLines, f \in 1..2, n \in 3..4, m \in MCLines, k \in 1..5,
                    d \in {Copy!NoDamage} \cup [what : {"hash", "time", "hole"}, at : 1..3]}
            B == {[mode |-> o, store |-> "primary", live |-> l, from |-> 1, written |-> n, line |-> l,
                   archived |-> k, first |-> 1, damage |-> Copy!NoDamage, tables |-> t, emptied |-> e,
                   stops |-> b, created |-> a, now |-> w] :
                    o \in {"latest", "pitr"}, l \in MCLines, n \in {0, 2, 4, 5}, k \in {0, 3, 5}, t, e \in BOOLEAN,
                    b \in {{}, {Copy!NoStop}, {5}, {5, 22}}, a \in {0, 40}, w \in {51, 60}}
<1>3. Copy!Cases = A \cup B
  <2>1. DOMAIN [s \in {"primary", "replica"} |-> IF s = "primary" THEN 10 ELSE 20] = {"primary", "replica"}
    OBVIOUS
  <2>. QED  BY <2>1 DEF Copy!Cases
<1>4. ASSUME NEW i \in A PROVE CopyWorld(i)
  <2>1. PICK s \in {"primary", "replica"}, l \in MCLines, f \in 1..2, n \in 3..4, m \in MCLines, k \in 1..5,
             d \in {Copy!NoDamage} \cup [what : {"hash", "time", "hole"}, at : 1..3] :
          i = [mode |-> "latest", store |-> s, live |-> l, from |-> f, written |-> n, line |-> m,
               archived |-> k, first |-> f, damage |-> d, tables |-> TRUE, emptied |-> FALSE,
               stops |-> {0}, created |-> 0, now |-> 60]
    OBVIOUS
  <2>2. /\ i.live = l /\ i.line = m /\ i.from = f /\ i.first = f /\ i.written = n /\ i.archived = k
        /\ i.mode = "latest" /\ i.store = s /\ i.now = 60 /\ i.created = 0
    BY <2>1
  <2>. QED  BY <1>2, <2>2
<1>5. ASSUME NEW i \in B PROVE CopyWorld(i)
  <2>1. PICK o \in {"latest", "pitr"}, l \in MCLines, n \in {0, 2, 4, 5}, k \in {0, 3, 5}, t, e \in BOOLEAN,
             b \in {{}, {Copy!NoStop}, {5}, {5, 22}}, a \in {0, 40}, w \in {51, 60} :
          i = [mode |-> o, store |-> "primary", live |-> l, from |-> 1, written |-> n, line |-> l,
               archived |-> k, first |-> 1, damage |-> Copy!NoDamage, tables |-> t, emptied |-> e,
               stops |-> b, created |-> a, now |-> w]
    BY SMTT(30)
  <2>2. /\ i.live = l /\ i.line = l /\ i.from = 1 /\ i.first = 1 /\ i.written = n /\ i.archived = k
        /\ i.mode = o /\ i.store = "primary" /\ i.now = w /\ i.created = a
    BY <2>1, SMTT(30)
  <2>3. n \in {0, 2, 3, 4, 5} /\ k \in 0..5 /\ (n = 0 \/ 1 <= n)
    BY SMTT(30)
  <2>. HIDE DEF B
  <2>. QED  BY ONLY <1>2, <2>2, <2>3, l \in MCLines, o \in {"latest", "pitr"}, a \in {0, 40}, w \in {51, 60}
<1>. HIDE DEF A, B
<1>. QED  BY <1>3, <1>4, <1>5

-----------------------------------------------------------------------------
\* Bricks in any number, of any objects, that depend on each other in any way.
BrickWorld(c) ==
  /\ IsFiniteSet(DOMAIN c.bricks)
  /\ \A b \in DOMAIN c.bricks : \A o \in c.bricks[b].objects : o.kind # ""
  /\ \A b \in DOMAIN c.bricks : c.bricks[b].build \in {"ok", "failed", "silent"}

\* More than one is two that differ.
LEMMA MoreThanOne ==
  ASSUME NEW S, IsFiniteSet(S)
  PROVE  Cardinality(S) > 1 <=> \E x, y \in S : x # y
<1>1. ASSUME NEW x \in S, NEW y \in S, x # y PROVE Cardinality(S) > 1
  <2>1. IsFiniteSet({x}) /\ Cardinality({x}) = 1
    BY FS_Singleton
  <2>2. IsFiniteSet({x} \cup {y}) /\ Cardinality({x} \cup {y}) = 2
    <3>1. y \notin {x}
      BY <1>1
    <3>. DEFINE one == {x}
    <3>. HIDE DEF one
    <3>2. IsFiniteSet(one \cup {y}) /\ Cardinality(one \cup {y}) = IF y \in one THEN Cardinality(one) ELSE Cardinality(one) + 1
      BY <2>1, FS_AddElement DEF one
    <3>. QED  BY <2>1, <3>1, <3>2 DEF one
  <2>3. ({x} \cup {y}) \in SUBSET S
    OBVIOUS
  <2>4. Cardinality({x} \cup {y}) <= Cardinality(S) /\ Cardinality(S) \in Nat
    BY <2>3, FS_Subset, FS_CardinalityType
  <2>. QED  BY <2>2, <2>4
<1>2. ASSUME \A x, y \in S : x = y PROVE ~(Cardinality(S) > 1)
  <2>1. CASE S = {}
    BY <2>1, FS_EmptySet
  <2>2. CASE S # {}
    <3>1. PICK x \in S : S = {x}
      BY <1>2, <2>2
    <3>2. Cardinality({x}) = 1
      BY FS_Singleton
    <3>. QED  BY <3>1, <3>2
  <2>. QED  BY <2>1, <2>2
<1>. QED  BY <1>1, <1>2

\* The keys of what a brick makes.
KeysOf(bricks, b) == {Renders!Key(o) : o \in bricks[b].objects}
\* A key collides when bricks of two paths make it.
LEMMA CollisionsAre ==
  ASSUME NEW c, BrickWorld(c)
  PROVE  Renders!Collisions(c.bricks) # {} <=>
           \E a, b \in Renders!Built(c.bricks) : \E k \in KeysOf(c.bricks, a) \cap KeysOf(c.bricks, b) :
             c.bricks[a].path # c.bricks[b].path
<1>. DEFINE bs == c.bricks
            built == Renders!Built(bs)
<1>1. IsFiniteSet(built)
  <2>1. built \in SUBSET (DOMAIN bs) /\ IsFiniteSet(DOMAIN bs)
    BY DEF BrickWorld, Renders!Built
  <2>. QED  BY <2>1, FS_Subset
<1>2. ASSUME NEW k PROVE Renders!Owners(bs, k) = {bs[b].path : b \in {x \in built : k \in KeysOf(bs, x)}}
  <2>1. \A b \in built : (\E o \in bs[b].objects : o.kind # "" /\ Renders!Key(o) = k) <=> k \in KeysOf(bs, b)
    BY DEF BrickWorld, KeysOf, Renders!Built
  <2>. QED  BY <2>1 DEF Renders!Owners
<1>3. ASSUME NEW k
      PROVE  Cardinality(Renders!Owners(bs, k)) > 1 <=>
               \E a, b \in built : k \in KeysOf(bs, a) /\ k \in KeysOf(bs, b) /\ bs[a].path # bs[b].path
  <2>. DEFINE makers == {x \in built : k \in KeysOf(bs, x)}
              owners == {bs[b].path : b \in makers}
  <2>1. IsFiniteSet(makers)
    <3>1. makers \in SUBSET built
      OBVIOUS
    <3>. HIDE DEF makers, built
    <3>. QED  BY <1>1, <3>1, FS_Subset
  <2>2. IsFiniteSet(owners)
    <3>. DEFINE f == [b \in makers |-> bs[b].path]
    <3>2. f \in Surjection(makers, owners)
      BY DEF Surjection
    <3>. HIDE DEF f, makers, owners
    <3>. QED  BY <2>1, <3>2, FS_Surjection
  <2>3. Cardinality(owners) > 1 <=> \E x, y \in owners : x # y
    <3>. HIDE DEF owners
    <3>. QED  BY <2>2, MoreThanOne
  <2>4. Renders!Owners(bs, k) = owners
    BY <1>2
  <2>. HIDE DEF built, bs
  <2>5. (\E x, y \in owners : x # y) <=> \E a, b \in makers : bs[a].path # bs[b].path
    OBVIOUS
  <2>. HIDE DEF owners
  <2>. QED  BY <2>3, <2>4, <2>5
<1>4. Renders!Collisions(bs) # {} <=> \E p \in UNION {bs[b].objects : b \in built} : Cardinality(Renders!Owners(bs, Renders!Key(p))) > 1
  <2>. DEFINE twice == {p \in UNION {bs[b].objects : b \in built} : Cardinality(Renders!Owners(bs, Renders!Key(p))) > 1}
  <2>1. Renders!Collisions(bs) = {<<"collision", k>> : k \in {Renders!Key(o) : o \in twice}}
    BY DEF Renders!Collisions, Renders!Cardinality, Cardinality
  <2>2. twice # {} <=> \E p \in UNION {bs[b].objects : b \in built} : Cardinality(Renders!Owners(bs, Renders!Key(p))) > 1
    <3>. HIDE DEF built, bs
    <3>. QED  OBVIOUS
  <2>. HIDE DEF twice
  <2>3. {<<"collision", k>> : k \in {Renders!Key(o) : o \in twice}} # {} <=> twice # {}
    <3>. DEFINE keys == {Renders!Key(o) : o \in twice}
    <3>1. keys # {} <=> twice # {}
      OBVIOUS
    <3>2. {<<"collision", k>> : k \in keys} # {} <=> keys # {}
      <4>. HIDE DEF keys
      <4>. QED  BY Zenon
    <3>. QED  BY <3>1, <3>2
  <2>. HIDE DEF built, bs
  <2>. QED  BY <2>1, <2>2, <2>3
<1>. HIDE DEF bs, built
<1>5. ASSUME NEW p \in UNION {bs[b].objects : b \in built}, Cardinality(Renders!Owners(bs, Renders!Key(p))) > 1
      PROVE  \E a, b \in built : \E k \in KeysOf(bs, a) \cap KeysOf(bs, b) : bs[a].path # bs[b].path
  BY <1>3, <1>5
<1>6. ASSUME NEW a \in built, NEW b \in built, NEW k \in KeysOf(bs, a) \cap KeysOf(bs, b), bs[a].path # bs[b].path
      PROVE  \E p \in UNION {bs[x].objects : x \in built} : Cardinality(Renders!Owners(bs, Renders!Key(p))) > 1
  <2>1. PICK p \in bs[a].objects : Renders!Key(p) = k
    BY DEF KeysOf
  <2>2. Cardinality(Renders!Owners(bs, k)) > 1
    BY <1>3, <1>6
  <2>. QED  BY <2>1, <2>2
<1>. QED  BY <1>4, <1>5, <1>6 DEF bs, built

\* The objects of the cluster a brick makes, whatever their version.
IdsOf(bricks, b) == {Renders!Served(o) : o \in bricks[b].objects}
\* A brick writes its objects under its path.
Wrote(bricks, cluster, b) ==
  [k \in DOMAIN cluster \cup {Renders!Served(o) : o \in bricks[b].objects} |->
     IF \E o \in bricks[b].objects : Renders!Served(o) = k THEN bricks[b].path ELSE cluster[k]]
\* What is written by a, then b, and what that comes to.
Both(bricks, a, b) == Wrote(bricks, Wrote(bricks, [k \in {} |-> ""], a), b)
Comes(bricks, a, b) ==
  [k \in IdsOf(bricks, a) \cup IdsOf(bricks, b) |-> IF k \in IdsOf(bricks, b) THEN bricks[b].path ELSE bricks[a].path]
\* After two bricks, an object is the second's where it makes it, and else the first's.
LEMMA WroteBoth == ASSUME NEW bs, NEW a, NEW b PROVE Both(bs, a, b) = Comes(bs, a, b)
<1>. DEFINE A == IdsOf(bs, a)
            B == IdsOf(bs, b)
            once == Wrote(bs, [k \in {} |-> ""], a)
<1>1. once = [k \in A |-> bs[a].path]
  <2>1. once = [k \in {} \cup A |-> IF k \in A THEN bs[a].path ELSE [l \in {} |-> ""][k]]
    BY DEF Wrote, IdsOf
  <2>. HIDE DEF A
  <2>2. {} \cup A = A
    OBVIOUS
  <2>. QED  BY <2>1, <2>2
<1>2. Wrote(bs, once, b) = [k \in DOMAIN once \cup B |-> IF k \in B THEN bs[b].path ELSE once[k]]
  <2>. HIDE DEF once
  <2>. QED  BY DEF Wrote, IdsOf
<1>. HIDE DEF A, B, once
<1>3. DOMAIN once = A /\ \A k \in A : once[k] = bs[a].path
  BY <1>1
<1>4. Wrote(bs, once, b) = [k \in A \cup B |-> IF k \in B THEN bs[b].path ELSE bs[a].path]
  BY <1>2, <1>3
<1>. QED  BY <1>4 DEF A, B, once, Both, Comes

\* Two bricks can be applied in any order exactly when what both make is of one path.
LEMMA OrderOfTwo ==
  ASSUME NEW bs, NEW a, NEW b
  PROVE  Both(bs, a, b) = Both(bs, b, a) <=> \A k \in IdsOf(bs, a) \cap IdsOf(bs, b) : bs[a].path = bs[b].path
<1>. DEFINE A == IdsOf(bs, a)
            B == IdsOf(bs, b)
            p == bs[a].path
            q == bs[b].path
            ab == [k \in A \cup B |-> IF k \in B THEN q ELSE p]
            ba == [k \in B \cup A |-> IF k \in A THEN p ELSE q]
<1>1. Both(bs, a, b) = ab /\ Both(bs, b, a) = ba
  <2>1. Both(bs, a, b) = Comes(bs, a, b) /\ Both(bs, b, a) = Comes(bs, b, a)
    BY WroteBoth
  <2>. QED  BY <2>1 DEF Comes
<1>2. ab = ba <=> \A k \in A \cap B : p = q
  <2>. HIDE DEF A, B, p, q
  <2>1. ASSUME ab = ba, NEW k \in A \cap B PROVE p = q
    <3>1. ab[k] = q /\ ba[k] = p
      OBVIOUS
    <3>. QED  BY <2>1, <3>1
  <2>2. ASSUME \A k \in A \cap B : p = q PROVE ab = ba
    <3>1. A \cup B = B \cup A
      OBVIOUS
    <3>2. ASSUME NEW k \in A \cup B PROVE (IF k \in B THEN q ELSE p) = (IF k \in A THEN p ELSE q)
      BY <2>2
    <3>. QED  BY <3>1, <3>2
  <2>. QED  BY <2>1, <2>2
<1>. QED  BY <1>1, <1>2

\* And where the order matters, both make the object.
LEMMA OrderAt ==
  ASSUME NEW bs, NEW a, NEW b, NEW k \in DOMAIN Both(bs, a, b), Both(bs, a, b)[k] # Both(bs, b, a)[k]
  PROVE  k \in IdsOf(bs, a) \cap IdsOf(bs, b) /\ bs[a].path # bs[b].path
<1>. DEFINE A == IdsOf(bs, a)
            B == IdsOf(bs, b)
            p == bs[a].path
            q == bs[b].path
<1>1. Both(bs, a, b) = [l \in A \cup B |-> IF l \in B THEN q ELSE p]
  BY WroteBoth DEF Comes
<1>2. Both(bs, b, a) = [l \in B \cup A |-> IF l \in A THEN p ELSE q]
  BY WroteBoth DEF Comes
<1>. HIDE DEF A, B, p, q
<1>3. k \in A \cup B
  BY <1>1
<1>4. (IF k \in B THEN q ELSE p) # (IF k \in A THEN p ELSE q)
  BY <1>1, <1>2, <1>3
<1>. QED  BY <1>3, <1>4 DEF A, B, p, q

\* Objects of one key are one object of the cluster, and those of one version the other way round.
LEMMA KeyIsServed ==
  ASSUME NEW o, NEW p
  PROVE  Renders!Key(o) = Renders!Key(p) <=> Renders!Served(o) = Renders!Served(p) /\ o.version = p.version
BY DEF Renders!Key, Renders!Served

\* However many bricks there are: bricks that pass the check of collisions are rendered, every
\* one with a path but those that failed without a word, and can be applied in any order, each
\* object staying what its brick makes of it - but for one two bricks render under different
\* versions; a collision that is reported is two bricks that overwrite each other.
THEOREM BricksOwn == ASSUME NEW c, BrickWorld(c) PROVE Renders!OneOwner(c)
<1>. DEFINE bs == c.bricks
            built == Renders!Built(bs)
            versions(b, k) == {o.version : o \in {p \in bs[b].objects : Renders!Served(p) = k}}
            paths == {bs[b].path : b \in DOMAIN bs} \ {""}
            silent == {p \in paths : \E b \in DOMAIN bs : bs[b].path = p /\ bs[b].build = "silent"}
<1>1. ASSUME NEW a \in built, NEW b \in built, NEW k \in KeysOf(bs, a) \cap KeysOf(bs, b), bs[a].path # bs[b].path
      PROVE  Both(bs, a, b) # Both(bs, b, a)
  <2>1. PICK o \in bs[a].objects, p \in bs[b].objects : Renders!Key(o) = k /\ Renders!Key(p) = k
    BY DEF KeysOf
  <2>2. Renders!Served(o) = Renders!Served(p)
    BY <2>1, KeyIsServed
  <2>3. Renders!Served(o) \in IdsOf(bs, a) \cap IdsOf(bs, b)
    BY <2>2 DEF IdsOf
  <2>. QED  BY <1>1, <2>3, OrderOfTwo
<1>2. Renders!Collisions(bs) # {} => \E a, b \in built : Both(bs, a, b) # Both(bs, b, a)
  <2>. HIDE DEF built
  <2>. SUFFICES ASSUME Renders!Collisions(bs) # {} PROVE \E a, b \in built : Both(bs, a, b) # Both(bs, b, a)
    OBVIOUS
  <2>1. PICK a \in built, b \in built : \E k \in KeysOf(bs, a) \cap KeysOf(bs, b) : bs[a].path # bs[b].path
    BY CollisionsAre DEF built
  <2>. QED  BY <1>1, <2>1
<1>3. ASSUME Renders!Collisions(bs) = {}, NEW a \in built, NEW b \in built, NEW k \in DOMAIN Both(bs, a, b),
             Both(bs, a, b)[k] # Both(bs, b, a)[k], NEW v \in versions(a, k) \cap versions(b, k)
      PROVE  FALSE
  <2>1. bs[a].path # bs[b].path
    BY <1>3, OrderAt
  <2>2. PICK o \in bs[a].objects : Renders!Served(o) = k /\ o.version = v
    OBVIOUS
  <2>3. PICK p \in bs[b].objects : Renders!Served(p) = k /\ p.version = v
    OBVIOUS
  <2>4. Renders!Key(o) = Renders!Key(p)
    BY <2>2, <2>3, KeyIsServed
  <2>5. Renders!Key(o) \in KeysOf(bs, a) \cap KeysOf(bs, b)
    BY <2>4 DEF KeysOf
  <2>. QED  BY <1>3, <2>1, <2>5, CollisionsAre
<1>4. ASSUME Renders!BuildErrors(bs) = {} PROVE paths = Renders!RenderDag(bs) \cup silent
  <2>. DEFINE bad == {x \in DOMAIN bs : bs[x].path # "" /\ bs[x].build = "failed"}
  <2>1. bad = {}
    <3>1. {<<"build", bs[x].path>> : x \in bad} = {}
      BY <1>4 DEF Renders!BuildErrors
    <3>. HIDE DEF bad
    <3>. QED  BY <3>1, Zenon
  <2>2. \A b \in DOMAIN bs : bs[b].path # "" => b \in built \/ bs[b].build = "silent"
    BY <2>1 DEF BrickWorld, Renders!Built
  <2>3. \A b \in built : b \in DOMAIN bs /\ bs[b].path # ""
    BY DEF Renders!Built
  <2>4. Renders!RenderDag(bs) = {bs[b].path : b \in built}
    BY DEF Renders!RenderDag
  <2>. HIDE DEF built, bs
  <2>. QED  BY <2>2, <2>3, <2>4
<1>. QED
  <2>1. Renders!CollisionCheck(bs) = {} => Renders!BuildErrors(bs) = {} /\ Renders!Collisions(bs) = {}
    BY DEF Renders!CollisionCheck
  <2>. SUFFICES /\ Renders!CollisionCheck(bs) = {} =>
                     /\ paths = Renders!RenderDag(bs) \cup silent
                     /\ \A a, b \in built : \A k \in DOMAIN Both(bs, a, b) :
                          Both(bs, a, b)[k] = Both(bs, b, a)[k] \/ versions(a, k) \cap versions(b, k) = {}
                /\ Renders!Collisions(bs) # {} => \E a, b \in built : Both(bs, a, b) # Both(bs, b, a)
    BY DEF Renders!OneOwner, Wrote, Both
  <2>2. ASSUME Renders!Collisions(bs) = {}, NEW a \in built, NEW b \in built, NEW k \in DOMAIN Both(bs, a, b)
        PROVE  Both(bs, a, b)[k] = Both(bs, b, a)[k] \/ versions(a, k) \cap versions(b, k) = {}
    <3>. HIDE DEF versions, built
    <3>. QED  BY <1>3, <2>2
  <2>. HIDE DEF versions, built, paths, silent
  <2>. QED  BY <1>2, <1>4, <2>1, <2>2

\* One more round of dependencies.
Round(D, out, n) == [p \in (1..n) \X SUBSET D |-> p[2] \cup UNION {out[d] : d \in p[2]}]
\* As many rounds as there are bricks reach all there is to reach, and no more.
LEMMA RoundsReach ==
  ASSUME NEW D, IsFiniteSet(D), NEW out \in [D -> SUBSET D], NEW b \in D, NEW n, n = Cardinality(D),
         NEW f \in Runs(SUBSET D, out[b], n, Round(D, out, n))
  PROVE  /\ f[n] \in SUBSET D
         /\ out[b] \subseteq f[n]
         /\ \A d \in f[n] : out[d] \subseteq f[n]
         /\ \A X \in SUBSET D : out[b] \subseteq X /\ (\A d \in X : out[d] \subseteq X) => f[n] \subseteq X
<1>1. n \in Nat
  BY FS_CardinalityType
<1>2. f \in [0..n -> SUBSET D] /\ f[0] = out[b]
  BY DEF Runs
<1>3. ASSUME NEW k \in 1..n PROVE f[k] = f[k-1] \cup UNION {out[d] : d \in f[k-1]}
  <2>1. f[k] = Round(D, out, n)[<<k, f[k-1]>>]
    BY DEF Runs
  <2>2. k - 1 \in 0..n
    BY <1>1, Before
  <2>3. <<k, f[k-1]>> \in (1..n) \X SUBSET D
    BY <1>2, <2>2
  <2>. QED  BY <2>1, <2>3 DEF Round
<1>4. ASSUME NEW X \in SUBSET D, out[b] \subseteq X, \A d \in X : out[d] \subseteq X
      PROVE  f[n] \subseteq X
  <2>. DEFINE P == {k \in 0..n : f[k] \subseteq X}
  <2>1. 0 \in P
    BY <1>1, <1>2, <1>4
  <2>2. ASSUME NEW k \in 1..n, k - 1 \in P PROVE k \in P
    <3>1. f[k-1] \subseteq X
      BY <2>2
    <3>2. f[k] \subseteq X
      BY <1>3, <1>4, <3>1
    <3>. QED  BY <1>1, <3>2
  <2>. HIDE DEF P
  <2>3. n \in P
    BY <1>1, <2>1, <2>2, Induction
  <2>. QED  BY <2>3 DEF P
<1>5. out[b] \subseteq f[n]
  <2>. DEFINE P == {k \in 0..n : out[b] \subseteq f[k]}
  <2>1. 0 \in P
    BY <1>1, <1>2
  <2>2. ASSUME NEW k \in 1..n, k - 1 \in P PROVE k \in P
    <3>1. out[b] \subseteq f[k-1]
      BY <2>2
    <3>. QED  BY <1>1, <1>3, <3>1
  <2>. HIDE DEF P
  <2>3. n \in P
    BY <1>1, <2>1, <2>2, Induction
  <2>. QED  BY <2>3 DEF P
<1>6. \A d \in f[n] : out[d] \subseteq f[n]
  <2>. DEFINE Shut(X) == \A d \in X : out[d] \subseteq X
              P == {k \in 0..n : Shut(f[k]) \/ Cardinality(f[k]) >= k}
  <2>1. ASSUME NEW k \in 0..n PROVE IsFiniteSet(f[k]) /\ Cardinality(f[k]) \in Nat /\ f[k] \subseteq D
    <3>1. f[k] \in SUBSET D
      BY <1>2
    <3>. QED  BY <3>1, FS_Subset, FS_CardinalityType
  <2>2. 0 \in P
    <3>1. 0 \in 0..n
      BY <1>1
    <3>. HIDE DEF Shut
    <3>. QED  BY <2>1, <3>1
  <2>3. ASSUME NEW k \in 1..n, k - 1 \in P PROVE k \in P
    <3>. DEFINE was == f[k-1]
                now == f[k]
    <3>1. now = was \cup UNION {out[d] : d \in was}
      BY <1>3
    <3>2. k \in 0..n /\ k - 1 \in 0..n
      BY <1>1, Before
    <3>3. was \in SUBSET D
      BY <1>2, <3>2
    <3>4. CASE Shut(was)
      <4>1. now = was
        <5>. HIDE DEF was, now
        <5>. QED  BY <3>1, <3>4
      <4>. HIDE DEF was, Shut
      <4>. QED  BY <3>2, <3>4, <4>1
    <3>5. CASE ~Shut(was)
      <4>1. Cardinality(was) >= k - 1
        <5>. HIDE DEF Shut
        <5>. QED  BY <2>3, <3>5
      <4>2. was \subseteq now /\ was # now
        <5>. HIDE DEF was, now
        <5>. QED  BY <3>1, <3>5
      <4>3. Cardinality(was) < Cardinality(now)
        <5>1. IsFiniteSet(now)
          BY <2>1, <3>2
        <5>2. was \in SUBSET now
          BY <4>2
        <5>. HIDE DEF was, now
        <5>. QED  BY <4>2, <5>1, <5>2, FS_Subset, FS_CardinalityType
      <4>4. Cardinality(was) \in Nat /\ Cardinality(now) \in Nat
        BY <2>1, <3>2
      <4>5. Cardinality(now) >= k
        <5>. HIDE DEF was, now
        <5>. QED  BY <4>1, <4>3, <4>4
      <4>. HIDE DEF Shut
      <4>. QED  BY <3>2, <4>5
    <3>. QED  BY <3>4, <3>5
  <2>4. n \in P
    <3>. HIDE DEF P
    <3>. QED  BY <1>1, <2>2, <2>3, Induction
  <2>5. CASE Cardinality(f[n]) >= n
    <3>1. n \in 0..n
      BY <1>1
    <3>2. f[n] \in SUBSET D /\ Cardinality(f[n]) \in Nat
      BY <2>1, <3>1
    <3>3. f[n] = D
      BY <1>1, <2>5, <3>2, FS_Subset
    <3>. QED  BY <3>3
  <2>. QED
    <3>. HIDE DEF Shut
    <3>1. Shut(f[n]) \/ Cardinality(f[n]) >= n
      BY <2>4
    <3>2. CASE Shut(f[n])
      BY <3>2 DEF Shut
    <3>. QED  BY <2>5, <3>1, <3>2
<1>7. f[n] \in SUBSET D
  BY <1>1, <1>2
<1>. QED  BY <1>4, <1>5, <1>6, <1>7

\* What a brick depends on that is a brick.
Out(bs) == [d \in DOMAIN bs |-> bs[d].deps \cap DOMAIN bs]
\* The closure is the least set of what a brick depends on, and what those depend on.
LEMMA ClosureIs ==
  ASSUME NEW c, BrickWorld(c), NEW b \in DOMAIN c.bricks
  PROVE  LET R == Renders!Closure(c.bricks, b)
             out == Out(c.bricks)
         IN /\ R \in SUBSET DOMAIN c.bricks
            /\ out[b] \subseteq R
            /\ \A d \in R : out[d] \subseteq R
            /\ \A X \in SUBSET DOMAIN c.bricks : out[b] \subseteq X /\ (\A d \in X : out[d] \subseteq X) => R \subseteq X
<1>. DEFINE bs == c.bricks
            D == DOMAIN bs
            out == Out(bs)
            n == Cardinality(D)
            step == Round(D, out, n)
            Is(g) == g = [k \in 0..n |-> IF k = 0 THEN bs[b].deps \cap D
                                         ELSE g[k-1] \cup UNION {bs[d].deps \cap D : d \in g[k-1]}]
            h == CHOOSE g : Is(g)
<1>1. IsFiniteSet(D) /\ n \in Nat
  BY FS_CardinalityType DEF BrickWorld
<1>2. out \in [D -> SUBSET D] /\ out[b] \in SUBSET D
  BY DEF Out
<1>3. step \in [(1..n) \X SUBSET D -> SUBSET D]
  <2>. HIDE DEF D, out, n
  <2>. QED  BY <1>2 DEF Round
<1>4. ASSUME NEW k \in 1..n, NEW was \in SUBSET D PROVE step[<<k, was>>] = was \cup UNION {bs[d].deps \cap D : d \in was}
  <2>1. \A d \in was : out[d] = bs[d].deps \cap D
    BY DEF Out
  <2>2. step[<<k, was>>] = was \cup UNION {out[d] : d \in was}
    <3>. HIDE DEF D, out, n
    <3>. QED  BY DEF Round
  <2>. HIDE DEF D, out, n, step
  <2>. QED  BY <2>1, <2>2
<1>5. out[b] = bs[b].deps \cap D
  BY DEF Out
<1>. HIDE DEF step, out, n
<1>6. PICK f \in Runs(SUBSET D, out[b], n, step) : TRUE
  <2>. DEFINE S == SUBSET D
              init == out[b]
  <2>1. init \in S /\ step \in [(1..n) \X S -> S]
    BY <1>2, <1>3
  <2>. HIDE DEF S, init
  <2>2. Runs(S, init, n, step) # {}
    BY <1>1, <2>1, Recursion
  <2>. QED  BY <2>2 DEF S, init
<1>7. Is(f)
  <2>1. f \in [0..n -> SUBSET D] /\ f[0] = out[b]
    BY <1>6 DEF Runs
  <2>2. ASSUME NEW k \in 1..n PROVE f[k] = f[k-1] \cup UNION {bs[d].deps \cap D : d \in f[k-1]}
    <3>1. f[k-1] \in SUBSET D
      BY <1>1, <2>1, Before
    <3>2. f[k] = step[<<k, f[k-1]>>]
      BY <1>6 DEF Runs
    <3>. QED  BY <1>4, <3>1, <3>2
  <2>. QED  BY <1>1, <1>5, <2>1, <2>2
<1>8. Is(h)
  <2>. HIDE DEF Is
  <2>. QED  BY <1>7
<1>9. h \in Runs(SUBSET D, out[b], n, step)
  <2>. HIDE DEF h
  <2>1. /\ h = [k \in 0..n |-> h[k]]
        /\ h[0] = out[b]
        /\ \A k \in 1..n : h[k-1] \in SUBSET D => h[k] = step[<<k, h[k-1]>>]
    <3>1. h = [k \in 0..n |-> h[k]] /\ h[0] = out[b]
      BY <1>1, <1>5, <1>8
    <3>2. ASSUME NEW k \in 1..n, h[k-1] \in SUBSET D PROVE h[k] = step[<<k, h[k-1]>>]
      <4>1. h[k] = h[k-1] \cup UNION {bs[d].deps \cap D : d \in h[k-1]}
        <5>1. k \in 0..n /\ k # 0
          BY <1>1
        <5>. QED  BY <1>8, <5>1
      <4>2. step[<<k, h[k-1]>>] = h[k-1] \cup UNION {bs[d].deps \cap D : d \in h[k-1]}
        BY <1>4, <3>2
      <4>. QED  BY <4>1, <4>2
    <3>. QED  BY <3>1, <3>2
  <2>. QED  BY <1>1, <1>2, <1>3, <2>1, RunsWhole
<1>10. Renders!Closure(bs, b) = h[n]
  BY DEF Renders!Closure, Renders!Cardinality, Cardinality, n
<1>. HIDE DEF h, D
<1>11. h \in Runs(SUBSET D, out[b], n, Round(D, out, n)) /\ n = Cardinality(D) /\ b \in D
  BY <1>9 DEF step, n, D
<1>12. /\ h[n] \in SUBSET D
       /\ out[b] \subseteq h[n]
       /\ \A d \in h[n] : out[d] \subseteq h[n]
       /\ \A X \in SUBSET D : out[b] \subseteq X /\ (\A d \in X : out[d] \subseteq X) => h[n] \subseteq X
  BY <1>1, <1>2, <1>11, RoundsReach
<1>. QED  BY <1>10, <1>12 DEF D, out

\* An order of n of the bricks that Flux may take.
Ordered(bs, n, s) ==
  /\ n \in 0..Cardinality(DOMAIN bs)
  /\ s \in [1..n -> DOMAIN bs]
  /\ \A i \in 1..n : /\ \A j \in 1..(i - 1) : s[j] # s[i]
                     /\ \A d \in bs[s[i]].deps : \E j \in 1..(i - 1) : s[j] = d
LEMMA OrdersAre ==
  ASSUME NEW c, BrickWorld(c), NEW s
  PROVE  s \in Renders!Orders(c.bricks) <=> \E n \in Nat : Ordered(c.bricks, n, s)
<1>. DEFINE bs == c.bricks
            N == Cardinality(DOMAIN bs)
            Good(t) == \A i \in DOMAIN t : /\ \A j \in 1..(i - 1) : t[j] # t[i]
                                           /\ \A d \in bs[t[i]].deps : \E j \in 1..(i - 1) : t[j] = d
            sizes == {[1..n -> DOMAIN bs] : n \in 0..N}
<1>1. N \in Nat
  BY FS_CardinalityType DEF BrickWorld
<1>2. Renders!Orders(bs) = {t \in UNION sizes : Good(t)}
  BY DEF Renders!Orders, Renders!Cardinality, Cardinality
<1>3. s \in UNION sizes <=> \E n \in 0..N : s \in [1..n -> DOMAIN bs]
  OBVIOUS
<1>4. ASSUME NEW n \in 0..N, s \in [1..n -> DOMAIN bs] PROVE Good(s) <=> Ordered(bs, n, s)
  BY <1>4 DEF Ordered
<1>5. ASSUME NEW n \in Nat, Ordered(bs, n, s) PROVE n \in 0..N /\ s \in [1..n -> DOMAIN bs]
  BY <1>5 DEF Ordered
<1>. HIDE DEF bs, N, Good, sizes
<1>6. s \in Renders!Orders(bs) <=> s \in UNION sizes /\ Good(s)
  BY <1>2
<1>7. ASSUME s \in Renders!Orders(bs) PROVE \E n \in Nat : Ordered(bs, n, s)
  <2>1. PICK n \in 0..N : s \in [1..n -> DOMAIN bs]
    BY <1>3, <1>6, <1>7
  <2>. QED  BY <1>1, <1>4, <1>6, <1>7, <2>1
<1>8. ASSUME NEW n \in Nat, Ordered(bs, n, s) PROVE s \in Renders!Orders(bs)
  BY <1>3, <1>4, <1>5, <1>6, <1>8
<1>. QED  BY <1>7, <1>8 DEF bs

\* The beginning of an order is one.
LEMMA Beginning ==
  ASSUME NEW bs, Cardinality(DOMAIN bs) \in Nat, NEW n \in Nat, NEW s, Ordered(bs, n, s), NEW i \in 0..n
  PROVE  Ordered(bs, i, [j \in 1..i |-> s[j]])
<1>. DEFINE N == Cardinality(DOMAIN bs)
            D == DOMAIN bs
            t == [j \in 1..i |-> s[j]]
<1>1. /\ N \in Nat /\ n \in 0..N
      /\ s \in [1..n -> D]
      /\ \A k \in 1..n : /\ \A j \in 1..(k - 1) : s[j] # s[k]
                         /\ \A d \in bs[s[k]].deps : \E j \in 1..(k - 1) : s[j] = d
  BY DEF Ordered
<1>. HIDE DEF N, D
<1>2. i \in 0..N /\ t \in [1..i -> D]
  BY <1>1
<1>3. \A k \in 1..i : t[k] = s[k]
  OBVIOUS
<1>. HIDE DEF t
<1>4. ASSUME NEW k \in 1..i
      PROVE  /\ \A j \in 1..(k - 1) : t[j] # t[k]
             /\ \A d \in bs[t[k]].deps : \E j \in 1..(k - 1) : t[j] = d
  <2>1. k \in 1..n /\ \A j \in 1..(k - 1) : j \in 1..i
    OBVIOUS
  <2>. QED  BY <1>1, <1>3, <2>1
<1>. QED  BY <1>2, <1>4 DEF Ordered, N, D, t

\* An order without one of its bricks is one, when none after it depends on that.
LEMMA LeavingOut ==
  ASSUME NEW bs, Cardinality(DOMAIN bs) \in Nat, NEW n \in Nat, NEW s, Ordered(bs, n, s), NEW k \in 1..n,
         \A i \in (k + 1)..n : s[k] \notin bs[s[i]].deps
  PROVE  Ordered(bs, n - 1, [j \in 1..(n - 1) |-> IF j < k THEN s[j] ELSE s[j + 1]])
<1>. DEFINE N == Cardinality(DOMAIN bs)
            D == DOMAIN bs
            Was(j) == IF j < k THEN j ELSE j + 1
            t == [j \in 1..(n - 1) |-> IF j < k THEN s[j] ELSE s[j + 1]]
<1>1. /\ N \in Nat /\ n \in 0..N
      /\ s \in [1..n -> D]
      /\ \A i \in 1..n : /\ \A j \in 1..(i - 1) : s[j] # s[i]
                         /\ \A d \in bs[s[i]].deps : \E j \in 1..(i - 1) : s[j] = d
  BY DEF Ordered
<1>2. ASSUME NEW j \in 1..(n - 1) PROVE Was(j) \in 1..n /\ t[j] = s[Was(j)] /\ Was(j) # k
  OBVIOUS
<1>. HIDE DEF N, D
<1>3. n - 1 \in 0..N /\ t \in [1..(n - 1) -> D]
  BY <1>1
<1>. HIDE DEF t
<1>4. ASSUME NEW i \in 1..(n - 1)
      PROVE  /\ \A j \in 1..(i - 1) : t[j] # t[i]
             /\ \A d \in bs[t[i]].deps : \E j \in 1..(i - 1) : t[j] = d
  <2>1. Was(i) \in 1..n /\ t[i] = s[Was(i)]
    BY <1>2
  <2>2. ASSUME NEW j \in 1..(i - 1) PROVE t[j] # t[i]
    <3>1. t[j] = s[Was(j)] /\ Was(j) \in 1..(Was(i) - 1)
      BY <1>2
    <3>. HIDE DEF Was
    <3>. QED  BY <1>1, <2>1, <3>1
  <2>3. ASSUME NEW d \in bs[t[i]].deps PROVE \E j \in 1..(i - 1) : t[j] = d
    <3>1. PICK l \in 1..(Was(i) - 1) : s[l] = d
      <4>. HIDE DEF Was
      <4>. QED  BY <1>1, <2>1
    <3>2. l # k
      <4>1. CASE Was(i) \in (k + 1)..n
        <5>. HIDE DEF Was
        <5>. QED  BY <2>1, <3>1, <4>1
      <4>2. CASE Was(i) < k
        BY <4>2
      <4>. QED  BY <1>2, <4>1, <4>2
    <3>. DEFINE j == IF l < k THEN l ELSE l - 1
    <3>3. j \in 1..(i - 1) /\ Was(j) = l
      BY <3>2
    <3>4. j \in 1..(n - 1)
      BY <3>3
    <3>. HIDE DEF j
    <3>. QED  BY <1>2, <3>1, <3>3, <3>4
  <2>. QED  BY <2>2, <2>3
<1>. QED  BY <1>3, <1>4 DEF Ordered, N, D, t

\* A brick that comes in some order comes in one of nothing but what it needs.
LEMMA Shortest ==
  ASSUME NEW c, BrickWorld(c), NEW b, NEW n \in Nat, NEW s, Ordered(c.bricks, n, s), NEW i \in 1..n, s[i] = b
  PROVE  \E m \in Nat \ {0} : \E t : /\ Ordered(c.bricks, m, t)
                                     /\ t[m] = b
                                     /\ \A j \in 1..m : t[j] \in {b} \cup Renders!Closure(c.bricks, b)
<1>. DEFINE bs == c.bricks
            R == Renders!Closure(bs, b)
            T == {m \in Nat \ {0} : \E t : Ordered(bs, m, t) /\ t[m] = b}
<1>0. Cardinality(DOMAIN bs) \in Nat
  BY FS_CardinalityType DEF BrickWorld
<1>1. i \in T
  <2>. DEFINE t == [j \in 1..i |-> s[j]]
  <2>1. t[i] = b
    OBVIOUS
  <2>2. Ordered(bs, i, t)
    BY <1>0, Beginning
  <2>. HIDE DEF t
  <2>. QED  BY <2>1, <2>2
<1>2. PICK m \in T : \A y \in T : ~(<<y, m>> \in OpToRel(<, Nat))
  <2>1. T \subseteq Nat /\ T # {}
    BY <1>1
  <2>. HIDE DEF T
  <2>. QED  BY <2>1, WFMin, NatLessThanWellFounded
<1>3. PICK t : Ordered(bs, m, t) /\ t[m] = b
  OBVIOUS
<1>4. b \in DOMAIN bs /\ t \in [1..m -> DOMAIN bs] /\ m \in 1..m
  BY <1>3 DEF Ordered
<1>5. ASSUME NEW d \in {b} \cup R PROVE bs[d].deps \cap DOMAIN bs \subseteq R
  <2>1. /\ R \in SUBSET DOMAIN bs
        /\ Out(bs)[b] \subseteq R
        /\ \A x \in R : Out(bs)[x] \subseteq R
    BY <1>4, ClosureIs
  <2>. HIDE DEF R
  <2>. QED  BY <1>4, <2>1 DEF Out
<1>6. ASSUME NEW l \in 1..m, t[l] \notin {b} \cup R PROVE FALSE
  <2>. DEFINE away == {x \in 0..m : m - x \in 1..m /\ t[m - x] \notin {b} \cup R}
  <2>1. m - l \in away
    BY <1>6
  <2>2. PICK x \in away : \A y \in away : ~(<<y, x>> \in OpToRel(<, Nat))
    <3>1. away \subseteq Nat
      OBVIOUS
    <3>. HIDE DEF away
    <3>2. away # {}
      BY <2>1
    <3>. QED  BY <3>1, <3>2, WFMin, NatLessThanWellFounded
  <2>. DEFINE k == m - x
  <2>3. k \in 1..m /\ t[k] \notin {b} \cup R /\ k < m
    BY <1>3
  <2>4. ASSUME NEW j \in (k + 1)..m PROVE t[j] \in {b} \cup R
    <3>1. <<m - j, x>> \in OpToRel(<, Nat)
      BY DEF OpToRel
    <3>2. m - j \notin away
      BY <2>2, <3>1
    <3>3. j \in 1..m /\ m - j \in 0..m /\ m - (m - j) = j
      BY <2>3
    <3>. QED  BY <3>2, <3>3
  <2>. HIDE DEF k
  <2>5. ASSUME NEW j \in (k + 1)..m PROVE t[k] \notin bs[t[j]].deps
    BY <1>4, <1>5, <2>3, <2>4
  <2>. DEFINE u == [j \in 1..(m - 1) |-> IF j < k THEN t[j] ELSE t[j + 1]]
  <2>6. Ordered(bs, m - 1, u)
    <3>1. m \in Nat /\ k \in 1..m
      BY <2>3
    <3>. HIDE DEF T, bs
    <3>. QED  BY ONLY <1>0, <1>3, <2>5, <3>1, LeavingOut
  <2>7. m - 1 \in Nat \ {0} /\ u[m - 1] = b
    BY <1>3, <2>3
  <2>. HIDE DEF u
  <2>8. m - 1 \in T
    BY <2>6, <2>7
  <2>9. <<m - 1, m>> \in OpToRel(<, Nat)
    BY <2>7 DEF OpToRel
  <2>. QED  BY <1>2, <2>8, <2>9
<1>. QED  BY <1>3, <1>6

\* However many bricks there are and whatever they depend on: when none is reported to miss one,
\* every order Flux may take applies the providers of what a brick uses before it (or with it),
\* and what is reported missing is really not there in some order.
THEOREM BricksWait == ASSUME NEW c, BrickWorld(c) PROVE Renders!ProvidersFirst(c)
<1>. DEFINE bs == c.bricks
            R(b) == Renders!Closure(bs, b)
            Upto(s, i) == {s[j] : j \in 1..i}
            Uses(b) == UNION {Renders!Needs(o) : o \in bs[b].objects}
<1>1. ASSUME NEW b \in Renders!Built(bs)
      PROVE  Uses(b) = UNION {Renders!Needs(o) : o \in {x \in bs[b].objects : x.kind # ""}}
  <2>1. {x \in bs[b].objects : x.kind # ""} = bs[b].objects
    BY DEF BrickWorld, Renders!Built
  <2>. QED  BY <2>1
<1>2. Renders!Missing(bs) = UNION {{<<"missing", b, p>> : p \in Uses(b) \ ({b} \cup R(b))} : b \in Renders!Built(bs)}
  <2>. DEFINE kept == [b \in Renders!Built(bs) |-> UNION {Renders!Needs(o) : o \in {x \in bs[b].objects : x.kind # ""}}]
              built == Renders!Built(bs)
  <2>1. Renders!Missing(bs) = UNION {{<<"missing", b, p>> : p \in kept[b] \ ({b} \cup R(b))} : b \in built}
    BY DEF Renders!Missing
  <2>2. \A b \in built : kept[b] = Uses(b)
    BY <1>1
  <2>. HIDE DEF kept, Uses, R, built
  <2>3. \A b \in built : {<<"missing", b, p>> : p \in kept[b] \ ({b} \cup R(b))} = {<<"missing", b, p>> : p \in Uses(b) \ ({b} \cup R(b))}
    BY <2>2
  <2>4. UNION {{<<"missing", b, p>> : p \in kept[b] \ ({b} \cup R(b))} : b \in built}
          = UNION {{<<"missing", b, p>> : p \in Uses(b) \ ({b} \cup R(b))} : b \in built}
    BY <2>3
  <2>. QED  BY <2>1, <2>4 DEF built
<1>3. ASSUME NEW n \in Nat, NEW s, Ordered(bs, n, s), NEW i \in 1..n PROVE {s[i]} \cup R(s[i]) \subseteq Upto(s, i)
  <2>. DEFINE X == Upto(s, i)
              b == s[i]
  <2>1. /\ s \in [1..n -> DOMAIN bs]
        /\ \A k \in 1..n : \A d \in bs[s[k]].deps : \E j \in 1..(k - 1) : s[j] = d
    BY <1>3 DEF Ordered
  <2>2. b \in DOMAIN bs /\ X \in SUBSET DOMAIN bs /\ b \in X
    BY <2>1
  <2>3. ASSUME NEW d \in X PROVE Out(bs)[d] \subseteq X
    <3>1. PICK k \in 1..i : d = s[k]
      OBVIOUS
    <3>2. \A e \in bs[d].deps : \E j \in 1..i : s[j] = e
      BY <2>1, <3>1
    <3>3. Out(bs)[d] \subseteq bs[d].deps
      BY <2>2 DEF Out
    <3>. QED  BY <3>2, <3>3
  <2>. HIDE DEF X, b
  <2>4. R(b) \subseteq X
    BY <2>2, <2>3, ClosureIs
  <2>. QED  BY <2>2, <2>4 DEF X, b
<1>4. ASSUME Renders!Missing(bs) = {}, NEW n \in Nat, NEW s, Ordered(bs, n, s), NEW i \in 1..n, s[i] \in Renders!Built(bs)
      PROVE  Uses(s[i]) \subseteq Upto(s, i)
  <2>1. {s[i]} \cup R(s[i]) \subseteq Upto(s, i)
    BY <1>3, <1>4
  <2>. DEFINE b == s[i]
              miss == {<<"missing", b, p>> : p \in Uses(b) \ ({b} \cup R(b))}
  <2>2. miss = {}
    <3>1. b \in Renders!Built(bs)
      BY <1>4
    <3>. HIDE DEF Uses, R, Upto, bs, b
    <3>. QED  BY <1>2, <1>4, <3>1
  <2>. HIDE DEF Uses, R, Upto, b
  <2>3. \A p \in Uses(b) : p \in {b} \cup R(b)
    BY <2>2
  <2>. QED  BY <2>1, <2>3 DEF b
<1>5. ASSUME NEW m \in Renders!Missing(bs), NEW n \in Nat, NEW s, Ordered(bs, n, s), NEW i \in 1..n, s[i] = m[2]
      PROVE  \E k \in Nat \ {0} : \E t : Ordered(bs, k, t) /\ t[k] = m[2] /\ m[3] \notin Upto(t, k)
  <2>1. m[3] \notin {m[2]} \cup R(m[2])
    <3>. HIDE DEF Uses, R
    <3>. QED  BY <1>2
  <2>. DEFINE b == m[2]
  <2>. HIDE DEF b
  <2>2. s[i] = b
    BY <1>5 DEF b
  <2>3. PICK k \in Nat \ {0} : \E t : Ordered(bs, k, t) /\ t[k] = b /\ \A j \in 1..k : t[j] \in {b} \cup R(b)
    BY <1>5, <2>2, Shortest
  <2>4. PICK t : Ordered(bs, k, t) /\ t[k] = b /\ \A j \in 1..k : t[j] \in {b} \cup R(b)
    BY <2>3
  <2>5. m[3] \notin Upto(t, k)
    BY <2>1, <2>4 DEF b
  <2>. QED  BY <2>4, <2>5 DEF b
<1>6. \A s : s \in Renders!Orders(bs) => \E n \in Nat : Ordered(bs, n, s) /\ DOMAIN s = 1..n
  <2>1. \A s : \A n \in Nat : Ordered(bs, n, s) => DOMAIN s = 1..n
    BY DEF Ordered
  <2>. QED  BY <2>1, OrdersAre
<1>7. \A n \in Nat : \A s : Ordered(bs, n, s) => s \in Renders!Orders(bs) /\ DOMAIN s = 1..n
  BY OrdersAre DEF Ordered
<1>. QED
  <2>. SUFFICES /\ Renders!Missing(bs) = {} =>
                     \A s \in Renders!Orders(bs) : \A i \in DOMAIN s :
                       s[i] \in Renders!Built(bs) => Uses(s[i]) \subseteq Upto(s, i)
                /\ \A m \in Renders!Missing(bs) :
                     (\E s \in Renders!Orders(bs) : \E i \in DOMAIN s : s[i] = m[2]) =>
                       \E s \in Renders!Orders(bs) : \E i \in DOMAIN s : s[i] = m[2] /\ m[3] \notin Upto(s, i)
    BY DEF Renders!ProvidersFirst
  <2>. HIDE DEF bs, Uses, Upto, R
  <2>1. ASSUME Renders!Missing(bs) = {}, NEW s \in Renders!Orders(bs), NEW i \in DOMAIN s, s[i] \in Renders!Built(bs)
        PROVE  Uses(s[i]) \subseteq Upto(s, i)
    <3>1. PICK n \in Nat : Ordered(bs, n, s) /\ DOMAIN s = 1..n
      BY <1>6
    <3>. QED  BY <1>4, <2>1, <3>1
  <2>2. ASSUME NEW m \in Renders!Missing(bs), NEW s \in Renders!Orders(bs), NEW i \in DOMAIN s, s[i] = m[2]
        PROVE  \E r \in Renders!Orders(bs) : \E k \in DOMAIN r : r[k] = m[2] /\ m[3] \notin Upto(r, k)
    <3>1. PICK n \in Nat : Ordered(bs, n, s) /\ DOMAIN s = 1..n
      BY <1>6
    <3>a. PICK k \in Nat \ {0} : \E t : Ordered(bs, k, t) /\ t[k] = m[2] /\ m[3] \notin Upto(t, k)
      BY <1>5, <2>2, <3>1
    <3>2. PICK t : Ordered(bs, k, t) /\ t[k] = m[2] /\ m[3] \notin Upto(t, k)
      BY <3>a
    <3>3. t \in Renders!Orders(bs) /\ DOMAIN t = 1..k /\ k \in 1..k
      BY <1>7, <3>2
    <3>. QED  BY <3>2, <3>3
  <2>. QED  BY <2>1, <2>2

\* The cases of the run are such bricks.
LEMMA BrickCasesAre == \A c \in Renders!BrickCases : BrickWorld(c)
<1>. DEFINE Os == {{}, {Renders!Web("v1")}, {Renders!Web("v1beta1")}, Renders!Objects,
                   {Renders!Object("istio.io", "v1", "Policy", "b", "")}}
            Outcomes == {"ok", "failed", "silent"}
<1>1. ASSUME NEW o \in Os, NEW x \in o PROVE x.kind # ""
  <2>1. \A g, v, n, s : /\ Renders!Object(g, v, "Deployment", n, s).kind # ""
                         /\ Renders!Object(g, v, "Policy", n, s).kind # ""
                         /\ Renders!Object(g, v, "ExternalSecret", n, s).kind # ""
    BY DEF Renders!Object
  <2>2. \A v : Renders!Web(v).kind # ""
    BY <2>1 DEF Renders!Web
  <2>3. \A y \in Renders!Objects : y.kind # ""
    BY <2>1, <2>2 DEF Renders!Objects
  <2>. DEFINE W == Renders!Web("v1")
              V == Renders!Web("v1beta1")
              Y == Renders!Object("istio.io", "v1", "Policy", "b", "")
  <2>4. W.kind # "" /\ V.kind # "" /\ Y.kind # ""
    BY <2>1, <2>2
  <2>5. o \in {{}, {W}, {V}, Renders!Objects, {Y}}
    OBVIOUS
  <2>. HIDE DEF W, V, Y, Os
  <2>6. x = W \/ x = V \/ x = Y \/ x \in Renders!Objects
    BY <2>5
  <2>. QED  BY <2>3, <2>4, <2>6
<1>. HIDE DEF Os
<1>2. ASSUME NEW d, NEW e, NEW t \in Outcomes, NEW p, NEW o \in Os, NEW q \in Os
      PROVE  BrickWorld([bricks |-> [app |-> Renders!Brick("./app", d, t, o), mid |-> Renders!Brick(p, e, "ok", q),
                                     istio |-> Renders!Brick("./istio", {}, "ok", {})]])
  <2>. DEFINE bs == [app |-> Renders!Brick("./app", d, t, o), mid |-> Renders!Brick(p, e, "ok", q), istio |-> Renders!Brick("./istio", {}, "ok", {})]
  <2>1. DOMAIN bs = {"app", "mid", "istio"}
    OBVIOUS
  <2>2. IsFiniteSet({"app", "mid", "istio"})
    <3>1. IsFiniteSet({"app"}) /\ IsFiniteSet({"mid"}) /\ IsFiniteSet({"istio"})
      BY FS_Singleton
    <3>2. IsFiniteSet({"app"} \cup {"mid"} \cup {"istio"})
      BY <3>1, FS_Union
    <3>3. {"app", "mid", "istio"} = {"app"} \cup {"mid"} \cup {"istio"}
      OBVIOUS
    <3>. QED  BY <3>2, <3>3
  <2>3. bs["app"].objects = o /\ bs["mid"].objects = q /\ bs["istio"].objects = {}
    BY DEF Renders!Brick
  <2>a. bs["app"].build = t /\ bs["mid"].build = "ok" /\ bs["istio"].build = "ok"
    BY DEF Renders!Brick
  <2>. HIDE DEF bs
  <2>4. \A b \in DOMAIN bs : \A x \in bs[b].objects : x.kind # ""
    BY <1>1, <2>1, <2>3
  <2>b. \A b \in DOMAIN bs : bs[b].build \in Outcomes
    BY <2>1, <2>a
  <2>5. [bricks |-> bs].bricks = bs
    OBVIOUS
  <2>6. BrickWorld([bricks |-> bs])
    BY <2>1, <2>2, <2>4, <2>5, <2>b DEF BrickWorld
  <2>. QED  BY <2>6 DEF bs
<1>. DEFINE Ds == SUBSET {"mid", "istio", "gone"}
            Es == SUBSET {"istio"}
            Ps == {"", "./mid", "./app"}
            Three(d, e, t, p, o, q) ==
              [bricks |-> [app |-> Renders!Brick("./app", d, t, o), mid |-> Renders!Brick(p, e, "ok", q),
                           istio |-> Renders!Brick("./istio", {}, "ok", {})]]
<1>3. Renders!BrickCases =
        {Three(d, e, b, p, o, q) : d \in Ds, e \in Es, b \in Outcomes, p \in Ps, o \in Os, q \in Os}
  BY DEF Renders!BrickCases, Os
<1>4. \A d, e, p : \A t \in Outcomes : \A o, q \in Os : BrickWorld(Three(d, e, t, p, o, q))
  BY <1>2
<1>. HIDE DEF Three, Ds, Es, Ps, Outcomes
<1>5. ASSUME NEW c \in Renders!BrickCases
      PROVE  \E d \in Ds, e \in Es, b \in Outcomes, p \in Ps, o \in Os, q \in Os : c = Three(d, e, b, p, o, q)
  BY <1>3
<1>. QED  BY <1>4, <1>5

-----------------------------------------------------------------------------
(* The HA audit: what its report says, and what becomes of the pods. *)

HaOps == {"In", "NotIn", "Exists", "DoesNotExist"}
\* The audit reads a selector as Kubernetes does.
LEMMA SelectsIs ==
  ASSUME NEW sel, NEW labels, \A e \in sel.exprs : e.operator \in HaOps
  PROVE  Ha!Selects(sel, labels) <=> Ha!Matches(sel, labels)
<1>1. ASSUME NEW e \in sel.exprs
      PROVE  Ha!Excluded(e, labels) <=>
               ~LET value == IF e.key \in DOMAIN labels THEN {labels[e.key]} ELSE {}
                IN CASE e.operator = "In" -> value \cap e.values # {}
                     [] e.operator = "NotIn" -> value \cap e.values = {}
                     [] e.operator = "Exists" -> value # {}
                     [] OTHER -> value = {}
  <2>1. CASE e.operator = "In"
    BY <2>1 DEF Ha!Excluded
  <2>2. CASE e.operator = "NotIn"
    BY <2>2 DEF Ha!Excluded
  <2>3. CASE e.operator = "Exists"
    BY <2>3 DEF Ha!Excluded
  <2>4. CASE e.operator = "DoesNotExist"
    BY <2>4 DEF Ha!Excluded
  <2>. QED  BY <2>1, <2>2, <2>3, <2>4 DEF HaOps
<1>2. DOMAIN sel.labels \cup sel.exprs # {} <=> DOMAIN sel.labels # {} \/ sel.exprs # {}
  OBVIOUS
<1>. QED  BY <1>1, <1>2 DEF Ha!Selects, Ha!Matches

\* The pods that one more pod may make of those there are.
OneMore(w, n) == [p \in (1..n) \X SUBSET Seq(Ha!Workers) |-> UNION {{Append(at, m) : m \in Ha!NodesFor(w, at, Ha!Workers)} : at \in p[2]}]

\* How the pods of a workload came to lie, one after the other.
LEMMA PlacedAre ==
  ASSUME NEW w, w.replicas \in Nat
  PROVE  \E f \in Runs(SUBSET Seq(Ha!Workers), {<<>>}, w.replicas, OneMore(w, w.replicas)) : Ha!Placements(w) = f[w.replicas]
<1>. DEFINE n == w.replicas
            S == SUBSET Seq(Ha!Workers)
            step == OneMore(w, n)
            more(placed) == UNION {{Append(at, m) : m \in Ha!NodesFor(w, at, Ha!Workers)} : at \in placed}
            Is(g) == g = [k \in 0..n |-> IF k = 0 THEN {<<>>} ELSE more(g[k-1])]
            h == CHOOSE g : Is(g)
<1>1. {<<>>} \in S
  OBVIOUS
<1>2. ASSUME NEW placed \in S PROVE more(placed) \in S
  <2>1. ASSUME NEW at \in placed, NEW m \in Ha!NodesFor(w, at, Ha!Workers) PROVE Append(at, m) \in Seq(Ha!Workers)
    <3>1. at \in Seq(Ha!Workers) /\ m \in Ha!Workers
      BY DEF Ha!NodesFor
    <3>. QED  BY <3>1, AppendProperties
  <2>. QED  BY <2>1
<1>3. step \in [(1..n) \X S -> S] /\ \A k \in 1..n : \A placed \in S : step[<<k, placed>>] = more(placed)
  <2>1. ASSUME NEW p \in (1..n) \X S PROVE more(p[2]) \in S
    <3>1. p[2] \in S
      OBVIOUS
    <3>. QED  BY <1>2, <3>1
  <2>. HIDE DEF S
  <2>2. step = [p \in (1..n) \X S |-> more(p[2])]
    BY DEF OneMore, S
  <2>. HIDE DEF step
  <2>. QED  BY <2>1, <2>2
<1>. HIDE DEF S, step, more
<1>4. PICK f \in Runs(S, {<<>>}, n, step) : TRUE
  BY <1>1, <1>3, Recursion
<1>5. Is(f)
  <2>1. f \in [0..n -> S] /\ f[0] = {<<>>}
    BY <1>4 DEF Runs
  <2>2. ASSUME NEW k \in 1..n PROVE f[k] = more(f[k-1])
    <3>1. f[k-1] \in S
      BY <2>1, Before
    <3>2. f[k] = step[<<k, f[k-1]>>]
      BY <1>4 DEF Runs
    <3>. QED  BY <1>3, <3>1, <3>2
  <2>. QED  BY <2>1, <2>2
<1>6. Is(h)
  <2>. HIDE DEF Is
  <2>. QED  BY <1>5
<1>7. h \in Runs(S, {<<>>}, n, step)
  <2>. HIDE DEF h
  <2>1. h = [k \in 0..n |-> h[k]] /\ h[0] = {<<>>}
    BY <1>6
  <2>2. ASSUME NEW k \in 1..n, h[k-1] \in S PROVE h[k] = step[<<k, h[k-1]>>]
    <3>1. h[k] = more(h[k-1])
      <4>1. k \in 0..n /\ k # 0
        OBVIOUS
      <4>2. h[k] = IF k = 0 THEN {<<>>} ELSE more(h[k-1])
        BY <1>6, <4>1
      <4>. QED  BY <4>1, <4>2
    <3>. QED  BY <1>3, <2>2, <3>1
  <2>. QED  BY <1>1, <1>3, <2>1, <2>2, RunsWhole
<1>8. Ha!Placements(w) = h[n]
  BY DEF Ha!Placements, more
<1>. QED  BY <1>7, <1>8 DEF S, step

\* The audit counts as FiniteSets does.
LEMMA HaCardinality == \A S : Ha!Cardinality(S) = Cardinality(S)
BY DEF Ha!Cardinality, Cardinality

\* Two pods of a workload that is spread never come to lie together, when there is a free node.
LEMMA SecondApart ==
  ASSUME NEW w, Ha!OwnTerms(w, "host") # {}, NEW at \in Seq(Ha!Workers), Len(at) = 1, NEW m \in Ha!NodesFor(w, at, Ha!Workers)
  PROVE  m # at[1]
<1>1. PICK free \in Ha!Workers : free # at[1]
  BY DEF Ha!Workers
<1>2. {i \in DOMAIN at : at[i] = free} = {} /\ {i \in DOMAIN at : at[i] = at[1]} = {1}
  BY <1>1
<1>3. Ha!Load(at, free) = 0 /\ Ha!Load(at, at[1]) = 1
  BY <1>2, FS_EmptySet, FS_Singleton, HaCardinality DEF Ha!Load
<1>4. Ha!Load(at, m) <= Ha!Load(at, free)
  BY <1>1 DEF Ha!NodesFor
<1>. QED  BY <1>3, <1>4

\* However many pods a workload has, when one of its terms keeps its own pods apart they never all lie on one node.
LEMMA SurvivesIs ==
  ASSUME NEW w, w.replicas \in Nat, w.replicas >= 2, Ha!OwnTerms(w, "host") # {}
  PROVE  /\ Ha!SurvivesALoss(w)
         /\ \A at \in Ha!Placements(w) : at \in Seq(Ha!Workers) /\ Len(at) = w.replicas
<1>. DEFINE n == w.replicas
            S == SUBSET Seq(Ha!Workers)
            Apart(at) == \A x \in Ha!Workers : \E i \in DOMAIN at : at[i] # x
<1>1. PICK f \in Runs(S, {<<>>}, n, OneMore(w, n)) : Ha!Placements(w) = f[n]
  BY PlacedAre
<1>2. f \in [0..n -> S] /\ f[0] = {<<>>}
  BY <1>1 DEF Runs
<1>3. ASSUME NEW k \in 1..n, NEW at \in f[k]
      PROVE  \E a \in f[k-1] : \E m \in Ha!NodesFor(w, a, Ha!Workers) : at = Append(a, m)
  <2>1. f[k-1] \in S
    BY <1>2, Before
  <2>2. f[k] = OneMore(w, n)[<<k, f[k-1]>>]
    BY <1>1 DEF Runs
  <2>3. <<k, f[k-1]>> \in (1..n) \X S
    BY <2>1
  <2>4. f[k] = UNION {{Append(a, m) : m \in Ha!NodesFor(w, a, Ha!Workers)} : a \in f[k-1]}
    BY <2>2, <2>3 DEF OneMore
  <2>. QED  BY <2>4
<1>. DEFINE P == {k \in 0..n : \A at \in f[k] : Len(at) = k /\ (k >= 2 => Apart(at))}
<1>4. 0 \in P
  BY <1>2
<1>5. ASSUME NEW k \in 1..n, k - 1 \in P PROVE k \in P
  <2>1. f[k-1] \in S
    BY <1>2, Before
  <2>. SUFFICES ASSUME NEW at \in f[k] PROVE Len(at) = k /\ (k >= 2 => Apart(at))
    OBVIOUS
  <2>8. PICK a \in f[k-1] : \E m \in Ha!NodesFor(w, a, Ha!Workers) : at = Append(a, m)
    BY <1>3
  <2>2. PICK m \in Ha!NodesFor(w, a, Ha!Workers) : at = Append(a, m)
    BY <2>8
  <2>3. a \in Seq(Ha!Workers) /\ m \in Ha!Workers /\ Len(a) = k - 1 /\ (k - 1 >= 2 => Apart(a))
    BY <1>5, <2>1 DEF Ha!NodesFor
  <2>4. Len(at) = k /\ DOMAIN at = 1..k /\ at[k] = m /\ \A i \in 1..(k-1) : at[i] = a[i]
    BY <2>2, <2>3
  <2>5. CASE k - 1 >= 2
    <3>1. ASSUME NEW x \in Ha!Workers PROVE \E i \in DOMAIN at : at[i] # x
      <4>1. PICK i \in DOMAIN a : a[i] # x
        BY <2>3, <2>5
      <4>2. i \in 1..(k-1)
        BY <2>3, <4>1
      <4>. QED  BY <2>4, <4>1, <4>2
    <3>. QED  BY <2>4, <3>1
  <2>6. CASE k = 2
    <3>1. m # a[1]
      BY <2>3, <2>6, SecondApart
    <3>2. at[1] = a[1] /\ at[2] = m /\ DOMAIN at = 1..2
      BY <2>4, <2>6
    <3>3. ASSUME NEW x \in Ha!Workers PROVE \E i \in DOMAIN at : at[i] # x
      BY <3>1, <3>2
    <3>. QED  BY <2>4, <3>3
  <2>7. CASE k = 1
    BY <2>4, <2>7
  <2>. QED  BY <2>5, <2>6, <2>7
<1>6. n \in P
  <2>. HIDE DEF P
  <2>1. 0..n \subseteq P
    BY <1>4, <1>5, Induction
  <2>. QED  BY <2>1
<1>7. f[n] \in S
  BY <1>2
<1>. QED  BY <1>1, <1>6, <1>7 DEF Ha!SurvivesALoss

\* The load of a node is a number, and nothing without a pod there.
LEMMA LoadIs ==
  ASSUME NEW n \in Nat, NEW at, DOMAIN at \subseteq 1..n, NEW x
  PROVE  /\ Ha!Load(at, x) \in Nat
         /\ Ha!Load(at, x) = 0 <=> \A i \in DOMAIN at : at[i] # x
<1>. DEFINE on == {i \in DOMAIN at : at[i] = x}
<1>1. IsFiniteSet(on)
  <2>1. on \subseteq 1..n /\ IsFiniteSet(1..n)
    BY FS_Interval
  <2>. HIDE DEF on
  <2>. QED  BY <2>1, FS_Subset
<1>2. Ha!Load(at, x) = Cardinality(on)
  BY HaCardinality DEF Ha!Load
<1>3. Cardinality(on) \in Nat /\ (Cardinality(on) = 0 <=> on = {})
  BY <1>1, FS_CardinalityType, FS_EmptySet
<1>4. on = {} <=> \A i \in DOMAIN at : at[i] # x
  OBVIOUS
<1>. QED  BY <1>2, <1>3, <1>4

\* The pods of a lost node find a place: a required term needs a free node for each, and two pods have one.
LEMMA StrandedIs ==
  ASSUME NEW w, w.replicas \in Nat, w.replicas >= 2, Ha!OwnTerms(w, "host") # {}, Ha!HardOn(w) => w.replicas = 2
  PROVE  Ha!NothingStranded(w)
<1>. SUFFICES ASSUME NEW at \in Ha!Placements(w), NEW n \in Ha!Workers,
                     {i \in DOMAIN at : at[i] # n} # DOMAIN at
              PROVE  Ha!NodesFor(w, Ha!Restrict(at, {i \in DOMAIN at : at[i] # n}), Ha!Workers \ {n}) # {}
  <2>1. ASSUME NEW at, NEW n PROVE DOMAIN Ha!Restrict(at, {i \in DOMAIN at : at[i] # n}) = {i \in DOMAIN at : at[i] # n}
    BY DEF Ha!Restrict
  <2>. QED  BY <2>1 DEF Ha!NothingStranded
<1>. DEFINE D == {i \in DOMAIN at : at[i] # n}
            left == Ha!Restrict(at, D)
            nodes == Ha!Workers \ {n}
<1>. SUFFICES Ha!NodesFor(w, left, nodes) # {}
  OBVIOUS
<1>1. at \in Seq(Ha!Workers) /\ Len(at) = w.replicas /\ DOMAIN at = 1..w.replicas
  BY SurvivesIs
<1>2. DOMAIN left = D /\ (\A i \in D : left[i] = at[i]) /\ D \subseteq 1..w.replicas
  BY <1>1 DEF Ha!Restrict
<1>. HIDE DEF left
<1>3. \A x : Ha!Load(left, x) \in Nat /\ (Ha!Load(left, x) = 0 <=> \A i \in D : at[i] # x)
  BY <1>2, LoadIs
<1>4. PICK x \in nodes, y \in nodes : x # y /\ nodes = {x, y}
  BY DEF Ha!Workers
<1>5. PICK m \in nodes : \A o \in nodes : Ha!Load(left, m) <= Ha!Load(left, o)
  <2>1. CASE Ha!Load(left, x) <= Ha!Load(left, y)
    BY <1>3, <1>4, <2>1
  <2>2. CASE Ha!Load(left, y) <= Ha!Load(left, x)
    BY <1>3, <1>4, <2>2
  <2>. QED  BY <1>3, <2>1, <2>2
<1>6. CASE ~Ha!HardOn(w)
  BY <1>5, <1>6 DEF Ha!NodesFor
<1>7. CASE Ha!HardOn(w)
  <2>1. PICK j \in 1..2 : j \notin D
    BY <1>1, <1>7
  <2>2. \A i \in D : i = 3 - j
    BY <1>2, <1>7, <2>1
  <2>3. PICK free \in nodes : \A i \in D : at[i] # free
    BY <1>4, <2>2
  <2>4. Ha!Load(left, free) = 0
    BY <1>3, <2>3
  <2>5. Ha!Load(left, m) = 0
    BY <1>3, <1>5, <2>4
  <2>. QED  BY <1>5, <2>5 DEF Ha!NodesFor
<1>. QED  BY <1>6, <1>7

HaSpec(spec) == \A f \in {"maxUnavailable", "minAvailable"} \cap DOMAIN spec : spec[f].n \in Nat /\ spec[f].pct \in BOOLEAN

\* A percentage of the pods, rounded up, is the least number that comes to it.
LEMMA RoundedUp ==
  ASSUME NEW x \in Nat
  PROVE  (CHOOSE k \in 0..x : 100 * k >= x /\ 100 * (k - 1) < x) = (x + 99) \div 100
<1>. DEFINE up == (x + 99) \div 100
<1>1. up \in 0..x /\ 100 * up >= x /\ 100 * (up - 1) < x
  OBVIOUS
<1>2. \A k \in 0..x : 100 * k >= x /\ 100 * (k - 1) < x => k = up
  <2>. HIDE DEF up
  <2>. QED  BY <1>1
<1>. HIDE DEF up
<1>. QED  BY <1>1, <1>2

\* A budget the audit takes lets one pod go, and not a second.
LEMMA DrainsIs ==
  ASSUME NEW w, NEW docs, NEW spec, w.replicas \in Nat, w.replicas >= 2, HaSpec(spec),
         Ha!Budgets(w, docs) = {spec}, Ha!Allowed(spec, w.replicas) = 1
  PROVE  Ha!DrainsOneByOne(w, docs)
<1>. DEFINE r == w.replicas
            of(v) == IF ~v.pct THEN v.n ELSE CHOOSE k \in 0..(r * v.n) : 100 * k >= r * v.n /\ 100 * (k - 1) < r * v.n
<1>1. ASSUME NEW v, v.n \in Nat, v.pct \in BOOLEAN PROVE of(v) = Ha!Num(v, r)
  <2>. DEFINE x == r * v.n
  <2>1. x \in Nat
    BY <1>1
  <2>2. (CHOOSE k \in 0..x : 100 * k >= x /\ 100 * (k - 1) < x) = (x + 99) \div 100
    <3>. HIDE DEF x
    <3>. QED  BY <2>1, RoundedUp
  <2>. QED  BY <1>1, <2>2 DEF Ha!Num
<1>2. Ha!Needed(spec, r) = IF "maxUnavailable" \in DOMAIN spec THEN r - of(spec.maxUnavailable)
                           ELSE IF "minAvailable" \in DOMAIN spec THEN of(spec.minAvailable) ELSE 0
  BY DEF Ha!Needed
<1>. HIDE DEF of
<1>3. Ha!Needed(spec, r) = r - 1
  <2>1. CASE "maxUnavailable" \in DOMAIN spec
    <3>1. spec["maxUnavailable"].n \in Nat /\ spec["maxUnavailable"].pct \in BOOLEAN
      BY <2>1 DEF HaSpec
    <3>. QED  BY <1>1, <1>2, <2>1, <3>1 DEF Ha!Allowed
  <2>2. CASE "maxUnavailable" \notin DOMAIN spec /\ "minAvailable" \in DOMAIN spec
    <3>1. spec["minAvailable"].n \in Nat /\ spec["minAvailable"].pct \in BOOLEAN
      BY <2>2 DEF HaSpec
    <3>2. of(spec.minAvailable) = Ha!Num(spec.minAvailable, r) /\ r - Ha!Num(spec.minAvailable, r) = 1
      BY <1>1, <2>2, <3>1 DEF Ha!Allowed
    <3>3. Ha!Num(spec.minAvailable, r) \in Int
      BY <3>1 DEF Ha!Num
    <3>. QED  BY <1>2, <2>2, <3>2, <3>3
  <2>3. CASE "maxUnavailable" \notin DOMAIN spec /\ "minAvailable" \notin DOMAIN spec
    BY <2>3 DEF Ha!Allowed
  <2>. QED  BY <2>1, <2>2, <2>3
<1>4. Ha!Cardinality({spec}) = 1
  BY HaCardinality, FS_Singleton
<1>. QED  BY <1>3, <1>4 DEF Ha!DrainsOneByOne, Ha!Evictable

HaSelector(sel) == \A e \in sel.exprs : e.operator \in HaOps
\* What the bricks render, in any number: the selectors are Kubernetes's, and no budget of a manifest is
\* another one for the pods an operator makes, which the audit does not look for.
HaWorld(docs) ==
  /\ IsFiniteSet(docs)
  /\ \A p \in docs : p.kind = "PodDisruptionBudget" => HaSelector(p.selector) /\ HaSpec(p.spec)
  /\ \A w \in Ha!Normalise(docs) :
       /\ w.replicas \in Nat /\ HaSpec(w.pdb)
       /\ \A t \in w.spread \cup w.anti : HaSelector(t.sel)
       /\ ~w.external => \A p \in Ha!PdbsFor(w, docs) : p.spec = w.pdb

\* The pods of a manifest have no budget but those of the manifests.
LEMMA ExternalIs ==
  ASSUME NEW docs, NEW w \in Ha!Normalise(docs)
  PROVE  (w.external = TRUE /\ w.pdb = <<>>) \/ w.external = FALSE
<1>1. CASE \E d \in docs : w = Ha!Rendered(d, docs)
  BY <1>1 DEF Ha!Rendered
<1>2. CASE \E d \in docs : w = Ha!OfCluster(d)
  BY <1>2 DEF Ha!OfCluster
<1>3. CASE \E d \in docs : w = Ha!OfPooler(d)
  BY <1>3 DEF Ha!OfPooler
<1>4. CASE \E d \in docs : \E comp \in DOMAIN d.spec : w = Ha!OfCr(d, comp, d.spec[comp])
  BY <1>4 DEF Ha!OfCr
<1>. QED  BY <1>1, <1>2, <1>3, <1>4 DEF Ha!Normalise, Ha!Cnpg

\* One budget of the manifests, or the operator's own.
LEMMA BudgetIs ==
  ASSUME NEW docs, HaWorld(docs), NEW w \in Ha!Normalise(docs), Ha!BudgetProblems(w, docs) = {}
  PROVE  \E spec : HaSpec(spec) /\ Ha!Budgets(w, docs) = {spec} /\ Ha!Allowed(spec, w.replicas) = 1
<1>. DEFINE ps == Ha!PdbsFor(w, docs)
            seen == {q \in docs : q.kind = "PodDisruptionBudget" /\ q.ns = w.ns /\ Ha!Matches(q.selector, w.labels)}
<1>1. ps = seen
  <2>1. \A q \in docs : q.kind = "PodDisruptionBudget" => (Ha!Selects(q.selector, w.labels) <=> Ha!Matches(q.selector, w.labels))
    BY SelectsIs DEF HaWorld, HaSelector
  <2>. QED  BY <2>1 DEF Ha!PdbsFor
<1>2. Ha!Budgets(w, docs) = {p.spec : p \in ps} \cup Ha!When(DOMAIN w.pdb # {}, {w.pdb})
  BY <1>1 DEF Ha!Budgets
<1>3. \A p \in ps : HaSpec(p.spec)
  BY DEF HaWorld, Ha!PdbsFor
<1>4. IsFiniteSet(ps)
  <2>1. ps \subseteq docs /\ IsFiniteSet(docs)
    BY DEF HaWorld, Ha!PdbsFor
  <2>. QED  BY <2>1, FS_Subset
<1>. HIDE DEF ps
<1>5. CASE w.external = TRUE /\ w.pdb = <<>>
  <2>1. Cardinality(ps) = 1 /\ \A p \in ps : Ha!Allowed(p.spec, w.replicas) = 1
    <3>1. IF Ha!Cardinality(ps) # 1 THEN {"not one budget"} = {}
          ELSE Ha!When(\E p \in ps : Ha!Allowed(p.spec, w.replicas) # 1, {"not one disruption"}) = {}
      BY <1>5 DEF Ha!BudgetProblems, ps
    <3>2. Ha!Cardinality(ps) = 1
      BY <3>1
    <3>. QED  BY <3>1, <3>2, HaCardinality DEF Ha!When
  <2>2. PICK p : ps = {p}
    BY <1>4, <2>1, FS_Singleton
  <2>3. Ha!Budgets(w, docs) = {p.spec}
    <3>1. DOMAIN w.pdb = {}
      BY <1>5
    <3>. QED  BY <1>2, <2>2, <3>1 DEF Ha!When
  <2>. QED  BY <1>3, <2>1, <2>2, <2>3
<1>6. CASE w.external = FALSE
  <2>1. DOMAIN w.pdb # {} /\ Ha!Allowed(w.pdb, w.replicas) = 1
    BY <1>6 DEF Ha!BudgetProblems, Ha!When
  <2>2. \A p \in ps : p.spec = w.pdb
    BY <1>6 DEF HaWorld, ps
  <2>3. Ha!Budgets(w, docs) = {w.pdb}
    BY <1>2, <2>1, <2>2 DEF Ha!When
  <2>. QED  BY <2>1, <2>3 DEF HaWorld
<1>. QED  BY <1>5, <1>6, ExternalIs

\* What the audit has nothing to say of stands.
LEMMA WorkloadStands ==
  ASSUME NEW docs, HaWorld(docs), NEW allow, NEW w \in Ha!Normalise(docs), w.replicas >= 2, Ha!Problems(w, docs, allow) = {}
  PROVE  Ha!Sound(w, docs, allow)
<1>1. w.replicas \in Nat
  BY DEF HaWorld
<1>2. Ha!OwnTerms(w, "host") # {}
  <2>1. PICK t \in w.spread \cup w.anti : t.key = "host" /\ Ha!Selects(t.sel, w.labels)
    BY DEF Ha!Problems, Ha!When, Ha!Spreads
  <2>2. Ha!Matches(t.sel, w.labels)
    BY <2>1, SelectsIs DEF HaWorld, HaSelector
  <2>. QED  BY <2>1, <2>2 DEF Ha!OwnTerms
<1>3. Ha!DrainsOneByOne(w, docs) \/ w.id \in DOMAIN allow.pdbx
  <2>. SUFFICES ASSUME w.id \notin DOMAIN allow.pdbx PROVE Ha!DrainsOneByOne(w, docs)
    OBVIOUS
  <2>1. Ha!BudgetProblems(w, docs) = {}
    BY DEF Ha!Problems, Ha!When
  <2>. QED  BY <1>1, <2>1, BudgetIs, DrainsIs
<1>4. Ha!NothingStranded(w) \/ w.id \in DOMAIN allow.stricts
  <2>. SUFFICES ASSUME w.id \notin DOMAIN allow.stricts PROVE Ha!NothingStranded(w)
    OBVIOUS
  <2>1. ~(Ha!HardOn(w) /\ w.replicas > 2)
    BY DEF Ha!Problems, Ha!When, Ha!HardOn
  <2>. QED  BY <1>1, <1>2, <2>1, StrandedIs
<1>5. ~w.together /\ w.nodes \subseteq {"os"}
  BY DEF Ha!Problems, Ha!When
<1>. QED  BY <1>1, <1>2, <1>3, <1>4, <1>5, SurvivesIs DEF Ha!Sound

\* An audit without an error, whatever its lists: each workload stands or is listed, a lone pod with what its
\* loss means, and the pins hold.
LEMMA AuditSays ==
  ASSUME NEW docs, HaWorld(docs), NEW allow, NEW absent, Ha!Errors(docs, allow, absent) = {}
  PROVE  /\ \A w \in Ha!Normalise(docs) :
              IF w.replicas >= 2 THEN w.id \in DOMAIN allow.gaps \/ Ha!Sound(w, docs, allow)
              ELSE \/ w.id \in DOMAIN allow.gaps
                   \/ w.id \in DOMAIN allow.singles /\ allow.singles[w.id].loss
         /\ \A k \in DOMAIN allow.pins : \A w \in Ha!Normalise(docs) :
              w.id = k => ~(w.replicas < allow.pins[k].min) /\ (w.replicas >= 2 => Ha!Zoned(w, docs))
<1>. DEFINE ws == Ha!Normalise(docs)
            ids == {w.id : w \in ws}
            audit == Ha!Audit(docs, allow, absent)
<1>1. \A e \in audit : e[1] # "error"
  BY DEF Ha!Errors
<1>2. /\ Ha!OfEntries(allow.singles, "single_replica", ids, absent) \subseteq audit
      /\ \A k \in DOMAIN allow.pins : Ha!OfPin(k, allow.pins[k], ws, docs, absent) \subseteq audit
      /\ \A w \in ws : Ha!OfWorkload(w, docs, allow) \subseteq audit
  BY DEF Ha!Audit
<1>. HIDE DEF audit, ids
<1>3. ASSUME NEW k \in DOMAIN allow.singles PROVE allow.singles[k].loss
  <2>1. ~allow.singles[k].loss => <<"error", k, "no loss">> \in Ha!OfEntries(allow.singles, "single_replica", ids, absent)
    BY DEF Ha!OfEntries
  <2>. QED  BY <1>1, <1>2, <2>1
<1>4. ASSUME NEW w \in ws, w.replicas >= 2 PROVE w.id \in DOMAIN allow.gaps \/ Ha!Sound(w, docs, allow)
  <2>. SUFFICES ASSUME w.id \notin DOMAIN allow.gaps PROVE Ha!Problems(w, docs, allow) = {}
    BY <1>4, WorkloadStands
  <2>1. ~(w.replicas < 2)
    BY <1>4 DEF HaWorld
  <2>2. ASSUME NEW e \in Ha!Problems(w, docs, allow) PROVE <<"error", w.id, e>> \in Ha!OfWorkload(w, docs, allow)
    BY <2>1 DEF Ha!OfWorkload
  <2>3. ASSUME NEW e \in Ha!Problems(w, docs, allow) PROVE FALSE
    BY <1>1, <1>2, <2>2
  <2>. QED  BY <2>3
<1>5. ASSUME NEW w \in ws, ~(w.replicas >= 2) PROVE w.id \in DOMAIN allow.gaps \/ w.id \in DOMAIN allow.singles
  <2>. SUFFICES ASSUME w.id \notin DOMAIN allow.gaps, w.id \notin DOMAIN allow.singles PROVE FALSE
    OBVIOUS
  <2>1. w.replicas < 2
    BY <1>5 DEF HaWorld
  <2>2. <<"error", w.id, "single replica">> \in Ha!OfWorkload(w, docs, allow)
    BY <2>1 DEF Ha!OfWorkload, Ha!When
  <2>. QED  BY <1>1, <1>2, <2>2
<1>6. ASSUME NEW k \in DOMAIN allow.pins, NEW w \in ws, w.id = k
      PROVE  ~(w.replicas < allow.pins[k].min) /\ (w.replicas >= 2 => Ha!Zoned(w, docs))
  <2>1. w.replicas < allow.pins[k].min => <<"error", k, "below its pin">> \in Ha!OfPin(k, allow.pins[k], ws, docs, absent)
    BY <1>6 DEF Ha!OfPin, Ha!When
  <2>2. w.replicas >= 2 /\ ~Ha!Zoned(w, docs) => <<"error", k, "no zone spread">> \in Ha!OfPin(k, allow.pins[k], ws, docs, absent)
    BY <1>6 DEF Ha!OfPin, Ha!When
  <2>. QED  BY <1>1, <1>2, <2>1, <2>2
<1>. QED  BY <1>3, <1>4, <1>5, <1>6

\* The verdict on one render is the audit's, and the budgets'.
LEMMA ReportSays ==
  ASSUME NEW docs, NEW allow, NEW forge \in BOOLEAN, Ha!Report(docs, allow, forge) = {}
  PROVE  /\ \E absent \in BOOLEAN : Ha!Errors(docs, allow, absent) = {}
         /\ forge => ~(Ha!CnpgCpu(docs) > 900)
         /\ ~forge => ~(Ha!CnpgCpu(docs) > 600)
         /\ ~(Ha!RenderedCpu(docs) > 3300)
<1>. DEFINE report == Ha!Report(docs, allow, forge)
            absent == ~forge
            errors == Ha!Errors(docs, allow, absent)
            cnpg == Ha!CnpgCpu(docs)
            cpu == Ha!RenderedCpu(docs)
            database == {<<"error", <<"cnpg">>, "over budget">>}
            all == {<<"error", <<"cpu">>, "over budget">>}
<1>1. report = errors \cup Ha!When(cnpg > IF forge THEN 900 ELSE 600, database) \cup Ha!When(cpu > 3300, all)
  BY DEF Ha!Report
<1>2. report = {} /\ absent \in BOOLEAN
  OBVIOUS
<1>3. ASSUME errors = {} PROVE \E a \in BOOLEAN : Ha!Errors(docs, allow, a) = {}
  <2>. DEFINE none(a) == Ha!Errors(docs, allow, a) = {}
  <2>1. none(absent)
    BY <1>3
  <2>. HIDE DEF none, absent
  <2>2. \E a \in BOOLEAN : none(a)
    BY <1>2, <2>1, Zenon
  <2>. QED  BY <2>2 DEF none
<1>4. database # {} /\ all # {}
  OBVIOUS
<1>. HIDE DEF report, errors, cnpg, cpu, database, all
<1>5. ~(cpu > 3300)
  BY <1>1, <1>2, <1>4 DEF Ha!When
<1>6. errors = {}
  BY <1>1, <1>2
<1>7. ASSUME forge PROVE ~(cnpg > 900)
  BY <1>1, <1>2, <1>4, <1>7 DEF Ha!When
<1>8. ASSUME ~forge PROVE ~(cnpg > 600)
  BY <1>1, <1>2, <1>4, <1>8 DEF Ha!When
<1>9. \E a \in BOOLEAN : Ha!Errors(docs, allow, a) = {}
  BY <1>3, <1>6
<1>. QED  BY <1>5, <1>7, <1>8, <1>9 DEF cnpg, cpu

\* A render that is reported on without a failure, with or without the forge.
Passes(docs, allow, budget) ==
    (\E absent \in BOOLEAN : Ha!Errors(docs, allow, absent) = {}) /\ ~(Ha!CnpgCpu(docs) > budget)
WithoutForge(docs, allow) == Ha!Report(docs, allow, FALSE) = {} => Passes(docs, allow, 600)
WithForge(docs, allow) == Ha!Report(docs, allow, TRUE) = {} => Passes(docs, allow, 900)
\* The budget is the one of what was rendered.
LEMMA ReportOfEach ==
  ASSUME NEW docs, NEW allow
  PROVE  WithoutForge(docs, allow) /\ WithForge(docs, allow)
<1>. DEFINE report(forge) == Ha!Report(docs, allow, forge) = {}
            clean == \E absent \in BOOLEAN : Ha!Errors(docs, allow, absent) = {}
            over(m) == Ha!CnpgCpu(docs) > m
            says(forge) == report(forge) => clean /\ (forge => ~over(900)) /\ (~forge => ~over(600))
<1>1. \A forge \in BOOLEAN : says(forge)
  BY ReportSays
<1>2. says(FALSE) /\ says(TRUE)
  <2>. HIDE DEF says
  <2>. QED  BY <1>1
<1>. HIDE DEF report, clean, over
<1>3. report(FALSE) => clean /\ ~over(600)
  BY <1>2, Zenon
<1>4. report(TRUE) => clean /\ ~over(900)
  BY <1>2, Zenon
<1>. QED  BY <1>3, <1>4 DEF report, clean, over, Passes, WithoutForge, WithForge

\* Whatever the bricks render, in any number and with any number of pods: a render the audit accepts survives the
\* loss of any worker and drains pod by pod, but for what the lists name, with what the loss means; and it fits the
\* budgets, when the requests come to what they are said to (check-ha.py: audit, report).
THEOREM AuditIsRight ==
  ASSUME NEW c, HaWorld(c.docs), c.forge \in BOOLEAN, \A k \in DOMAIN c.allow.pins : c.allow.pins[k].min \in Nat,
         c.cpu[1] \in Nat, c.cpu[1] = Ha!RenderedCpu(c.docs), c.cpu[2] \in Nat, c.cpu[2] = Ha!CnpgCpu(c.docs)
  PROVE  Ha!AuditAccepts(c)
<1>. DEFINE docs == c.docs
            allow == c.allow
            forge == c.forge
<1>. SUFFICES ASSUME Ha!Report(docs, allow, forge) = {}
              PROVE  /\ \A w \in Ha!Normalise(docs) : w.id \in DOMAIN allow.gaps \/ Ha!Sound(w, docs, allow)
                     /\ \A w \in Ha!Normalise(docs) : w.replicas < 2 => \/ w.id \in DOMAIN allow.gaps
                                                                        \/ w.id \in DOMAIN allow.singles /\ allow.singles[w.id].loss
                     /\ \A k \in DOMAIN allow.pins : \A w \in Ha!Normalise(docs) :
                          w.id = k => w.replicas >= allow.pins[k].min /\ (w.replicas >= 2 => Ha!Zoned(w, docs))
                     /\ c.cpu[1] <= 3300 /\ c.cpu[2] <= IF forge THEN 900 ELSE 600
  BY DEF Ha!AuditAccepts
<1>1. (\E absent \in BOOLEAN : Ha!Errors(docs, allow, absent) = {}) /\ (forge => ~(c.cpu[2] > 900)) /\ (~forge => ~(c.cpu[2] > 600)) /\ ~(c.cpu[1] > 3300)
  BY ReportSays
<1>. HIDE DEF docs, allow, forge
<1>2. /\ \A w \in Ha!Normalise(docs) :
           IF w.replicas >= 2 THEN w.id \in DOMAIN allow.gaps \/ Ha!Sound(w, docs, allow)
           ELSE \/ w.id \in DOMAIN allow.gaps
                \/ w.id \in DOMAIN allow.singles /\ allow.singles[w.id].loss
      /\ \A k \in DOMAIN allow.pins : \A w \in Ha!Normalise(docs) :
           w.id = k => ~(w.replicas < allow.pins[k].min) /\ (w.replicas >= 2 => Ha!Zoned(w, docs))
  BY <1>1, AuditSays DEF docs
<1>3. \A w \in Ha!Normalise(docs) : w.replicas \in Nat
  BY DEF HaWorld, docs
<1>4. ASSUME NEW w \in Ha!Normalise(docs) PROVE w.id \in DOMAIN allow.gaps \/ Ha!Sound(w, docs, allow)
  BY <1>2 DEF Ha!Sound
<1>5. ASSUME NEW w \in Ha!Normalise(docs), w.replicas < 2
      PROVE  \/ w.id \in DOMAIN allow.gaps
             \/ w.id \in DOMAIN allow.singles /\ allow.singles[w.id].loss
  BY <1>2, <1>3, <1>5
<1>6. ASSUME NEW k \in DOMAIN allow.pins, NEW w \in Ha!Normalise(docs), w.id = k
      PROVE  w.replicas >= allow.pins[k].min /\ (w.replicas >= 2 => Ha!Zoned(w, docs))
  <2>1. allow.pins[k].min \in Nat
    BY DEF allow
  <2>. QED  BY <1>2, <1>3, <1>6, <2>1
<1>7. c.cpu[1] <= 3300 /\ c.cpu[2] <= IF forge THEN 900 ELSE 600
  BY <1>1 DEF forge
<1>. QED  BY <1>4, <1>5, <1>6, <1>7

\* The documents of a profile's bricks.
HaBricks(t, profile) == UNION {t.bricks[p] : p \in Ha!ProfilePaths(profile)}
\* Whatever the bricks and the lists: a run of check-ha.py that exits 0 without HA_ONLY has let through only a platform
\* that stands, and without an option both that one may install, as long as the forge's profile has the default bricks.
THEOREM CiIsRight ==
  ASSUME NEW c, HaWorld(HaBricks(c.tree, c.tree.management)), HaWorld(HaBricks(c.tree, c.tree.managementForge)),
         Ha!ProfilePaths(c.tree.management) \subseteq Ha!ProfilePaths(c.tree.managementForge) =>
           \A forge \in BOOLEAN : /\ c.database[forge] \in Nat
                                 /\ c.database[forge] = Ha!CnpgCpu(HaBricks(c.tree, IF forge THEN c.tree.managementForge ELSE c.tree.management))
  PROVE  Ha!CiSeesBoth(c)
<1>. DEFINE t == c.tree
            docs0 == HaBricks(t, t.management)
            docs1 == HaBricks(t, t.managementForge)
            stands0 == Ha!Stands(docs0, c.allow) /\ c.database[FALSE] <= 600
            stands1 == Ha!Stands(docs1, c.allow) /\ c.database[TRUE] <= 900
            of(profile) == UNION {t.bricks[d.path] : d \in {x \in profile : x.kind = "Kustomization" /\ x.path # ""}}
<1>1. of(t.management) = docs0 /\ of(t.managementForge) = docs1
  BY DEF HaBricks, Ha!ProfilePaths
<1>2. SUFFICES ASSUME Ha!ProfilePaths(t.management) \subseteq Ha!ProfilePaths(t.managementForge), c.only = {},
                      Ha!Exit(t, c.allow, c.args, c.only) = 0
               PROVE  /\ c.args = {} => stands0 /\ stands1
                      /\ c.args # {} /\ "--profiles" \notin c.args /\ "--load" \notin c.args =>
                           IF "--forge" \in c.args THEN stands1 ELSE stands0
  <2>. DEFINE pinned == Ha!ProfilePaths(t.management) \subseteq Ha!ProfilePaths(t.managementForge)
              accepts == Ha!Exit(t, c.allow, c.args, c.only) = 0
              default == Ha!Stands(of(t.management), c.allow) /\ c.database[FALSE] <= 600
              withForge == Ha!Stands(of(t.managementForge), c.allow) /\ c.database[TRUE] <= 900
              plain == c.args \cap {"--profiles", "--load"} = {}
              asked == "--forge" \in c.args
  <2>1. Ha!CiSeesBoth(c) <=>
          (pinned /\ c.only = {} /\ accepts =>
             (c.args = {} => default /\ withForge) /\ (c.args # {} /\ plain => IF asked THEN withForge ELSE default))
    BY DEF Ha!CiSeesBoth
  <2>2. (default <=> stands0) /\ (withForge <=> stands1)
    <3>. HIDE DEF of, docs0, docs1
    <3>. QED  BY <1>1
  <2>3. plain => "--profiles" \notin c.args /\ "--load" \notin c.args
    OBVIOUS
  <2>4. (pinned /\ c.only = {} /\ accepts =>
          (c.args = {} => stands0 /\ stands1)
          /\ (c.args # {} /\ "--profiles" \notin c.args /\ "--load" \notin c.args => IF asked THEN stands1 ELSE stands0))
    <3>. HIDE DEF stands0, stands1
    <3>. QED  OBVIOUS
  <2>. HIDE DEF default, withForge, stands0, stands1, pinned, accepts, plain, asked
  <2>. QED  BY <2>1, <2>2, <2>3, <2>4
<1>3. Ha!Render(t, {}, FALSE) = docs0 /\ Ha!Render(t, {}, TRUE) = docs1
  BY <1>2 DEF Ha!Render, HaBricks
<1>4. ASSUME NEW docs, NEW absent, HaWorld(docs), Ha!Errors(docs, c.allow, absent) = {} PROVE Ha!Stands(docs, c.allow)
  <2>2. \A w \in Ha!Normalise(docs) :
          IF w.replicas >= 2 THEN w.id \in DOMAIN c.allow.gaps \/ Ha!Sound(w, docs, c.allow)
          ELSE w.id \in DOMAIN c.allow.gaps \/ (w.id \in DOMAIN c.allow.singles /\ c.allow.singles[w.id].loss)
    BY <1>4, AuditSays
  <2>. QED  BY <2>2 DEF Ha!Stands
<1>5. /\ c.database[FALSE] \in Nat /\ c.database[FALSE] = Ha!CnpgCpu(docs0)
      /\ c.database[TRUE] \in Nat /\ c.database[TRUE] = Ha!CnpgCpu(docs1)
  BY <1>2
<1>6. Ha!Report(docs0, c.allow, FALSE) = {} => Passes(docs0, c.allow, 600)
  <2>1. WithoutForge(docs0, c.allow)
    BY ReportOfEach
  <2>. QED  BY <2>1 DEF WithoutForge
<1>7. Ha!Report(docs1, c.allow, TRUE) = {} => Passes(docs1, c.allow, 900)
  <2>1. WithForge(docs1, c.allow)
    BY ReportOfEach
  <2>. QED  BY <2>1 DEF WithForge
<1>8. ASSUME Ha!Report(docs0, c.allow, FALSE) = {} PROVE stands0
  <2>1. ~(Ha!CnpgCpu(docs0) > 600) /\ \E absent \in BOOLEAN : Ha!Errors(docs0, c.allow, absent) = {}
    BY <1>6, <1>8 DEF Passes
  <2>2. HaWorld(docs0)
    OBVIOUS
  <2>3. Ha!Stands(docs0, c.allow)
    BY <1>4, <2>1, <2>2
  <2>. QED  BY <1>5, <2>1, <2>3
<1>9. ASSUME Ha!Report(docs1, c.allow, TRUE) = {} PROVE stands1
  <2>1. ~(Ha!CnpgCpu(docs1) > 900) /\ \E absent \in BOOLEAN : Ha!Errors(docs1, c.allow, absent) = {}
    BY <1>7, <1>9 DEF Passes
  <2>2. HaWorld(docs1)
    OBVIOUS
  <2>3. Ha!Stands(docs1, c.allow)
    BY <1>4, <2>1, <2>2
  <2>. QED  BY <1>5, <2>1, <2>3
<1>. HIDE DEF docs0, docs1, stands0, stands1
<1>10. "--profiles" \notin c.args => \A r \in Ha!Runs(t, c.args, c.only) : Ha!Report(r[1], c.allow, r[2]) = {}
  BY <1>2 DEF Ha!Exit
<1>11. ASSUME c.args = {} PROVE stands0 /\ stands1
  <2>1. Ha!Runs(t, c.args, c.only) = {<<Ha!Render(t, {}, with), with>> : with \in BOOLEAN}
    BY <1>2, <1>11 DEF Ha!Runs
  <2>2. <<docs0, FALSE>> \in Ha!Runs(t, c.args, c.only) /\ <<docs1, TRUE>> \in Ha!Runs(t, c.args, c.only)
    BY <1>3, <2>1
  <2>. QED  BY <1>8, <1>9, <1>10, <1>11, <2>2
<1>12. ASSUME c.args # {}, "--profiles" \notin c.args, "--load" \notin c.args
       PROVE  IF "--forge" \in c.args THEN stands1 ELSE stands0
  <2>1. CASE "--forge" \in c.args
    <3>1. <<docs1, TRUE>> \in Ha!Runs(t, c.args, c.only)
      BY <1>2, <1>3, <1>12, <2>1 DEF Ha!Runs
    <3>. QED  BY <1>9, <1>10, <1>12, <2>1, <3>1
  <2>2. CASE "--forge" \notin c.args
    <3>1. ("--forge" \in c.args) = FALSE
      BY <2>2
    <3>2. \/ Ha!Runs(t, c.args, c.only) = {<<Ha!Render(t, {}, FALSE), FALSE>>}
          \/ Ha!Runs(t, c.args, c.only) = {<<Ha!Render(t, {}, with), with>> : with \in BOOLEAN}
      BY <1>2, <1>12, <3>1 DEF Ha!Runs
    <3>3. <<docs0, FALSE>> \in Ha!Runs(t, c.args, c.only)
      BY <1>3, <3>2
    <3>. QED  BY <1>8, <1>10, <1>12, <2>2, <3>3
  <2>. QED  BY <2>1, <2>2
<1>. QED  BY <1>11, <1>12

-----------------------------------------------------------------------------
\* The judgements that are right of everything they may be asked about, whatever the
\* cases the run takes of it.
Judged == {"copy", "etcd", "openbao", "longhorn", "pick", "bricks"}

\* What these judgements say holds of all of it.
LEMMA EveryJudgement ==
  /\ \A c \in Copy!Cases : Copy!PassIsGenuine(c) /\ Copy!NoFalseFailure(c)
  /\ \A f \in Content!Files : Content!EtcdPassRestores(f) /\ Content!EtcdWholePasses(f)
  /\ \A s \in Content!Snapshots : Content!OpenbaoPassIsIntact(s) /\ Content!OpenbaoIntactPasses(s)
  /\ \A w \in Content!Worlds : Content!LonghornPassIsWhole(w)
  /\ \A c \in Picker!PickCases : Picker!WrittenDeploys(c) /\ Picker!CheckedIsCurrent(c) /\ Picker!FailsForAReason(c)
  /\ \A c \in Renders!BrickCases : Renders!OneOwner(c) /\ Renders!ProvidersFirst(c)
<1>1. \A c \in Copy!Cases : Copy!PassIsGenuine(c) /\ Copy!NoFalseFailure(c)
  BY CopyCasesAre, CopyPassIsGenuine, CopyFailsForAReason
<1>2. \A f \in Content!Files : Content!EtcdPassRestores(f) /\ Content!EtcdWholePasses(f)
  BY ContentCasesAre, EtcdJudged
<1>3. \A s \in Content!Snapshots : Content!OpenbaoPassIsIntact(s) /\ Content!OpenbaoIntactPasses(s)
  BY ContentCasesAre, OpenbaoJudged
<1>4. \A w \in Content!Worlds : Content!LonghornPassIsWhole(w)
  BY ContentCasesAre, LonghornJudged
<1>5. \A c \in Picker!PickCases : Picker!WrittenDeploys(c) /\ Picker!CheckedIsCurrent(c) /\ Picker!FailsForAReason(c)
  BY PickCasesAre, PickWrites, PickChecks, PickFails
<1>6. \A c \in Renders!BrickCases : Renders!OneOwner(c) /\ Renders!ProvidersFirst(c)
  BY BrickCasesAre, BricksOwn, BricksWait
<1>. QED  BY <1>1, <1>2, <1>3, <1>4, <1>5, <1>6

\* What the run checks of these judgements holds in every state.
THEOREM JudgementsHold == Spec => [](check \in Judged => AcceptedIsRight /\ RefusedIsWrong)
<1>. DEFINE J == check \in Judged => AcceptedIsRight /\ RefusedIsWrong
<1>1. Init => J
  BY DEF Init, Judged
<1>2. J /\ [Next]_<<check, case>> => J'
  <2>. SUFFICES ASSUME J, [Next]_<<check, case>>
                PROVE  J'
    OBVIOUS
  <2>1. CASE Next
    <3>1. /\ check' = "copy" => case' \in Copy!Cases
          /\ check' = "etcd" => case' \in Content!Files
          /\ check' = "openbao" => case' \in Content!Snapshots
          /\ check' = "longhorn" => case' \in Content!Worlds
          /\ check' = "pick" => case' \in Picker!PickCases
          /\ check' = "bricks" => case' \in Renders!BrickCases
      BY <2>1 DEF Next
    <3>2. CASE check' = "copy"
      BY <3>1, <3>2, EveryJudgement DEF AcceptedIsRight, RefusedIsWrong
    <3>3. CASE check' = "etcd"
      BY <3>1, <3>3, EveryJudgement DEF AcceptedIsRight, RefusedIsWrong
    <3>4. CASE check' = "openbao"
      BY <3>1, <3>4, EveryJudgement DEF AcceptedIsRight, RefusedIsWrong
    <3>5. CASE check' = "longhorn"
      BY <3>1, <3>5, EveryJudgement DEF AcceptedIsRight, RefusedIsWrong
    <3>6. CASE check' = "pick"
      BY <3>1, <3>6, EveryJudgement DEF AcceptedIsRight, RefusedIsWrong
    <3>7. CASE check' = "bricks"
      BY <3>1, <3>7, EveryJudgement DEF AcceptedIsRight, RefusedIsWrong
    <3>. QED  BY <3>2, <3>3, <3>4, <3>5, <3>6, <3>7 DEF Judged
  <2>2. CASE UNCHANGED <<check, case>>
    BY <2>2 DEF AcceptedIsRight, RefusedIsWrong, Judged
  <2>. QED  BY <2>1, <2>2
<1>. QED  BY <1>1, <1>2, PTL DEF Spec

=============================================================================
