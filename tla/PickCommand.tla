---------------------------- MODULE PickCommand ----------------------------
(***************************************************************************)
(* One run of src/scripts/pick.py from its arguments to its exit status:   *)
(* the tree is loaded and checked, names are resolved, a profile is        *)
(* planned, written, or every generated profile is checked.                *)
(*                                                                         *)
(* A tree holds the Kustomizations, the file each is declared in, which    *)
(* files the base lists, the catalogue and the profiles beside the base.   *)
(* What pick() selects and what validate_dag reports of the graph are      *)
(* taken from Dag: the modules Pick and DagCheck show that they compute    *)
(* it.  A profile is the request in its header and the bricks it removes.  *)
(***************************************************************************)
EXTENDS Dag, Sequences, Functions

When(test, errors) == IF test THEN errors ELSE {}
Names(t) == DOMAIN t.deps

\* load_dag: a Kustomization defined twice, or none at all
LoadErrors(t) == {<<"twice", n>> : n \in t.twice} \cup When(Names(t) = {}, {<<"none", "">>})

\* validate_dag
DagErrors(t) ==
  {<<"unknown", d>> : d \in (UNION {t.deps[n] : n \in Names(t)}) \ Names(t)}
  \cup {<<"dead path", n>> : n \in t.gone \cap Names(t)}
  \cup When(Cyclic(t.deps), {<<"cycle", "">>})
  \cup {<<"never deployed", f>> : f \in Range(t.file) \ t.listed}

\* Mutant: an alias may have the name of a brick.
UnknownTargets(t) ==
  {<<"unknown", n>> : n \in (t.baseline \cup t.companions \cup Range(t.aliases)) \ Names(t)}

\* load_catalog
CatalogErrors(t) ==
  {<<"unknown", n>> : n \in (t.baseline \cup t.companions \cup Range(t.aliases)) \ Names(t)}
  \cup {<<"shadows", a>> : a \in DOMAIN t.aliases \cap Names(t)}

\* resolve_names: aliases.get(r, r)
Resolve(t, r) == IF r \in DOMAIN t.aliases THEN t.aliases[r] ELSE r
Resolved(t, asked) == {Resolve(t, r) : r \in Range(asked)}
Known(t, asked) == Resolved(t, asked) \subseteq Names(t)

\* pick
Selection(t, requested, baseline, companions) ==
  LET closed == LeastClosed(t.deps, requested \cup (IF baseline THEN t.baseline ELSE {}))
  IN  LeastSettled(t.deps, IF companions THEN t.companions ELSE {}, closed)

\* render_profile, and what it says of another hand
RenderProfile(t, selected, asked) == [by |-> "pick", asked |-> <<asked>>, removed |-> Names(t) \ selected]
ByHand == [by |-> "hand", asked |-> <<>>, removed |-> {}]

\* cmd_check, for one profile
Stale(t, p) ==
  /\ p.by = "pick"
  /\ \/ p.asked = <<>>
     \/ ~Known(t, p.asked[1])
     \/ p # RenderProfile(t, Selection(t, Resolved(t, p.asked[1]), TRUE, TRUE), p.asked[1])

\* Mutant: no floor.
CheckAnything(t) == IF \E d \in DOMAIN t.profiles : Stale(t, t.profiles[d]) THEN 1 ELSE 0

\* cmd_check: zero profiles is a failure too
CheckStatus(t) ==
  IF (\E d \in DOMAIN t.profiles : Stale(t, t.profiles[d])) \/ (\A d \in DOMAIN t.profiles : t.profiles[d].by # "pick")
  THEN 1 ELSE 0

\* emit_profile: <outdir>/kustomization.yaml
Emit(t, dir, selected, asked) ==
  [t EXCEPT !.profiles = [d \in {dir} \cup DOMAIN t.profiles |->
                            IF d = dir THEN RenderProfile(t, selected, asked) ELSE t.profiles[d]]]

Ends(t, status, shown) == [exit |-> status, tree |-> t, shown |-> shown]

\* main: what the arguments ask for, the first of --validate, --check, --list, a plan
Main(t, args) ==
  LET requested == Resolved(t, args.bricks)
      selected == Selection(t, requested, ~args.noBaseline, ~args.noCompanions)
  IN  CASE LoadErrors(t) # {} \/ DagErrors(t) # {} \/ CatalogErrors(t) # {} -> Ends(t, 1, {})
        [] OTHER ->
           CASE "validate" \in args.do -> Ends(t, 0, {})
             [] "check" \in args.do /\ "validate" \notin args.do -> Ends(t, CheckStatus(t), {})
             [] args.do \cap {"validate", "check"} = {} /\ ("list" \in args.do \/ args.bricks = <<>>) ->
                  Ends(t, IF "list" \in args.do THEN 0 ELSE 1, Names(t))
             [] args.do = {} /\ args.bricks # <<>> ->
                  IF ~Known(t, args.bricks) THEN Ends(t, 1, {})
                  ELSE Ends(IF args.output = <<>> THEN t ELSE Emit(t, args.output[1], selected, args.bricks), 0, selected)
-----------------------------------------------------------------------------
Kept(t, p) == Names(t) \ p.removed
Sane(t) == LoadErrors(t) = {} /\ ~Cyclic(t.deps) /\ ClosedUnder(t.deps, Names(t))

\* What a run writes deploys: every brick that was asked for, by its own name or by its alias, is in
\* the profile, and what each of its bricks depends on; nothing else of the tree changes, nothing is
\* written without -o, and a plan without -o shows what -o would keep.
WrittenDeploys(c) ==
  LET ran == Main(c.tree, c.args)
      dirs == {d \in DOMAIN ran.tree.profiles : d \notin DOMAIN c.tree.profiles \/ ran.tree.profiles[d] # c.tree.profiles[d]}
  IN  /\ [ran.tree EXCEPT !.profiles = <<>>] = [c.tree EXCEPT !.profiles = <<>>]
      /\ DOMAIN c.tree.profiles \subseteq DOMAIN ran.tree.profiles /\ dirs \subseteq Range(c.args.output)
      /\ \A d \in dirs :
           /\ ran.exit = 0 /\ Sane(c.tree) /\ ran.shown = Kept(c.tree, ran.tree.profiles[d])
           /\ ClosedUnder(c.tree.deps, ran.shown)
           /\ \A r \in Range(c.args.bricks) : IF r \in Names(c.tree) THEN r \in ran.shown ELSE c.tree.aliases[r] \in ran.shown
           /\ Main(c.tree, [c.args EXCEPT !.output = <<>>]).shown = ran.shown

\* A profile written with the default options passes --check as long as the tree stays; a check that
\* passes has looked at a generated profile, and each of them deploys and holds what its header asks for.
CheckedIsCurrent(c) ==
  LET ran == Main(c.tree, c.args)
      checks(t) == Main(t, [c.args EXCEPT !.do = {"check"}]).exit = 0
  IN  /\ ran.tree # c.tree /\ ~c.args.noBaseline /\ ~c.args.noCompanions /\ checks(c.tree) => checks(ran.tree)
      /\ checks(ran.tree) =>
           /\ \E d \in DOMAIN ran.tree.profiles : ran.tree.profiles[d].by = "pick"
           /\ \A d \in DOMAIN ran.tree.profiles :
                LET p == ran.tree.profiles[d] IN
                p.by = "pick" => ClosedUnder(c.tree.deps, Kept(c.tree, p)) /\ Resolved(c.tree, p.asked[1]) \subseteq Kept(c.tree, p)

GoodProfiles(t) ==
  LET made == {t.profiles[d] : d \in {e \in DOMAIN t.profiles : t.profiles[e].by = "pick"}}
  IN  /\ made # {}
      /\ \A p \in made : p.asked # <<>> /\ Known(t, p.asked[1]) /\ Kept(t, p) = Selection(t, Resolved(t, p.asked[1]), TRUE, TRUE)

\* A run fails only for a reason: a graph or a catalogue that is wrong, a name nobody knows, no request,
\* or a profile that is not what its header picks.
FailsForAReason(c) ==
  LET ran == Main(c.tree, c.args) IN
  ran.exit = 1 =>
    \/ LoadErrors(c.tree) \cup DagErrors(c.tree) # {}
    \/ \E n \in c.tree.baseline \cup c.tree.companions \cup Range(c.tree.aliases) : n \notin Names(c.tree)
    \/ DOMAIN c.tree.aliases \cap Names(c.tree) # {}
    \/ \E r \in Range(c.args.bricks) : r \notin Names(c.tree) \cup DOMAIN c.tree.aliases
    \/ c.args.bricks = <<>> /\ c.args.do = {}
    \/ "check" \in c.args.do /\ ~GoodProfiles(c.tree)
-----------------------------------------------------------------------------
Chain == [a |-> {}, b |-> {"a"}, c |-> {}]
Graphs == {Chain, [Chain EXCEPT !.c = {"b"}], [Chain EXCEPT !.c = {"a"}], [Chain EXCEPT !.a = {"b"}], [Chain EXCEPT !.c = {"x"}]}
Tree(deps, gone, listed, baseline, companions, aliases, profiles) ==
  [deps |-> deps, file |-> [n \in {"a", "b", "c"} |-> IF n = "c" THEN "2" ELSE "1"], twice |-> {}, gone |-> gone,
   listed |-> listed, baseline |-> baseline, companions |-> companions, aliases |-> aliases, profiles |-> profiles]
Profiles == {<<>>, [hand |-> ByHand], [old |-> [by |-> "pick", asked |-> <<<<"b">>>>, removed |-> {"c"}]],
             [old |-> [by |-> "pick", asked |-> <<>>, removed |-> {}], hand |-> ByHand]}
PickTrees ==
  {Tree(deps, {}, {"1", "2"}, baseline, companions, aliases, profiles) :
     deps \in Graphs, baseline \in {{}, {"b"}}, companions \in {{}, {"c"}},
     aliases \in {<<>>, [v |-> "b"], [a |-> "c"], [v |-> "x"]}, profiles \in Profiles}
  \cup {Tree(Chain, gone, listed, {}, {}, <<>>, <<>>) : gone \in {{}, {"c"}}, listed \in {{"1"}, {"1", "2"}}}
  \cup {[Tree(Chain, {}, {"1", "2"}, {}, {}, <<>>, <<>>) EXCEPT !.twice = {"a"}]}
Args == [do : {{}, {"check"}, {"list"}, {"validate", "check"}}, bricks : {<<>>, <<"b">>, <<"v">>, <<"a", "c">>, <<"y">>},
         noBaseline : {FALSE}, noCompanions : BOOLEAN, output : {<<>>, <<"old">>, <<"new">>}]
PickCases == [tree : PickTrees, args : Args]
=============================================================================
