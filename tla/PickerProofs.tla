---------------------------- MODULE PickerProofs ----------------------------
(***************************************************************************)
(* The picker, for every graph.  The check: if the search ends without an  *)
(* error, every dependency exists and no brick depends on itself, in       *)
(* however many steps.  The argument needs no induction over the length of *)
(* a cycle: the black bricks never hold a set each brick of which depends  *)
(* on another.  Conversely every error is one: the calls under way are a   *)
(* path of the graph, so that a grey brick met again closes a cycle, and a *)
(* graph that has neither cycle nor unknown dependency is accepted.        *)
(*                                                                         *)
(* Then the selection and the life of a profile, as they are composed in   *)
(* MCPicker: what PickProofs shows of pick() holds of the composition, a   *)
(* profile that passes the check deploys, and a fresh one passes.          *)
(***************************************************************************)
EXTENDS MCPicker, SequenceTheorems, TLAPS

\* Every variable keeps its type.
THEOREM TypeCorrect == Spec => []TypeOK
<1> USE NamesAssumption
<1>1. Init => TypeOK
  BY DEF Init, TypeOK, Unknown, Frames
<1>2. TypeOK /\ [Next]_vars => TypeOK'
  <2> SUFFICES ASSUME TypeOK, [Next]_vars PROVE TypeOK'
    OBVIOUS
  <2>1. ASSUME stack # <<>> PROVE Top \in Frames /\ Len(stack) \in 1..Len(stack)
    BY <2>1 DEF TypeOK, Top
  <2>2. ASSUME stack # <<>>, NEW d PROVE Looked(d) \in Seq(Frames)
    BY <2>1, <2>2 DEF TypeOK, Looked, Top, Frames
  <2>3. ASSUME NEW d \in Bricks PROVE Frame(d) \in Frames
    BY <2>3 DEF TypeOK, Frame, Frames
  <2>4. ASSUME stack # <<>> PROVE SubSeq(stack, 1, Len(stack) - 1) \in Seq(Frames)
    BY <2>4 DEF TypeOK
  <2>5. ASSUME NEW n \in Bricks, Root(n) PROVE TypeOK'
    BY <2>3, <2>5 DEF Root, TypeOK
  <2>6. ASSUME NEW d \in Missing, SkipMissing(d) PROVE TypeOK'
    BY <2>2, <2>6 DEF SkipMissing, TypeOK
  <2>7. ASSUME NEW d \in Bricks, Descend(d) PROVE TypeOK'
    BY <2>2, <2>3, <2>7 DEF Descend, TypeOK
  <2>8. ASSUME NEW d \in Bricks, Report(d) PROVE TypeOK'
    <3>1. PathFrom(d) \subseteq Seq(Bricks)
      <4>1. Path \in Seq(Bricks)
        <5>1. Len(stack) \in Nat
          BY DEF TypeOK
        <5>2. \A k \in 1..Len(stack) : stack[k].node \in Bricks
          <6>1. \A k \in 1..Len(stack) : stack[k] \in Frames
            BY ElementOfSeq DEF TypeOK
          <6>2. QED
            BY <6>1 DEF Frames
        <5>3. Path \in [1..Len(stack) -> Bricks]
          BY <5>2 DEF Path
        <5>4. QED
          BY <5>1, <5>3, SeqDef
      <4>2. Len(Path) = Len(stack) /\ Len(stack) \in Nat
        <5>1. DOMAIN Path = 1..Len(stack) /\ Len(stack) \in Nat
          BY DEF Path, TypeOK
        <5>2. QED
          BY <4>1, <5>1, LenProperties
      <4>3. ASSUME NEW i \in 1..Len(stack)
            PROVE  SubSeq(Path, i, Len(Path)) \o <<d>> \in Seq(Bricks)
        <5>1. SubSeq(Path, i, Len(Path)) \in Seq(Bricks)
          BY <4>1, <4>2, <4>3
        <5>2. <<d>> \in Seq(Bricks)
          OBVIOUS
        <5>3. QED
          BY <5>1, <5>2, ConcatProperties
      <4>4. <<Top.node, d>> \in Seq(Bricks)
        BY <2>1, <2>8 DEF Report, Frames
      <4>5. QED
        BY <4>3, <4>4 DEF PathFrom
    <3>2. QED
      BY <2>2, <2>8, <3>1 DEF Report, TypeOK
  <2>9. ASSUME NEW d \in Bricks, SkipBlack(d) PROVE TypeOK'
    BY <2>2, <2>9 DEF SkipBlack, TypeOK
  <2>10. CASE Return
    BY <2>1, <2>4, <2>10 DEF Return, TypeOK, Frames
  <2>11. CASE UNCHANGED vars
    BY <2>11 DEF vars, TypeOK
  <2>12. QED
    BY <2>5, <2>6, <2>7, <2>8, <2>9, <2>10, <2>11 DEF Next
<1>3. QED
  BY <1>1, <1>2, PTL DEF Spec

-----------------------------------------------------------------------------
Black == {n \in Bricks : color[n] = "black"}

\* The grey bricks are the calls under way.
GreyInv ==
  /\ \A n \in Bricks : color[n] = "grey" <=> \E i \in 1..Len(stack) : stack[i].node = n
  /\ \A i, j \in 1..Len(stack) : stack[i].node = stack[j].node => i = j

\* What a call has looked at is black, or is the call it waits for.
LookedInv ==
  \A i \in 1..Len(stack) :
    \A d \in (deps[stack[i].node] \cap Bricks) \ stack[i].left :
      color[d] = "black" \/ (i < Len(stack) /\ d = stack[i + 1].node)

\* The black bricks depend on black bricks only, and hold no cycle.
BlackInv ==
  /\ \A n \in Black : deps[n] \cap Bricks \subseteq Black
  /\ \A S \in SUBSET Black : S # {} => \E n \in S : deps[n] \cap S = {}

SearchInv ==
  /\ GreyInv
  /\ cycles = {} => LookedInv /\ BlackInv
  /\ unknown = Unknown

LEMMA SearchInit == Init => SearchInv
BY DEF Init, SearchInv, GreyInv, LookedInv, BlackInv, Black, Unknown

\* A call begins: its node turns grey, nothing turns black.
LEMMA SearchCalls ==
  ASSUME TypeOK, SearchInv, NEW d \in Bricks, Root(d) \/ Descend(d)
  PROVE  SearchInv'
<1>1. Len(stack) \in Nat
  BY DEF TypeOK
<1>2. CASE Root(d)
  <2>1. Len(stack') = 1 /\ stack'[1] = Frame(d) /\ Len(stack) = 0
    BY <1>2 DEF Root
  <2>2. GreyInv'
    BY <1>2, <2>1 DEF Root, SearchInv, GreyInv, TypeOK, Frame
  <2>3. LookedInv'
    BY <1>2, <2>1 DEF Root, LookedInv, Frame
  <2>4. Black' = Black
    BY <1>2 DEF Root, Black, TypeOK
  <2>5. QED
    BY <1>2, <2>2, <2>3, <2>4 DEF Root, SearchInv, BlackInv, Unknown
<1>3. CASE Descend(d)
  <2> DEFINE n == Len(stack)
  <2>1. /\ n \in 1..n /\ Len(stack') = n + 1
        /\ \A i \in 1..n : stack'[i].node = stack[i].node
        /\ \A i \in 1..(n - 1) : stack'[i] = stack[i]
        /\ stack'[n].left = stack[n].left \ {d}
        /\ stack'[n + 1] = Frame(d)
    BY <1>1, <1>3 DEF Descend, Looked, Top, TypeOK, Frames
  <2>2. GreyInv'
    <3>1. \A i \in 1..n : stack[i].node # d
      BY <1>3 DEF Descend, SearchInv, GreyInv
    <3>2. stack'[n + 1].node = d
      BY <2>1 DEF Frame
    <3>3. \A m \in Bricks : color'[m] = "grey" <=> color[m] = "grey" \/ m = d
      BY <1>3 DEF Descend, TypeOK
    <3>4. \A m \in Bricks : color'[m] = "grey" <=> \E i \in 1..Len(stack') : stack'[i].node = m
      BY <1>1, <2>1, <3>2, <3>3 DEF SearchInv, GreyInv
    <3>5. \A i, j \in 1..Len(stack') : stack'[i].node = stack'[j].node => i = j
      BY <1>1, <2>1, <3>1, <3>2 DEF SearchInv, GreyInv
    <3>6. QED
      BY <3>4, <3>5 DEF GreyInv
  <2>3. ASSUME cycles = {} PROVE LookedInv'
    BY <1>1, <1>3, <2>1, <2>3
    DEF Descend, SearchInv, LookedInv, TypeOK, Frame, Frames
  <2>4. Black' = Black
    BY <1>3 DEF Descend, Black, TypeOK
  <2>5. QED
    BY <1>3, <2>2, <2>3, <2>4 DEF Descend, SearchInv, BlackInv, Unknown
<1>4. QED
  BY <1>2, <1>3

\* A dependency is looked at that calls for no call.
LEMMA SearchLooks ==
  ASSUME TypeOK, SearchInv,
         \/ \E d \in Missing : SkipMissing(d)
         \/ \E d \in Bricks : Report(d) \/ SkipBlack(d)
  PROVE  SearchInv'
<1> USE NamesAssumption
<1> DEFINE n == Len(stack)
<1>1. PICK d \in Bricks \cup Missing :
        /\ stack # <<>> /\ stack' = Looked(d)
        /\ UNCHANGED <<deps, color, unknown>>
        /\ cycles' = {} => cycles = {} /\ (d \in Missing \/ color[d] = "black")
  BY DEF SkipMissing, Report, SkipBlack
<1>2. /\ n \in Nat /\ n \in 1..n /\ Len(stack') = n
      /\ \A i \in 1..n : stack'[i].node = stack[i].node
      /\ \A i \in 1..(n - 1) : stack'[i] = stack[i]
      /\ stack'[n].left = stack[n].left \ {d}
  BY <1>1 DEF Looked, Top, TypeOK, Frames
<1>3. GreyInv'
  BY <1>1, <1>2 DEF SearchInv, GreyInv
<1>4. ASSUME cycles' = {} PROVE LookedInv'
  BY <1>1, <1>2, <1>4 DEF SearchInv, LookedInv, TypeOK, Frames
<1>5. QED
  BY <1>1, <1>3, <1>4 DEF SearchInv, BlackInv, Black, Unknown

\* A call returns: the others stay under way.
LEMMA ReturnPops ==
  ASSUME TypeOK, Return
  PROVE  /\ Len(stack) \in Nat \ {0} /\ Len(stack') = Len(stack) - 1
         /\ \A i \in 1..(Len(stack) - 1) : stack'[i] = stack[i]
<1> DEFINE n == Len(stack)
<1>1. n \in Nat /\ n > 0
  BY DEF Return, TypeOK
<1>2. \A i \in 1..(n - 1) : stack[i] \in Frames
  BY <1>1 DEF TypeOK
<1>3. n - 1 \in Int /\ 1 \in Int
  BY <1>1
<1>4. /\ Len(SubSeq(stack, 1, n - 1)) = IF 1 <= n - 1 THEN (n - 1) - 1 + 1 ELSE 0
      /\ \A i \in 1..((n - 1) - 1 + 1) : SubSeq(stack, 1, n - 1)[i] = stack[1 + i - 1]
  BY <1>2, <1>3, SubSeqProperties
<1>5. stack' = SubSeq(stack, 1, n - 1)
  BY DEF Return
<1> HIDE DEF n
<1>6. (n - 1) - 1 + 1 = n - 1 /\ (~(1 <= n - 1) => n - 1 = 0)
  BY <1>1
<1>7. Len(stack') = n - 1
  BY <1>4, <1>5, <1>6
<1>8. \A i \in 1..(n - 1) : 1 + i - 1 = i
  BY <1>1
<1>9. \A i \in 1..(n - 1) : stack'[i] = stack[i]
  BY <1>4, <1>5, <1>6, <1>8, Zenon
<1>10. QED
  BY <1>1, <1>7, <1>9 DEF n

\* Its node joins the black ones.
LEMMA SearchReturns ==
  ASSUME TypeOK, SearchInv, Return
  PROVE  SearchInv'
<1> DEFINE n == Len(stack)  t == stack[n].node
<1>1. /\ n \in Nat /\ n \in 1..n /\ Len(stack') = n - 1
      /\ \A i \in 1..(n - 1) : stack'[i] = stack[i]
      /\ t \in Bricks /\ color' = [color EXCEPT ![t] = "black"]
      /\ stack[n].left = {}
      /\ UNCHANGED <<deps, unknown, cycles>>
  <2>1. n \in Nat /\ n \in 1..n /\ stack[n] \in Frames
    BY DEF Return, TypeOK
  <2>2. QED
    BY <2>1, ReturnPops DEF Return, Top, Frames
<1>2. color[t] = "grey" /\ \A i \in 1..(n - 1) : stack[i].node # t
  BY <1>1 DEF SearchInv, GreyInv
<1>3. GreyInv'
  BY <1>1, <1>2 DEF SearchInv, GreyInv, TypeOK
<1>4. Black' = Black \cup {t} /\ t \notin Black
  BY <1>1, <1>2 DEF Black, TypeOK
<1>5. ASSUME cycles = {} PROVE LookedInv' /\ BlackInv'
  <2>1. deps[t] \cap Bricks \subseteq Black
    BY <1>1, <1>5 DEF SearchInv, LookedInv, Black
  <2>2. LookedInv'
    <3> SUFFICES ASSUME NEW i \in 1..(n - 1),
                        NEW d \in (deps[stack[i].node] \cap Bricks) \ stack[i].left
                 PROVE  color'[d] = "black" \/ (i < n - 1 /\ d = stack[i + 1].node)
      BY <1>1 DEF LookedInv
    <3>1. color[d] = "black" \/ (i < n /\ d = stack[i + 1].node)
      BY <1>1, <1>5 DEF SearchInv, LookedInv
    <3>2. QED
      BY <1>1, <3>1 DEF TypeOK
  <2>3. \A m \in Black : deps[m] \cap Bricks \subseteq Black
    BY <1>5 DEF SearchInv, BlackInv
  <2>4. ASSUME NEW S \in SUBSET (Black \cup {t}), S # {}
        PROVE  \E m \in S : deps[m] \cap S = {}
    <3>1. S \subseteq Bricks
      BY <1>1 DEF Black
    <3>2. CASE S \ {t} = {}
      BY <1>4, <2>1, <2>4, <3>1, <3>2
    <3>3. CASE S \ {t} # {}
      <4>1. PICK m \in S \ {t} : deps[m] \cap (S \ {t}) = {}
        BY <1>5, <2>4, <3>3 DEF SearchInv, BlackInv
      <4>2. t \notin deps[m]
        BY <1>1, <1>4, <2>3, <2>4, <4>1
      <4>3. QED
        BY <4>1, <4>2
    <3>4. QED
      BY <3>2, <3>3
  <2>5. QED
    BY <1>1, <1>4, <2>1, <2>2, <2>3, <2>4 DEF BlackInv
<1>6. QED
  BY <1>1, <1>3, <1>5 DEF SearchInv, Unknown

THEOREM SearchHolds == Spec => []SearchInv
<1>1. TypeOK /\ SearchInv /\ [Next]_vars => SearchInv'
  <2> SUFFICES ASSUME TypeOK, SearchInv, [Next]_vars PROVE SearchInv'
    OBVIOUS
  <2>1. CASE UNCHANGED vars
    BY <2>1 DEF vars, SearchInv, GreyInv, LookedInv, BlackInv, Black, Unknown
  <2>2. QED
    BY <2>1, SearchCalls, SearchLooks, SearchReturns DEF Next
<1>2. QED
  BY <1>1, SearchInit, TypeCorrect, PTL DEF Spec

\* validate_dag accepts no graph with an unknown dependency or with a cycle.
THEOREM AcceptedHealthy == Spec => []AcceptedIsHealthy
<1>1. TypeOK /\ SearchInv => AcceptedIsHealthy
  <2> SUFFICES ASSUME TypeOK, SearchInv, Accepted PROVE Healthy
    BY DEF AcceptedIsHealthy
  <2>1. Len(stack) = 0 /\ Black = Bricks
    BY DEF Accepted, Finished, SearchInv, GreyInv, Black, TypeOK
  <2>2. ClosedUnder(deps, Bricks)
    <3> SUFFICES ASSUME NEW b \in Bricks, NEW d \in deps[b], d \notin Bricks PROVE FALSE
      BY DEF ClosedUnder
    <3>1. <<b, d>> \in Bricks \X Missing
      BY DEF TypeOK
    <3>2. <<b, d>> \in Unknown
      BY <3>1 DEF Unknown
    <3>3. QED
      BY <3>2 DEF Accepted, SearchInv
  <2>3. ~Cyclic(deps)
    BY <2>1 DEF Accepted, SearchInv, BlackInv, Cyclic, TypeOK
  <2>4. QED
    BY <2>2, <2>3 DEF Healthy
<1>2. QED
  BY <1>1, SearchHolds, TypeCorrect, PTL

-----------------------------------------------------------------------------
\* The calls under way are a path of the graph.
PathInv ==
  /\ \A i \in 1..Len(stack) : stack[i].left \subseteq deps[stack[i].node]
  /\ \A i \in 1..(Len(stack) - 1) : stack[i + 1].node \in deps[stack[i].node]

\* A call begins or looks at one more dependency.
LEMMA PathGrows ==
  ASSUME TypeOK, PathInv, NEW d,
         \/ d \in Bricks /\ (Root(d) \/ Descend(d) \/ Report(d) \/ SkipBlack(d))
         \/ SkipMissing(d)
  PROVE  PathInv'
<1> DEFINE n == Len(stack)
<1>1. n \in Nat
  BY DEF TypeOK
<1>2. CASE d \in Bricks /\ Root(d)
  <2>1. Len(stack') = 1 /\ stack'[1] = Frame(d) /\ deps' = deps
    BY <1>2 DEF Root
  <2>2. QED
    BY <2>1 DEF PathInv, Frame
<1>3. CASE Report(d) \/ SkipBlack(d) \/ SkipMissing(d)
  <2>1. /\ n \in 1..n /\ Len(stack') = n /\ deps' = deps
        /\ \A i \in 1..n : stack'[i].node = stack[i].node
        /\ \A i \in 1..n : stack'[i].left \subseteq stack[i].left
    <3>1. stack # <<>> /\ stack' = Looked(d) /\ deps' = deps
      BY <1>3 DEF Report, SkipBlack, SkipMissing
    <3>2. QED
      BY <1>1, <3>1 DEF Looked, TypeOK, Frames
  <2>2. \A i \in 1..Len(stack') : stack'[i].left \subseteq deps'[stack'[i].node]
    BY <1>1, <2>1 DEF PathInv
  <2>3. \A i \in 1..(Len(stack') - 1) : stack'[i + 1].node \in deps'[stack'[i].node]
    BY <1>1, <2>1 DEF PathInv
  <2>4. QED
    BY <2>2, <2>3 DEF PathInv
<1>4. CASE d \in Bricks /\ Descend(d)
  <2>1. /\ n \in 1..n /\ Len(stack') = n + 1 /\ deps' = deps /\ d \in stack[n].left
        /\ \A i \in 1..n : stack'[i].node = stack[i].node
        /\ \A i \in 1..n : stack'[i].left \subseteq stack[i].left
        /\ stack'[n + 1] = Frame(d)
    BY <1>1, <1>4 DEF Descend, Looked, Top, TypeOK, Frames
  <2>2. stack'[n + 1].node = d /\ stack'[n + 1].left = deps[d]
    BY <2>1 DEF Frame
  <2>3. \A i \in 1..Len(stack') : stack'[i].left \subseteq deps'[stack'[i].node]
    BY <1>1, <2>1, <2>2 DEF PathInv
  <2>4. \A i \in 1..(Len(stack') - 1) : stack'[i + 1].node \in deps'[stack'[i].node]
    BY <1>1, <2>1, <2>2 DEF PathInv
  <2>5. QED
    BY <2>3, <2>4 DEF PathInv
<1>5. QED
  BY <1>2, <1>3, <1>4

THEOREM PathHolds == Spec => []PathInv
<1>1. Init => PathInv
  BY DEF Init, PathInv
<1>2. TypeOK /\ PathInv /\ [Next]_vars => PathInv'
  <2> SUFFICES ASSUME TypeOK, PathInv, [Next]_vars PROVE PathInv'
    OBVIOUS
  <2>1. CASE Return
    <3>1. deps' = deps
      BY <2>1 DEF Return
    <3>2. QED
      BY <2>1, <3>1, ReturnPops DEF PathInv
  <2>2. CASE UNCHANGED vars
    BY <2>2 DEF vars, PathInv
  <2>3. QED
    BY <2>1, <2>2, PathGrows DEF Next
<1>3. QED
  BY <1>1, <1>2, TypeCorrect, PTL DEF Spec

\* What is reported of a grey brick is a cycle: the brick is on the path.
LEMMA ReportedIsReal ==
  ASSUME TypeOK, GreyInv, PathInv, NEW d \in Bricks, Report(d), NEW p \in PathFrom(d)
  PROVE  /\ Len(p) > 1 /\ p[1] = p[Len(p)]
         /\ \A k \in 1..(Len(p) - 1) : p[k + 1] \in deps[p[k]]
<1> DEFINE n == Len(stack)
<1>1. n \in Nat \ {0} /\ d \in stack[n].left
  BY DEF Report, Top, TypeOK
<1>2. \A k \in 1..n : Path[k] = stack[k].node /\ Path[k] \in Bricks
  <2>1. \A k \in 1..n : stack[k] \in Frames
    BY ElementOfSeq DEF TypeOK
  <2>2. QED
    BY <2>1 DEF Path, Frames
<1>3. Len(Path) = n
  <2>1. Path \in [1..n -> Bricks]
    BY <1>2 DEF Path
  <2>2. Path \in Seq(Bricks) /\ DOMAIN Path = 1..n
    BY <1>1, <2>1, SeqDef
  <2>3. QED
    BY <1>1, <2>2, LenProperties
<1>4. PICK i \in 1..n : Path[i] = d /\ p = SubSeq(Path, i, n) \o <<d>>
  <2>1. \E i \in 1..n : Path[i] = d
    BY <1>2 DEF Report, GreyInv
  <2>2. QED
    BY <1>3, <2>1 DEF PathFrom
<1> DEFINE q == SubSeq(Path, i, n)
<1>5. q \in Seq(Bricks) /\ Len(q) = n - i + 1 /\ \A k \in 1..(n - i + 1) : q[k] = Path[i + k - 1]
  <2>1. \A k \in i..n : Path[k] \in Bricks
    BY <1>2
  <2>2. i \in Int /\ n \in Int /\ i <= n
    BY <1>1
  <2>3. QED
    BY <2>1, <2>2, SubSeqProperties
<1>6. /\ Len(p) = n - i + 2 /\ p[n - i + 2] = d
      /\ \A k \in 1..(n - i + 1) : p[k] = Path[i + k - 1]
  <2>1. <<d>> \in Seq(Bricks) /\ Len(<<d>>) = 1 /\ <<d>>[1] = d
    OBVIOUS
  <2>2. /\ Len(p) = Len(q) + 1
        /\ \A k \in 1..(Len(q) + 1) : p[k] = IF k <= Len(q) THEN q[k] ELSE <<d>>[k - Len(q)]
    BY <1>4, <1>5, <2>1, ConcatProperties
  <2> HIDE DEF q
  <2>3. Len(p) = n - i + 2 /\ \A k \in 1..(n - i + 2) : p[k] = IF k <= n - i + 1 THEN q[k] ELSE d
    BY <1>1, <1>5, <2>1, <2>2
  <2>4. QED
    BY <1>1, <1>5, <2>3
<1> HIDE DEF q
<1>7. Len(p) > 1 /\ p[1] = p[Len(p)]
  <2>1. 1 \in 1..(n - i + 1) /\ i + 1 - 1 = i /\ n - i + 2 > 1
    BY <1>1
  <2>2. p[1] = Path[i]
    BY <1>6, <2>1
  <2>3. QED
    BY <1>4, <1>6, <2>1, <2>2
<1>8. \A k \in 1..(n - i + 1), j \in 1..n : j = i + k - 1 => p[k] = stack[j].node
  BY <1>2, <1>6
<1> HIDE DEF n
<1>9. ASSUME NEW k \in 1..(n - i + 1) PROVE p[k + 1] \in deps[p[k]]
  <2>1. PICK j \in 1..n : j = i + k - 1
    BY <1>1
  <2>2. p[k] = stack[j].node
    BY <1>8, <2>1
  <2>3. CASE j = n
    <3>1. p[k + 1] = d
      <4>1. k + 1 = n - i + 2
        BY <1>1, <2>1, <2>3
      <4>2. QED
        BY <1>6, <4>1
    <3>2. d \in deps[stack[n].node]
      BY <1>1 DEF PathInv, n
    <3>3. QED
      BY <2>2, <2>3, <3>1, <3>2
  <2>4. CASE j # n
    <3>1. k + 1 \in 1..(n - i + 1) /\ j + 1 \in 1..n /\ j + 1 = i + (k + 1) - 1 /\ j \in 1..(n - 1)
      BY <1>1, <2>1, <2>4
    <3>2. p[k + 1] = stack[j + 1].node
      BY <1>8, <3>1
    <3>3. stack[j + 1].node \in deps[stack[j].node]
      BY <3>1 DEF PathInv, n
    <3>4. QED
      BY <2>2, <3>2, <3>3
  <2>5. QED
    BY <2>3, <2>4
<1>10. Len(p) - 1 = n - i + 1
  BY <1>1, <1>6
<1>11. QED
  BY <1>7, <1>9, <1>10

\* Every cycle validate_dag reports is a cycle of the graph.
THEOREM CyclesReal == Spec => []CyclesAreReal
<1>1. Init => CyclesAreReal
  BY DEF Init, CyclesAreReal
<1>2. TypeOK /\ SearchInv /\ PathInv /\ CyclesAreReal /\ [Next]_vars => CyclesAreReal'
  <2> SUFFICES ASSUME TypeOK, SearchInv, PathInv, CyclesAreReal, [Next]_vars
               PROVE  CyclesAreReal'
    OBVIOUS
  <2>1. ASSUME NEW d \in Bricks, Report(d) PROVE CyclesAreReal'
    <3>1. deps' = deps /\ \E p \in PathFrom(d) : cycles' = cycles \cup {p}
      BY <2>1 DEF Report
    <3>2. QED
      BY <2>1, <3>1, ReportedIsReal DEF CyclesAreReal, SearchInv
  <2>2. CASE UNCHANGED <<deps, cycles>>
    BY <2>2 DEF CyclesAreReal
  <2>3. QED
    BY <2>1, <2>2 DEF Next, Root, SkipMissing, Descend, SkipBlack, Return, vars
<1>3. QED
  BY <1>1, <1>2, TypeCorrect, SearchHolds, PathHolds, PTL DEF Spec

\* validate_dag accepts every graph with neither an unknown dependency nor a
\* cycle.
THEOREM HealthyAccepted == Spec => []HealthyIsAccepted
<1>1. TypeOK /\ SearchInv /\ CyclesAreReal => HealthyIsAccepted
  <2> SUFFICES ASSUME TypeOK, SearchInv, CyclesAreReal, Finished, Healthy PROVE Accepted
    BY DEF HealthyIsAccepted
  <2>1. unknown = {}
    BY NamesAssumption DEF Healthy, ClosedUnder, SearchInv, Unknown
  <2>2. ASSUME NEW p \in cycles PROVE FALSE
    <3> DEFINE S == {p[k] : k \in 1..Len(p)}
    <3>1. p \in Seq(Bricks) /\ Len(p) \in Nat /\ DOMAIN deps = Bricks
      BY <2>2 DEF TypeOK
    <3>2. \A k \in 1..Len(p) : p[k] \in Bricks
      BY <3>1, ElementOfSeq
    <3>3. S \in SUBSET Bricks /\ S # {}
      BY <2>2, <3>1, <3>2 DEF CyclesAreReal
    <3>4. \A k \in 1..(Len(p) - 1) : deps[p[k]] \cap S # {}
      <4>1. \A k \in 1..(Len(p) - 1) : k + 1 \in 1..Len(p) /\ p[k + 1] \in deps[p[k]]
        BY <2>2, <3>1 DEF CyclesAreReal
      <4>2. QED
        BY <4>1
    <3>5. 1 \in 1..(Len(p) - 1) /\ p[Len(p)] = p[1]
      BY <2>2, <3>1 DEF CyclesAreReal
    <3>6. \A k \in 1..Len(p) : k \in 1..(Len(p) - 1) \/ k = Len(p)
      BY <3>1
    <3>7. \A m \in S : deps[m] \cap S # {}
      BY <3>4, <3>5, <3>6
    <3>8. QED
      BY <3>1, <3>3, <3>7 DEF Healthy, Cyclic
  <2>3. QED
    BY <2>1, <2>2 DEF Accepted
<1>2. QED
  BY <1>1, TypeCorrect, SearchHolds, CyclesReal, PTL

-----------------------------------------------------------------------------
\* The composition behaves, of the check, as module DagCheck does.
LEMMA CheckAlone == MCSpec => Spec
<1>1. MCInit => Init
  BY DEF MCInit, CheckRests
<1>2. [MCNext]_<<part, vars, selection, life>> => [Next]_vars
  BY DEF MCNext
<1>3. QED
  BY <1>1, <1>2, PTL DEF MCSpec, Spec

\* What it accepts is healthy, what is healthy it accepts, and a cycle it reports is one.
THEOREM CheckRight == MCSpec => [](AcceptedIsHealthy /\ HealthyIsAccepted /\ CyclesAreReal)
  BY CheckAlone, AcceptedHealthy, HealthyAccepted, CyclesReal, PTL

\* The composition behaves, of the selection, as module Pick does.
LEMMA SelectionAlone == MCSpec => Picking!Spec
<1>1. MCInit => Picking!Init
  BY DEF MCInit, SelectionRests
<1>2. [MCNext]_<<part, vars, selection, life>> => [Picking!Next]_(Picking!vars)
  BY DEF MCNext, selection, Picking!vars, Picking!inputVars
<1>3. QED
  BY <1>1, <1>2, PTL DEF MCSpec, Picking!Spec

\* It behaves, of the profile, as module Profiles does.
LEMMA LifeAlone == MCSpec => Life!Spec
<1>1. MCInit => Life!Init
  BY DEF MCInit, LifeRests
<1>2. [MCNext]_<<part, vars, selection, life>> => [Life!Next]_(Life!vars)
  BY DEF MCNext, life, Life!vars, Life!graphVars, Life!catalogueVars
<1>3. QED
  BY <1>1, <1>2, PTL DEF MCSpec, Life!Spec

\* On every graph, request and catalogue, no selected brick depends on one that is not.
THEOREM SelectionClosed == MCSpec => []SelectionIsClosed
  BY SelectionAlone, Picking!SelectionClosed, PTL DEF SelectionIsClosed

\* On every graph the selection is the least closed set of what was asked for, with
\* exactly the companions it allows.
THEOREM SelectionLeast == MCSpec => []SelectionIsLeast
  BY SelectionAlone, Picking!SelectionLeast, PTL DEF SelectionIsLeast

\* Every turn of a loop of pick() leaves less to do: pick() ends on every graph.
THEOREM TurnsCount == MCSpec => EveryTurnCounts
  BY SelectionAlone, Picking!TurnsCount, PTL DEF EveryTurnCounts

-----------------------------------------------------------------------------
\* The least closed set is closed, and holds what it was asked to hold.
LEMMA LeastClosedIsClosed ==
  ASSUME NEW D, NEW S \in SUBSET DOMAIN D, \A n \in DOMAIN D : D[n] \subseteq DOMAIN D
  PROVE  /\ S \subseteq Life!LeastClosed(D, S)
         /\ Life!LeastClosed(D, S) \subseteq DOMAIN D
         /\ Life!ClosedUnder(D, Life!LeastClosed(D, S))
<1>1. S \subseteq Life!LeastClosed(D, S) /\ Life!LeastClosed(D, S) \subseteq DOMAIN D
  BY DEF Life!LeastClosed
<1>2. ASSUME NEW n \in Life!LeastClosed(D, S), NEW d \in D[n] PROVE d \in Life!LeastClosed(D, S)
  <2>1. n \in DOMAIN D /\ d \in DOMAIN D
    BY <1>2 DEF Life!LeastClosed
  <2>2. ASSUME NEW T \in SUBSET DOMAIN D, S \subseteq T, Life!ClosedUnder(D, T) PROVE d \in T
    BY <1>2, <2>2 DEF Life!LeastClosed, Life!ClosedUnder
  <2>3. QED
    BY <2>1, <2>2 DEF Life!LeastClosed
<1>3. QED
  BY <1>1, <1>2 DEF Life!ClosedUnder

\* Companions keep a closed set closed: the bricks of the least settled set
\* whose dependencies are in it are a settled set already.
LEMMA CompanionsKeepClosed ==
  ASSUME NEW D, NEW companion, NEW S \in SUBSET DOMAIN D,
         companion \subseteq DOMAIN D, Life!ClosedUnder(D, S)
  PROVE  /\ S \subseteq Life!LeastSettled(D, companion, S)
         /\ Life!LeastSettled(D, companion, S) \subseteq DOMAIN D
         /\ Life!ClosedUnder(D, Life!LeastSettled(D, companion, S))
<1> DEFINE L == Life!LeastSettled(D, companion, S)
           K == {n \in L : D[n] \subseteq L}
<1>1. S \subseteq L /\ L \subseteq DOMAIN D
  BY DEF Life!LeastSettled
<1>2. Life!SettledUnder(D, companion, L)
  BY DEF Life!LeastSettled, Life!SettledUnder
<1>3. S \subseteq K
  BY <1>1 DEF Life!ClosedUnder
<1>4. Life!SettledUnder(D, companion, K)
  BY <1>2 DEF Life!SettledUnder
<1>5. L \subseteq K
  BY <1>1, <1>3, <1>4 DEF Life!LeastSettled
<1>6. QED
  BY <1>1, <1>5 DEF Life!ClosedUnder

\* Dependencies stay known: every edit is validated.
GraphInv ==
  /\ needs \in [Bricks -> SUBSET Bricks] /\ bricks \subseteq Bricks
  /\ Life!ClosedUnder(needs, bricks)
  /\ baseline \subseteq bricks /\ companions \subseteq bricks

THEOREM GraphHolds == Life!Spec => []GraphInv
<1>1. Life!Init => GraphInv
  BY DEF Life!Init, GraphInv, Life!Valid
<1>2. GraphInv /\ [Life!Next]_(Life!vars) => GraphInv'
  <2> SUFFICES ASSUME GraphInv, [Life!Next]_(Life!vars) PROVE GraphInv'
    OBVIOUS
  <2> USE DEF GraphInv, Life!graphVars, Life!catalogueVars, Life!Edited, Life!ClosedUnder
  <2>1. ASSUME NEW n \in Bricks, Life!AddBrick(n) PROVE GraphInv'
    BY <2>1 DEF Life!AddBrick
  <2>2. ASSUME NEW n \in Bricks, Life!RemoveBrick(n) PROVE GraphInv'
    BY <2>2 DEF Life!RemoveBrick, Life!Valid
  <2>3. ASSUME NEW n \in Bricks, Life!EditDeps(n) PROVE GraphInv'
    BY <2>3 DEF Life!EditDeps, Life!Valid
  <2>4. CASE Life!EditCatalogue
    BY <2>4 DEF Life!EditCatalogue
  <2>5. CASE Life!Generate
    BY <2>5 DEF Life!Generate
  <2>6. CASE UNCHANGED Life!vars
    BY <2>6 DEF Life!vars
  <2>7. QED
    BY <2>1, <2>2, <2>3, <2>4, <2>5, <2>6 DEF Life!Next
<1>3. QED
  BY <1>1, <1>2, PTL DEF Life!Spec

\* A profile --check lets through is dependency-closed, whatever was edited before.
THEOREM CheckedDeployable == MCSpec => []CheckedIsDeployable
<1>1. GraphInv => Life!CheckedIsDeployable
  <2> SUFFICES ASSUME GraphInv, Life!CheckPasses
               PROVE  /\ Life!ClosedUnder(needs, Life!Deployed)
                      /\ profile.requested \cup baseline \subseteq Life!Deployed
    BY DEF Life!CheckedIsDeployable
  <2> DEFINE A == profile.requested \cup baseline
             C == Life!LeastClosed(Life!Graph, A)
             L == Life!LeastSettled(Life!Graph, companions, C)
  <2>1. /\ DOMAIN Life!Graph = bricks /\ A \subseteq bricks /\ companions \subseteq bricks
        /\ \A n \in bricks : Life!Graph[n] = needs[n] /\ needs[n] \subseteq bricks
    <3>1. A \subseteq bricks /\ companions \subseteq bricks
      BY DEF GraphInv, Life!CheckPasses
    <3>2. DOMAIN Life!Graph = bricks /\ \A n \in bricks : Life!Graph[n] = needs[n]
      BY DEF Life!Graph
    <3>3. \A n \in bricks : needs[n] \subseteq bricks
      BY DEF GraphInv, Life!ClosedUnder
    <3>4. QED
      BY <3>1, <3>2, <3>3
  <2>2. A \subseteq C /\ C \subseteq bricks /\ Life!ClosedUnder(Life!Graph, C)
    BY <2>1, LeastClosedIsClosed
  <2>3. C \subseteq L /\ Life!ClosedUnder(Life!Graph, L) /\ L \subseteq bricks
    <3>1. C \in SUBSET DOMAIN Life!Graph /\ companions \subseteq DOMAIN Life!Graph
      BY <2>1, <2>2
    <3> HIDE DEF A, C
    <3>2. C \subseteq L /\ L \subseteq DOMAIN Life!Graph /\ Life!ClosedUnder(Life!Graph, L)
      BY ONLY <2>2, <3>1, CompanionsKeepClosed, SMTT(30)
    <3>3. QED
      BY <2>1, <3>2
  <2>4. Life!Deployed = L
    BY <2>3 DEF Life!Deployed, Life!CheckPasses, Life!Picked
  <2>5. QED
    BY <2>1, <2>2, <2>3, <2>4 DEF Life!ClosedUnder
<1>2. QED
  BY <1>1, LifeAlone, GraphHolds, PTL DEF CheckedIsDeployable

\* A profile nothing was edited after is what pick() selects, with the options it was generated with.
PickedInv ==
  /\ picked \in Options
  /\ fresh => /\ profile.requested \subseteq bricks
              /\ profile.excluded = bricks \ Life!Picked(profile.requested, picked)

LEMMA FreshIsPicked == Life!Spec => []PickedInv
<1>1. Life!Init => PickedInv
  BY DEF Life!Init, PickedInv
<1>2. PickedInv /\ [Life!Next]_(Life!vars) => PickedInv'
  <2> SUFFICES ASSUME PickedInv, [Life!Next]_(Life!vars) PROVE PickedInv'
    OBVIOUS
  <2>1. CASE Life!Edited
    BY <2>1 DEF PickedInv, Life!Edited
  <2>2. CASE Life!Generate
    <3>1. PICK requests \in (SUBSET bricks) \ {{}} :
            profile' = [requested |-> requests, excluded |-> bricks \ Life!Picked(requests, picked')]
      BY <2>2 DEF Life!Generate
    <3>2. Life!Graph' = Life!Graph /\ UNCHANGED <<bricks, baseline, companions>> /\ picked' \in Options
      BY <2>2 DEF Life!Generate, Life!Graph, Life!graphVars, Life!catalogueVars
    <3>3. Life!Picked(requests, picked)' = Life!Picked(requests, picked')
      BY <3>2 DEF Life!Picked
    <3>4. profile'.requested = requests /\ profile'.excluded = bricks \ Life!Picked(requests, picked')
      BY <3>1
    <3>5. QED
      BY <3>2, <3>4 DEF PickedInv, Life!Picked
  <2>3. CASE UNCHANGED Life!vars
    <3>1. UNCHANGED <<bricks, needs, baseline, companions, profile, picked, fresh>>
      BY <2>3 DEF Life!vars, Life!graphVars, Life!catalogueVars
    <3>2. Life!Graph' = Life!Graph
      BY <3>1 DEF Life!Graph
    <3>3. QED
      BY <3>1, <3>2 DEF PickedInv, Life!Picked
  <2>4. QED
    BY <2>1, <2>2, <2>3 DEF Life!Next, Life!AddBrick, Life!RemoveBrick, Life!EditDeps, Life!EditCatalogue
<1>3. QED
  BY <1>1, <1>2, PTL DEF Life!Spec

\* While profiles are generated with the default options, one nothing was edited
\* after passes --check, which replays the pick with those.
THEOREM FreshUpToDate ==
  ASSUME Options = DefaultOptions
  PROVE  MCSpec => []FreshIsUpToDate
<1>1. PickedInv => FreshIsUpToDate
  BY DEF PickedInv, DefaultOptions, FreshIsUpToDate, Life!FreshIsUpToDate, Life!CheckPasses
<1>2. QED
  BY <1>1, LifeAlone, FreshIsPicked, PTL
=============================================================================
