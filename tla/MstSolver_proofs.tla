--------------------------- MODULE MstSolver_proofs ---------------------------
(***************************************************************************)
(* Proofs about MstSolver, for any number of vertices, any graphs and any  *)
(* colors of an earlier call.                                              *)
(*                                                                         *)
(* The invariant has a part for each kernel of a round.                    *)
(*   - Settled: between the rounds a vertex has the least vertex of its    *)
(*     tree for a color and a supervertex.                                 *)
(*   - Picking: the race for the edges does not matter. Whether a vertex   *)
(*     keeps its edge (Kept) is settled when the kernel starts: the lower  *)
(*     color keeps its edge, so the higher one sees it, early or late.     *)
(*   - Propagating: ends of chosen edges have one supervertex or offer     *)
(*     their colors to each other; when none changes, a tree has one color.*)
(*   - Finishing: the least vertex of a tree keeps itself as supervertex,  *)
(*     so every thread finds it in one step, in the old array or the new.  *)
(* On top of this, whatever the noise: an edge that is chosen has no lighter *)
(* edges (Under, by altered weight) that join its ends, so the chosen edges  *)
(* are a forest of which every edge leaves one tree less (ForestCount); the  *)
(* host counts them, so it never finds too many, and each round but the last *)
(* adds one, so V rounds are enough (Counted). As noise that is smaller than *)
(* the gaps keeps the order of the weights, the forest is a minimum one.     *)
(***************************************************************************)
EXTENDS MstSolver, FiniteSetTheorems, WellFoundedInduction, TLAPS

Tree(x) == Component(x, Chosen)

(* Colors never leave the tree of their vertex. *)
Sound ==
  \A x \in Vertices : /\ color_index[x] \in Tree(x)
                      /\ color[x] \in Tree(x)
                      /\ next_color[x] \in Tree(x)

Settled ==
  phase \notin {"propagate", "final"} =>
    \A x \in Vertices : /\ color_index[x] = Smallest(Tree(x))
                        /\ Color(x) = color_index[x]

(* Whether a vertex keeps the edge it has picked does not depend on the race.*)
Light(x) == min_edge_color[Color(x)] = altered[<<x, old[x]>>]
Left(x) == /\ ~symmetrize /\ old[old[x]] = x
           /\ Light(old[x]) /\ Color(x) > Color(old[x])
Kept(x) == old[x] # None /\ Light(x) /\ ~Left(x)

Picking ==
  phase \in {"pick", "check"} =>
    /\ \A x \in Vertices : old[x] # None =>
         /\ old[x] \in Vertices
         /\ <<x, old[x]>> \in DOMAIN weights
         /\ Color(x) # Color(old[x])
    /\ \A x \in Vertices : pc[x] = "run" => old[x] # None
    /\ \A x \in Vertices :
         new_mst_edge[x] = IF pc[x] = "end" /\ ~Kept(x) THEN None ELSE old[x]
    /\ \A x \in Vertices :
         temp[<<1, x>>] = IF pc[x] = "end" /\ Kept(x) THEN <<x, old[x]>> ELSE None
    /\ \A x \in Vertices :
         temp[<<2, x>>] = IF phase = "check" /\ Unreturned(x)
                            THEN <<new_mst_edge[x], x>> ELSE None
    /\ phase = "check" => \A x \in Vertices : pc[x] = "end"

(* While colors spread, an edge whose ends have different supervertices is   *)
(* one that was picked in this round.                                        *)
Propagating ==
  phase = "propagate" =>
    /\ \A x \in Vertices : /\ color_index[color_index[x]] = color_index[x]
                           /\ color_index[given[x]] = color_index[x]
    /\ \A e \in Chosen : \/ color_index[e[1]] = color_index[e[2]]
                         \/ new_mst_edge[e[1]] = e[2]
                         \/ new_mst_edge[e[2]] = e[1]
    /\ \A x \in Vertices : new_mst_edge[x] # None => <<x, new_mst_edge[x]>> \in Chosen

(* Then the color of a vertex's supervertex is the smallest of its tree, and *)
(* that one is found in one step.                                            *)
Finishing ==
  phase = "final" =>
    \A x \in Vertices :
      /\ old[x] \in Tree(x) /\ old[x] <= x
      /\ color[old[x]] = Smallest(Tree(x))
      /\ walk[x] \in {old[x], Smallest(Tree(x))}
      /\ color_index[x] = IF pc[x] = "end" THEN Smallest(Tree(x)) ELSE old[x]

Inputs == weights \in Graphs /\ given \in Colorings

IInv == /\ Inputs /\ TypeOK /\ Sound /\ Settled /\ Picking /\ Propagating
        /\ Finishing /\ EdgesOnce

-----------------------------------------------------------------------------
(* Smallest elements. *)

(* Every set of natural numbers has a least one. *)
LEMMA NatLeast ==
  ASSUME NEW S \in SUBSET Nat, S # {}
  PROVE  \E x \in S : \A y \in S : x <= y
<1>. DEFINE Less == {p \in Nat \X Nat : p[1] < p[2]}
<1>1. IsWellFoundedOn(Less, Nat)
  BY NatLessThanWellFounded DEF OpToRel
<1>2. PICK x \in S : \A y \in S : ~(<<y, x>> \in Less)
  BY <1>1, WFMin, Zenon
<1>3. \A y \in S : ~(y < x)
  BY <1>2
<1>. QED BY <1>3

LEMMA SmallestIs ==
  ASSUME NEW S \in SUBSET Int, NEW x \in S, \A y \in S : x <= y
  PROVE  Smallest(S) = x
<1>1. ASSUME NEW z \in S, \A y \in S : z <= y PROVE z = x
  <2>1. z <= x /\ x <= z /\ z \in Int /\ x \in Int
    BY <1>1
  <2>. QED BY <2>1
<1>. QED BY <1>1 DEF Smallest

LEMMA SmallestOf ==
  ASSUME NEW S \in SUBSET Nat, S # {}
  PROVE  Smallest(S) \in S /\ \A y \in S : Smallest(S) <= y
BY NatLeast DEF Smallest

LEMMA VertexFacts ==
  /\ Vertices \subseteq Nat /\ Vertices \subseteq Int
  /\ None \notin Vertices
  /\ IsFiniteSet({1, 2} \X Vertices)
<1>1. Vertices \subseteq Nat /\ Vertices \subseteq Int
  BY VAssumption DEF Vertices
<1>2. None \notin Vertices
  BY <1>1, NoneAssumption
<1>3. IsFiniteSet(Vertices)
  <2>1. 0 \in Int /\ V - 1 \in Int
    BY VAssumption
  <2>. QED BY <2>1, FS_Interval DEF Vertices
<1>4. IsFiniteSet({1, 2})
  <2>1. {1, 2} = {1} \cup {2}
    OBVIOUS
  <2>2. IsFiniteSet({1})
    BY FS_Singleton
  <2>3. IsFiniteSet({1} \cup {2})
    BY <2>2, FS_AddElement
  <2>. QED BY <2>1, <2>3
<1>. QED BY <1>1, <1>2, <1>3, <1>4, FS_Product

(* Some value of a function on vertices is the least. *)
LEMMA LeastValue ==
  ASSUME NEW S \in SUBSET Vertices, S # {}, NEW f, \A y \in S : f[y] \in Int
  PROVE  \E y \in S : \A z \in S : f[y] <= f[z]
<1>. DEFINE Below(k) == {y \in S : y <= k}
            Lacks(k) == Below(k) # {} /\ ~\E y \in Below(k) : \A z \in Below(k) : f[y] <= f[z]
            T == {k \in Nat : Lacks(k)}
<1>0. S \subseteq Nat
  BY VertexFacts
<1>1. SUFFICES ASSUME ~\E y \in S : \A z \in S : f[y] <= f[z] PROVE FALSE
  OBVIOUS
<1>2. Below(V) = S
  <2>1. \A y \in S : y <= V
    BY VAssumption DEF Vertices
  <2>. QED BY <2>1
<1>3. V \in T
  BY <1>1, <1>2, VAssumption
<1>4. PICK k \in T : \A j \in T : k <= j
  BY <1>3, NatLeast
<1>5. k \in Nat /\ Lacks(k)
  BY <1>4
<1>6. k \in S
  <2>1. SUFFICES ASSUME k \notin S PROVE FALSE
    OBVIOUS
  <2>2. k # 0
    <3>1. PICK y \in S : y <= k
      BY <1>5
    <3>. QED BY <3>1, <2>1, <1>5, <1>0
  <2>3. Below(k - 1) = Below(k)
    <3>1. \A y \in S : y <= k <=> y <= k - 1
      BY <2>1, <1>0, <1>5
    <3>. QED BY <3>1
  <2>4. k - 1 \in T
    BY <2>2, <2>3, <1>5
  <2>. QED BY <2>4, <1>4, <1>5
<1>7. PICK y \in Below(k) : \A z \in Below(k) : z # k => f[y] <= f[z]
  <2>1. CASE Below(k) = {k}
    BY <2>1
  <2>2. CASE Below(k) # {k}
    <3>1. PICK w \in Below(k) : w # k
      BY <2>2, <1>5
    <3>2. k # 0 /\ k - 1 \in Nat /\ w <= k - 1
      BY <3>1, <1>0, <1>5
    <3>3. Below(k - 1) # {} /\ k - 1 \notin T
      BY <3>1, <3>2, <1>4, <1>5
    <3>4. PICK y \in Below(k - 1) : \A z \in Below(k - 1) : f[y] <= f[z]
      BY <3>2, <3>3
    <3>5. \A z \in Below(k) : z # k => z \in Below(k - 1)
      BY <1>0, <1>5
    <3>6. y \in Below(k)
      BY <3>4, <1>0, <1>5
    <3>. QED BY <3>4, <3>5, <3>6
  <2>. QED BY <2>1, <2>2
<1>8. k \in Below(k) /\ f[k] \in Int /\ f[y] \in Int /\ \A z \in Below(k) : f[z] \in Int
  BY <1>5, <1>6
<1>9. CASE f[y] <= f[k]
  BY <1>5, <1>7, <1>9
<1>10. CASE f[k] <= f[y]
  <2>1. \A z \in Below(k) : f[k] <= f[z]
    BY <1>7, <1>8, <1>10
  <2>. QED BY <2>1, <1>5, <1>8
<1>. QED BY <1>8, <1>9, <1>10

-----------------------------------------------------------------------------
(* Trees: the classes of vertices that the given colors and a set of edges   *)
(* join.                                                                     *)

LEMMA ComponentBasics ==
  ASSUME NEW E, NEW x \in Vertices
  PROVE  /\ x \in Component(x, E)
         /\ Component(x, E) \subseteq Vertices
         /\ \A y \in Component(x, E) : \A z \in Component(y, E) : z \in Component(x, E)
BY DEF Component, Around

LEMMA InputFacts ==
  ASSUME Inputs
  PROVE  /\ given \in [Vertices -> Vertices]
         /\ \A x \in Vertices : given[x] <= x /\ given[given[x]] = given[x]
         /\ DOMAIN weights \subseteq Pairs
         /\ \A e \in DOMAIN weights : weights[e] \in Int /\ Reverse(e) \in DOMAIN weights
                                      /\ weights[Reverse(e)] = weights[e]
BY ColoringsAssumption, GraphsAssumption DEF Inputs

LEMMA SameComponent ==
  ASSUME Inputs, NEW E \in SUBSET Pairs, NEW x \in Vertices, NEW y \in Component(x, E)
  PROVE  Component(y, E) = Component(x, E)
<1>1. x \in Component(y, E)
  <2>. SUFFICES ASSUME NEW S \in Around(y, E), x \notin S PROVE FALSE
    BY DEF Component
  <2>. DEFINE R == Vertices \ S
  <2>1. \A e \in E : e[1] \in Vertices /\ e[2] \in Vertices
    BY DEF Pairs
  <2>2. Closed(R, E)
    BY <2>1, InputFacts DEF Around, Closed
  <2>3. R \in Around(x, E)
    BY <2>2 DEF Around
  <2>. QED BY <2>3 DEF Component, Around
<1>2. y \in Vertices
  BY DEF Component
<1>3. Component(y, E) \subseteq Component(x, E)
  BY ComponentBasics
<1>4. Component(x, E) \subseteq Component(y, E)
  BY <1>1, <1>2, ComponentBasics
<1>. QED BY <1>3, <1>4

LEMMA ComponentEdges ==
  ASSUME Inputs, NEW E \in SUBSET Pairs
  PROVE  /\ \A e \in E : e[1] \in Vertices /\ e[2] \in Vertices
                         /\ e[2] \in Component(e[1], E) /\ e[1] \in Component(e[2], E)
         /\ \A x \in Vertices : given[x] \in Component(x, E)
<1>1. \A e \in E : e[1] \in Vertices /\ e[2] \in Vertices
  BY DEF Pairs
<1>2. \A x \in Vertices : given[x] \in Vertices
  BY InputFacts
<1>. QED BY <1>1, <1>2 DEF Component, Around, Closed

LEMMA ComponentGrows ==
  ASSUME NEW E, NEW F, E \subseteq F, NEW x
  PROVE  Component(x, E) \subseteq Component(x, F)
BY DEF Component, Around, Closed

(* What agrees at the ends of edges, and with the given color, agrees on a   *)
(* component.                                                                *)
LEMMA ConstantOnComponent ==
  ASSUME Inputs, NEW E, NEW f,
         \A e \in E : e[1] \in Vertices /\ e[2] \in Vertices /\ f[e[1]] = f[e[2]],
         \A z \in Vertices : f[given[z]] = f[z],
         NEW x \in Vertices, NEW y \in Component(x, E)
  PROVE  f[y] = f[x]
<1>. DEFINE S == {z \in Vertices : f[z] = f[x]}
<1>1. Closed(S, E)
  BY InputFacts DEF Closed
<1>2. S \in Around(x, E)
  BY <1>1 DEF Around
<1>. QED BY <1>2 DEF Component

LEMMA TreeFacts ==
  ASSUME Inputs
  PROVE  /\ \A x \in Vertices : /\ x \in Tree(x)
                                /\ Tree(x) \subseteq Vertices
                                /\ given[x] \in Tree(x)
                                /\ Smallest(Tree(x)) \in Tree(x)
                                /\ \A y \in Tree(x) : Smallest(Tree(x)) <= y
                                /\ \A y \in Tree(x) : Tree(y) = Tree(x)
         /\ \A e \in Chosen : /\ e[1] \in Vertices /\ e[2] \in Vertices
                              /\ e[2] \in Tree(e[1]) /\ e[1] \in Tree(e[2])
<1>1. Chosen \in SUBSET Pairs
  BY DEF Chosen
<1>2. ASSUME NEW x \in Vertices
      PROVE  /\ x \in Tree(x)
             /\ Tree(x) \subseteq Vertices
             /\ given[x] \in Tree(x)
             /\ Smallest(Tree(x)) \in Tree(x)
             /\ \A y \in Tree(x) : Smallest(Tree(x)) <= y
             /\ \A y \in Tree(x) : Tree(y) = Tree(x)
  <2>1. x \in Tree(x) /\ Tree(x) \subseteq Vertices
    BY ComponentBasics DEF Tree
  <2>2. Smallest(Tree(x)) \in Tree(x) /\ \A y \in Tree(x) : Smallest(Tree(x)) <= y
    <3>1. Tree(x) \in SUBSET Nat /\ Tree(x) # {}
      BY <2>1, VertexFacts
    <3>. QED BY <3>1, SmallestOf
  <2>. QED BY <1>1, <2>1, <2>2, SameComponent, ComponentEdges DEF Tree
<1>. QED BY <1>1, <1>2, ComponentEdges DEF Tree

LEMMA TreeSmallest ==
  ASSUME Inputs, NEW x \in Vertices, NEW y \in Tree(x), \A z \in Tree(x) : y <= z
  PROVE  y = Smallest(Tree(x))
<1>1. Tree(x) \in SUBSET Int
  BY TreeFacts, VertexFacts
<1>. QED BY <1>1, SmallestIs

LEMMA TreeStable ==
  ASSUME UNCHANGED <<given, result>>
  PROVE  Chosen' = Chosen /\ \A x : Tree(x)' = Tree(x)
BY DEF Tree, Component, Around, Closed, Chosen

LEMMA TreeGrows ==
  ASSUME UNCHANGED given, Chosen \subseteq Chosen'
  PROVE  \A x : Tree(x) \subseteq Tree(x)'
<1>1. \A x : Tree(x)' = Component(x, Chosen')
  BY DEF Tree, Component, Around, Closed
<1>2. \A x : Tree(x) = Component(x, Chosen)
  BY DEF Tree
<1>. QED BY <1>1, <1>2, ComponentGrows

-----------------------------------------------------------------------------
LEMMA InitInvariant == Init => IInv
<1>. SUFFICES ASSUME Init PROVE IInv
  OBVIOUS
<1>0. /\ Inputs /\ given = color_index /\ color = color_index /\ walk = color_index
      /\ phase = "alteration" /\ Chosen = {}
  BY DEF Init, Inputs, Chosen
<1>1. TypeOK
  <2>1. altered \in [DOMAIN weights -> Int]
    BY GraphsAssumption DEF Init
  <2>2. color_index \in [Vertices -> Vertices] /\ \A x \in Vertices : color_index[x] <= x
    BY <1>0, InputFacts
  <2>3. next_color \in [Vertices -> Vertices] /\ \A x \in Vertices : next_color[x] <= x
    BY VertexFacts DEF Init
  <2>4. result \in [Pairs -> Nat] /\ temp \in [{1, 2} \X Vertices -> DOMAIN weights \cup {None}]
    BY DEF Init
  <2>. QED BY <1>0, <2>1, <2>2, <2>3, <2>4 DEF Init, TypeOK
<1>2. ASSUME NEW x \in Vertices
      PROVE  /\ given[x] \in Tree(x) /\ given[x] = Smallest(Tree(x))
             /\ given[given[x]] = given[x]
             /\ next_color[x] = x
  <2>1. \A y \in Tree(x) : given[y] = given[x]
    <3>1. \A z \in Vertices : given[given[z]] = given[z]
      BY <1>0, InputFacts
    <3>. QED BY <3>1, <1>0, ConstantOnComponent DEF Tree
  <2>2. \A y \in Tree(x) : given[x] <= y
    BY <2>1, <1>0, TreeFacts, InputFacts
  <2>3. given[x] \in Tree(x)
    BY <1>0, TreeFacts
  <2>. QED BY <1>0, <2>2, <2>3, TreeSmallest, InputFacts DEF Init
<1>3. Sound /\ Settled
  BY <1>0, <1>2, TreeFacts DEF Sound, Settled, Color
<1>4. Picking /\ Propagating /\ Finishing
  BY <1>0 DEF Picking, Propagating, Finishing
<1>5. EdgesOnce
  <2>1. \A e \in Pairs : Reverse(e) \in Pairs
    BY DEF Pairs, Reverse
  <2>. QED BY <2>1 DEF Init, EdgesOnce
<1>. QED BY <1>0, <1>1, <1>3, <1>4, <1>5 DEF IInv

-----------------------------------------------------------------------------
(* The actions. *)

LEMMA AlterationKeeps ==
  ASSUME IInv, Alteration PROVE IInv'
<1>1. /\ phase = "alteration" /\ phase' = "min_edge"
      /\ UNCHANGED <<weights, symmetrize, iterations, given, color_index, color, next_color,
                     min_edge_color, new_mst_edge, mst_edge, temp, result, count, prev, i,
                     pc, walk, old>>
  BY DEF Alteration, input, colors, output
<1>2. altered' \in [DOMAIN weights -> Int]
  <2>1. PICK r \in Pools : altered' = Noisy(weights, r)
    BY DEF Alteration
  <2>2. HalfGap(weights) \in Int
    <3>1. Gaps(weights) \subseteq Nat
      <4>1. ASSUME NEW p \in Adjacent({weights[e] : e \in DOMAIN weights})
            PROVE  Magnitude(Magnitude(p[2]) - Magnitude(p[1])) \in Nat
        <5>1. p[1] \in Int /\ p[2] \in Int
          BY <4>1, InputFacts DEF Adjacent, IInv
        <5>. QED BY <5>1 DEF Magnitude
      <4>. QED BY <4>1 DEF Gaps
    <3>2. CASE Gaps(weights) = {} \/ 0 \in Gaps(weights)
      BY <3>2 DEF HalfGap
    <3>3. CASE Gaps(weights) # {} /\ 0 \notin Gaps(weights)
      BY <3>1, <3>3, SmallestOf DEF HalfGap
    <3>. QED BY <3>2, <3>3
  <2>3. ASSUME NEW e \in DOMAIN weights
        PROVE  2 * Unit * weights[e] + HalfGap(weights) * (r[e[1]] + r[e[2]]) \in Int
    <3>1. e[1] \in Vertices /\ e[2] \in Vertices /\ weights[e] \in Int
      BY InputFacts DEF IInv, Pairs
    <3>2. r[e[1]] \in Int /\ r[e[2]] \in Int /\ Unit \in Int
      BY <3>1, PoolsAssumption
    <3>3. 2 * Unit * weights[e] \in Int
      BY <3>1, <3>2
    <3>4. HalfGap(weights) * (r[e[1]] + r[e[2]]) \in Int
      BY <2>2, <3>2
    <3>. QED BY <3>3, <3>4
  <2>. QED BY <2>1, <2>3 DEF Noisy
<1>3. \A x : Tree(x)' = Tree(x)
  BY <1>1, TreeStable
<1>4. Inputs' /\ TypeOK'
  BY <1>1, <1>2 DEF IInv, Inputs, TypeOK
<1>5. Sound' /\ Settled'
  BY <1>1, <1>3 DEF IInv, Sound, Settled, Color
<1>6. Picking' /\ Propagating' /\ Finishing' /\ EdgesOnce'
  BY <1>1 DEF IInv, Picking, Propagating, Finishing, EdgesOnce
<1>. QED BY <1>4, <1>5, <1>6 DEF IInv

LEMMA LightestFacts ==
  ASSUME IInv, NEW x \in Vertices
  PROVE  /\ Leaving(x) = {} => Lightest(x) = None
         /\ Leaving(x) # {} =>
              /\ Lightest(x) \in Leaving(x)
              /\ \A z \in Leaving(x) : altered[<<x, Lightest(x)>>] <= altered[<<x, z>>]
         /\ Leaving(x) \subseteq Vertices
<1>1. Leaving(x) \subseteq Vertices /\ \A y \in Leaving(x) : <<x, y>> \in DOMAIN weights
  BY DEF Leaving
<1>2. CASE Leaving(x) # {}
  <2>. DEFINE f == [y \in Leaving(x) |-> altered[<<x, y>>]]
  <2>1. \A y \in Leaving(x) : f[y] \in Int
    BY <1>1 DEF IInv, TypeOK
  <2>2. \E y \in Leaving(x) : \A z \in Leaving(x) : f[y] <= f[z]
    BY <1>1, <1>2, <2>1, LeastValue
  <2>3. \E y \in Leaving(x) : \A z \in Leaving(x) : altered[<<x, y>>] <= altered[<<x, z>>]
    BY <2>2
  <2>. QED BY <1>1, <1>2, <2>3 DEF Lightest
<1>. QED BY <1>1, <1>2 DEF Lightest

LEMMA MinEdgePerVertexKeeps ==
  ASSUME IInv, MinEdgePerVertex PROVE IInv'
<1>1. /\ phase = "min_edge" /\ phase' = "pick"
      /\ new_mst_edge' = [x \in Vertices |-> Lightest(x)]
      /\ old' = new_mst_edge'
      /\ temp' = [s \in {1, 2} \X Vertices |-> None]
      /\ pc' = [x \in Vertices |-> IF Lightest(x) = None THEN "end" ELSE "run"]
      /\ UNCHANGED <<weights, symmetrize, iterations, given, altered, color_index, color,
                     next_color, mst_edge, result, count, prev, i, walk>>
  BY DEF MinEdgePerVertex, input, colors, output
<1>2. ASSUME NEW x \in Vertices, Lightest(x) # None
      PROVE  /\ Lightest(x) \in Vertices /\ <<x, Lightest(x)>> \in DOMAIN weights
             /\ Color(x) # Color(Lightest(x))
  BY <1>2, LightestFacts DEF Leaving
<1>3. \A x : Tree(x)' = Tree(x) /\ Color(x)' = Color(x)
  BY <1>1, TreeStable DEF Color
<1>4. Inputs' /\ TypeOK'
  BY <1>1, <1>2 DEF IInv, Inputs, TypeOK
<1>5. Sound' /\ Settled'
  BY <1>1, <1>3 DEF IInv, Sound, Settled
<1>6. Picking'
  <2>1. \A x \in Vertices : pc'[x] = "end" => old'[x] = None
    BY <1>1
  <2>2. \A x \in Vertices : Kept(x)' => old'[x] # None
    BY DEF Kept
  <2>. QED BY <1>1, <1>2, <1>3, <2>1, <2>2 DEF Picking
<1>7. Propagating' /\ Finishing' /\ EdgesOnce'
  BY <1>1 DEF IInv, Propagating, Finishing, EdgesOnce
<1>. QED BY <1>4, <1>5, <1>6, <1>7 DEF IInv

(* Whatever a thread sees of its neighbour, it decides alike. *)
LEMMA PickDecides ==
  ASSUME IInv, phase = "pick", NEW x \in Vertices, pc[x] = "run",
         NEW back \in {old[new_mst_edge[x]], new_mst_edge[new_mst_edge[x]]}
  PROVE  /\ new_mst_edge[x] = old[x] /\ old[x] # None /\ old[x] \in Vertices
         /\ SuperLightest(x) /\ ~LeaveToOther(x, back) <=> Kept(x)
<1>1. /\ new_mst_edge[x] = old[x] /\ old[x] # None /\ old[x] \in Vertices
      /\ Color(x) # Color(old[x])
  BY DEF IInv, Picking
<1>. DEFINE y == old[x]
<1>2. Color(x) \in Int /\ Color(y) \in Int
  BY <1>1, VertexFacts DEF IInv, TypeOK, Color
<1>3. new_mst_edge[y] = IF pc[y] = "end" /\ ~Kept(y) THEN None ELSE old[y]
  BY <1>1 DEF IInv, Picking
<1>4. ASSUME old[y] = x, Light(y), Color(x) > Color(y) PROVE Kept(y)
  <2>1. ~(Color(y) > Color(x))
    BY <1>2, <1>4
  <2>2. old[y] # None
    BY <1>4, VertexFacts
  <2>. QED BY <2>1, <2>2, <1>4 DEF Kept, Left
<1>5. back = x => old[y] = x
  BY <1>1, <1>3, VertexFacts
<1>6. Left(x) => back = x
  BY <1>1, <1>3, <1>4 DEF Left
<1>7. SuperLightest(x) <=> Light(x)
  BY <1>1 DEF SuperLightest, Light
<1>8. old[y] = x => (LeaveToOther(x, back) <=> /\ ~symmetrize /\ back = x /\ Light(y)
                                               /\ Color(x) > Color(y))
  BY <1>1 DEF LeaveToOther, Light
<1>9. LeaveToOther(x, back) <=> Left(x)
  BY <1>1, <1>5, <1>6, <1>8 DEF LeaveToOther, Left
<1>. QED BY <1>1, <1>7, <1>9 DEF Kept

LEMMA PickKeeps ==
  ASSUME IInv, NEW x \in Vertices, Pick(x) PROVE IInv'
<1>1. /\ phase = "pick" /\ pc[x] = "run" /\ pc' = [pc EXCEPT ![x] = "end"]
      /\ UNCHANGED <<weights, symmetrize, iterations, given, altered, color_index, color,
                     next_color, min_edge_color, result, count, prev, i, phase, walk, old>>
  BY DEF Pick, input, colors, output
<1>2. /\ new_mst_edge[x] = old[x] /\ old[x] # None /\ old[x] \in Vertices
      /\ <<x, old[x]>> \in DOMAIN weights
  BY <1>1, PickDecides DEF IInv, Picking
<1>3. IF Kept(x)
        THEN /\ temp' = [temp EXCEPT ![<<1, x>>] = <<x, old[x]>>]
             /\ mst_edge' = mst_edge \cup {<<x, old[x]>>}
             /\ new_mst_edge' = new_mst_edge
        ELSE /\ new_mst_edge' = [new_mst_edge EXCEPT ![x] = None]
             /\ temp' = temp /\ mst_edge' = mst_edge
  <2>1. PICK back \in {old[new_mst_edge[x]], new_mst_edge[new_mst_edge[x]]} :
          IF SuperLightest(x) /\ ~LeaveToOther(x, back)
            THEN /\ temp' = [temp EXCEPT ![<<1, x>>] = <<x, new_mst_edge[x]>>]
                 /\ mst_edge' = mst_edge \cup {<<x, new_mst_edge[x]>>}
                 /\ new_mst_edge' = new_mst_edge
            ELSE /\ new_mst_edge' = [new_mst_edge EXCEPT ![x] = None]
                 /\ temp' = temp /\ mst_edge' = mst_edge
    BY DEF Pick
  <2>. QED BY <2>1, <1>1, PickDecides
<1>4. \A z : Tree(z)' = Tree(z) /\ Color(z)' = Color(z) /\ Kept(z)' = Kept(z)
  BY <1>1, TreeStable DEF Color, Kept, Light, Left
<1>5. Inputs' /\ TypeOK'
  <2>1. <<1, x>> \in {1, 2} \X Vertices
    OBVIOUS
  <2>. QED BY <1>1, <1>2, <1>3, <2>1 DEF IInv, Inputs, TypeOK
<1>6. Sound' /\ Settled'
  BY <1>1, <1>4 DEF IInv, Sound, Settled
<1>7. Picking'
  <2>1. \A z \in Vertices : old[z] # None =>
          old[z] \in Vertices /\ <<z, old[z]>> \in DOMAIN weights /\ Color(z) # Color(old[z])
    BY <1>1 DEF IInv, Picking
  <2>2. \A z \in Vertices : pc'[z] = "run" => old[z] # None
    BY <1>1 DEF IInv, Picking, TypeOK
  <2>3. ASSUME NEW z \in Vertices
        PROVE  new_mst_edge'[z] = IF pc'[z] = "end" /\ ~Kept(z) THEN None ELSE old[z]
    BY <1>1, <1>2, <1>3 DEF IInv, Picking, TypeOK
  <2>4. \A z \in Vertices : /\ <<1, z>> \in {1, 2} \X Vertices
                           /\ <<2, z>> \in {1, 2} \X Vertices
                           /\ <<2, z>> # <<1, x>>
                           /\ z # x => <<1, z>> # <<1, x>>
    OBVIOUS
  <2>5. temp \in [{1, 2} \X Vertices -> DOMAIN weights \cup {None}]
    BY DEF IInv, TypeOK
  <2>6. \A z \in Vertices : temp'[<<1, z>>] =
          IF z = x /\ Kept(x) THEN <<x, old[x]>> ELSE temp[<<1, z>>]
    BY <1>3, <2>4, <2>5
  <2>7. ASSUME NEW z \in Vertices
        PROVE  temp'[<<1, z>>] = IF pc'[z] = "end" /\ Kept(z) THEN <<z, old[z]>> ELSE None
    BY <1>1, <2>6 DEF IInv, Picking, TypeOK
  <2>8. ASSUME NEW z \in Vertices PROVE temp'[<<2, z>>] = None
    <3>1. temp'[<<2, z>>] = temp[<<2, z>>]
      BY <1>3, <2>4, <2>5
    <3>. QED BY <3>1, <1>1 DEF IInv, Picking
  <2>. QED BY <1>1, <1>4, <2>1, <2>2, <2>3, <2>7, <2>8 DEF Picking
<1>8. Propagating' /\ Finishing' /\ EdgesOnce'
  BY <1>1 DEF IInv, Propagating, Finishing, EdgesOnce
<1>. QED BY <1>5, <1>6, <1>7, <1>8 DEF IInv

LEMMA AddReverseKeeps ==
  ASSUME IInv, AddReverse PROVE IInv'
<1>1. /\ phase = "pick" /\ phase' = "check" /\ \A x \in Vertices : pc[x] = "end"
      /\ temp' = [s \in {1, 2} \X Vertices |->
                    IF s[1] = 2 /\ Unreturned(s[2]) THEN <<new_mst_edge[s[2]], s[2]>>
                    ELSE temp[s]]
      /\ UNCHANGED <<weights, symmetrize, iterations, given, altered, color_index, color,
                     next_color, min_edge_color, new_mst_edge, mst_edge, result, count,
                     prev, i, pc, walk, old>>
  BY DEF AddReverse, input, colors, output
<1>2. \A z : /\ Tree(z)' = Tree(z) /\ Color(z)' = Color(z) /\ Kept(z)' = Kept(z)
             /\ Unreturned(z)' = Unreturned(z)
  BY <1>1, TreeStable DEF Color, Kept, Light, Left, Unreturned
<1>3. ASSUME NEW x \in Vertices, Unreturned(x)
      PROVE  <<new_mst_edge[x], x>> \in DOMAIN weights
  <2>1. new_mst_edge[x] # None
    BY <1>3 DEF Unreturned
  <2>2. <<x, new_mst_edge[x]>> \in DOMAIN weights
    BY <1>1, <2>1 DEF IInv, Picking
  <2>3. Reverse(<<x, new_mst_edge[x]>>) \in DOMAIN weights
    BY <2>2, InputFacts DEF IInv
  <2>. QED BY <2>3 DEF Reverse
<1>4. Inputs' /\ TypeOK'
  BY <1>1, <1>3 DEF IInv, Inputs, TypeOK
<1>5. Sound' /\ Settled'
  BY <1>1, <1>2 DEF IInv, Sound, Settled
<1>6. Picking'
  <2>1. \A x \in Vertices : /\ <<1, x>> \in {1, 2} \X Vertices
                            /\ <<2, x>> \in {1, 2} \X Vertices
    OBVIOUS
  <2>2. ASSUME NEW x \in Vertices
        PROVE  /\ temp'[<<1, x>>] = temp[<<1, x>>]
               /\ temp'[<<2, x>>] = IF Unreturned(x) THEN <<new_mst_edge[x], x>> ELSE None
    BY <1>1, <2>1 DEF IInv, Picking
  <2>. QED BY <1>1, <1>2, <2>2 DEF IInv, Picking
<1>7. Propagating' /\ Finishing' /\ EdgesOnce'
  BY <1>1 DEF IInv, Propagating, Finishing, EdgesOnce
<1>. QED BY <1>4, <1>5, <1>6, <1>7 DEF IInv

-----------------------------------------------------------------------------
(* What a round finds. *)

Picked(a, b) == new_mst_edge[a] = b

LEMMA FoundFacts ==
  ASSUME IInv, phase = "check", NEW a \in Vertices, NEW b \in Vertices
  PROVE  Found(<<a, b>>) = IF Picked(a, b) \/ (symmetrize /\ Picked(b, a)) THEN 1 ELSE 0
<1>. DEFINE Slots == {1, 2} \X Vertices
            Hit == {s \in Slots : temp[s] = <<a, b>>}
<1>0. /\ <<a, b>> # None /\ a # None /\ b # None
  BY NoneAssumption, VertexFacts DEF Pairs
<1>1. \A s \in Slots : \E x \in Vertices : s = <<1, x>> \/ s = <<2, x>>
  OBVIOUS
<1>2. \A x \in Vertices : temp[<<1, x>>] = <<a, b>> <=> x = a /\ Picked(a, b)
  <2>1. \A x \in Vertices :
          temp[<<1, x>>] = IF new_mst_edge[x] = None THEN None ELSE <<x, new_mst_edge[x]>>
    BY DEF IInv, Picking, Kept
  <2>2. ASSUME NEW x \in Vertices PROVE temp[<<1, x>>] = <<a, b>> <=> x = a /\ new_mst_edge[a] = b
    <3>1. CASE new_mst_edge[x] = None
      BY <2>1, <3>1, <1>0
    <3>2. CASE new_mst_edge[x] # None
      <4>1. temp[<<1, x>>] = <<x, new_mst_edge[x]>>
        BY <2>1, <3>2
      <4>. QED BY <4>1
    <3>. QED BY <3>1, <3>2
  <2>. QED BY <2>2 DEF Picked
<1>3. \A x \in Vertices : temp[<<2, x>>] = <<a, b>>
                            <=> x = b /\ symmetrize /\ Picked(b, a) /\ ~Picked(a, b)
  <2>1. \A x \in Vertices :
          temp[<<2, x>>] = IF Unreturned(x) THEN <<new_mst_edge[x], x>> ELSE None
    BY DEF IInv, Picking
  <2>2. ASSUME NEW x \in Vertices
        PROVE  temp[<<2, x>>] = <<a, b>>
                 <=> x = b /\ symmetrize /\ new_mst_edge[b] = a /\ new_mst_edge[a] # b
    <3>1. CASE ~Unreturned(x)
      <4>1. temp[<<2, x>>] # <<a, b>>
        BY <2>1, <3>1, <1>0
      <4>. QED BY <3>1, <4>1, <1>0 DEF Unreturned
    <3>2. CASE Unreturned(x)
      <4>1. temp[<<2, x>>] = <<new_mst_edge[x], x>>
        BY <2>1, <3>2
      <4>. QED BY <3>2, <4>1 DEF Unreturned
    <3>. QED BY <3>1, <3>2
  <2>. QED BY <2>2 DEF Picked
<1>4. Found(<<a, b>>) = Cardinality(Hit)
  BY DEF Found
<1>5. CASE Picked(a, b)
  <2>1. Hit = {<<1, a>>}
    BY <1>1, <1>2, <1>3, <1>5
  <2>. QED BY <1>4, <1>5, <2>1, FS_Singleton
<1>6. CASE ~Picked(a, b) /\ symmetrize /\ Picked(b, a)
  <2>1. Hit = {<<2, b>>}
    BY <1>1, <1>2, <1>3, <1>6
  <2>. QED BY <1>4, <1>6, <2>1, FS_Singleton
<1>7. CASE ~Picked(a, b) /\ ~(symmetrize /\ Picked(b, a))
  <2>1. Hit = {}
    BY <1>1, <1>2, <1>3, <1>7
  <2>. QED BY <1>4, <1>7, <2>1, FS_EmptySet
<1>. QED BY <1>5, <1>6, <1>7

(* A picked edge joins two trees; of two ends one picks it, or both return.  *)
LEMMA PickedFacts ==
  ASSUME IInv, phase = "check", NEW a \in Vertices, NEW b \in Vertices, Picked(a, b)
  PROVE  /\ result[<<a, b>>] = 0 /\ result[<<b, a>>] = 0
         /\ ~symmetrize => ~Picked(b, a)
<1>1. b # None /\ a # None
  BY VertexFacts
<1>2. old[a] = b /\ Kept(a) /\ Color(a) # Color(b)
  BY <1>1 DEF IInv, Picking, Picked
<1>3. \A e \in Chosen : Color(e[1]) = Color(e[2])
  <2>1. ASSUME NEW e \in Chosen PROVE Tree(e[1]) = Tree(e[2])
    BY TreeFacts DEF IInv
  <2>. QED BY <2>1, TreeFacts DEF IInv, Settled
<1>4. <<a, b>> \notin Chosen /\ <<b, a>> \notin Chosen
  BY <1>2, <1>3
<1>5. <<a, b>> \in Pairs /\ <<b, a>> \in Pairs
  BY DEF Pairs
<1>6. result[<<a, b>>] = 0 /\ result[<<b, a>>] = 0
  BY <1>4, <1>5 DEF Chosen, IInv, TypeOK
<1>7. ASSUME ~symmetrize, Picked(b, a) PROVE FALSE
  <2>1. old[b] = a /\ Kept(b)
    BY <1>1, <1>7 DEF IInv, Picking, Picked
  <2>2. Color(a) \in Int /\ Color(b) \in Int
    BY VertexFacts DEF IInv, TypeOK, Color
  <2>3. Color(a) > Color(b) \/ Color(b) > Color(a)
    BY <2>2, <1>2
  <2>. QED BY <1>2, <1>7, <2>1, <2>3 DEF Kept, Left
<1>. QED BY <1>6, <1>7

LEMMA CheckTerminationKeeps ==
  ASSUME IInv, CheckTermination PROVE IInv'
<1>1. /\ phase = "check" /\ count' = count + AllFound
      /\ UNCHANGED <<weights, symmetrize, iterations, given, altered, color_index, color,
                     next_color, min_edge_color, new_mst_edge, mst_edge, temp, prev, i,
                     pc, walk, old>>
      /\ \/ phase' \in {"failed", "done"} /\ result' = result
         \/ phase' = "propagate" /\ result' = [e \in Pairs |-> result[e] + Found(e)]
  BY DEF CheckTermination, input, colors
<1>2. AllFound \in Nat
  <2>1. {s \in {1, 2} \X Vertices : temp[s] # None} \in SUBSET ({1, 2} \X Vertices)
    OBVIOUS
  <2>2. IsFiniteSet({s \in {1, 2} \X Vertices : temp[s] # None})
    BY <2>1, VertexFacts, FS_Subset
  <2>. QED BY <2>2, FS_CardinalityType DEF AllFound
<1>3. \A z : Color(z)' = Color(z)
  BY <1>1 DEF Color
<1>4. CASE phase' \in {"failed", "done"} /\ result' = result
  <2>1. \A z : Tree(z)' = Tree(z)
    BY <1>1, <1>4, TreeStable
  <2>2. Inputs' /\ TypeOK'
    BY <1>1, <1>2, <1>4 DEF IInv, Inputs, TypeOK
  <2>3. Sound' /\ Settled'
    BY <1>1, <1>3, <1>4, <2>1 DEF IInv, Sound, Settled
  <2>4. Picking' /\ Propagating' /\ Finishing' /\ EdgesOnce'
    BY <1>1, <1>4 DEF IInv, Picking, Propagating, Finishing, EdgesOnce
  <2>. QED BY <2>2, <2>3, <2>4 DEF IInv
<1>5. CASE phase' = "propagate" /\ result' = [e \in Pairs |-> result[e] + Found(e)]
  <2>1. \A e \in Pairs : /\ e[1] \in Vertices /\ e[2] \in Vertices /\ e = <<e[1], e[2]>>
                         /\ Reverse(e) = <<e[2], e[1]>> /\ Reverse(e) \in Pairs
    BY DEF Pairs, Reverse
  <2>2. \A e \in Pairs : Found(e) = IF Picked(e[1], e[2]) \/ (symmetrize /\ Picked(e[2], e[1]))
                                      THEN 1 ELSE 0
    BY <1>1, <2>1, FoundFacts
  <2>3. \A e \in Pairs : result[e] \in Nat /\ result'[e] = result[e] + Found(e)
    BY <1>5 DEF IInv, TypeOK
  <2>4. Inputs' /\ TypeOK'
    <3>1. result' \in [Pairs -> Nat]
      BY <1>5, <2>2, <2>3
    <3>. QED BY <1>1, <1>2, <1>5, <3>1 DEF IInv, Inputs, TypeOK
  <2>5. \A e \in Pairs : e \in Chosen' <=> e \in Chosen \/ Found(e) # 0
    BY <2>2, <2>3 DEF Chosen
  <2>6. Chosen \subseteq Chosen' /\ Chosen' \subseteq Pairs
    BY <2>5 DEF Chosen
  <2>7. \A z : Tree(z) \subseteq Tree(z)'
    BY <1>1, <2>6, TreeGrows
  <2>8. Sound'
    BY <1>1, <2>7 DEF IInv, Sound
  <2>9. Settled' /\ Picking' /\ Finishing'
    BY <1>5 DEF Settled, Picking, Finishing
  <2>10. Propagating'
    <3>1. ASSUME NEW x \in Vertices, NEW y \in Tree(x)
          PROVE  y \in Vertices /\ color_index[y] = color_index[x]
      <4>1. y \in Vertices /\ Tree(y) = Tree(x)
        BY <3>1, TreeFacts DEF IInv
      <4>. QED BY <4>1, <1>1 DEF IInv, Settled
    <3>2. \A x \in Vertices : /\ color_index[color_index[x]] = color_index[x]
                              /\ color_index[given[x]] = color_index[x]
      <4>1. \A x \in Vertices : color_index[x] \in Tree(x) /\ given[x] \in Tree(x)
        BY TreeFacts DEF IInv, Sound
      <4>. QED BY <3>1, <4>1
    <3>3. ASSUME NEW e \in Chosen'
          PROVE  \/ color_index[e[1]] = color_index[e[2]]
                 \/ new_mst_edge[e[1]] = e[2]
                 \/ new_mst_edge[e[2]] = e[1]
      <4>1. CASE e \in Chosen
        BY <3>1, <4>1, TreeFacts DEF IInv
      <4>2. CASE e \in Pairs /\ Found(e) # 0
        BY <2>2, <4>2 DEF Picked
      <4>. QED BY <2>5, <2>6, <4>1, <4>2
    <3>4. ASSUME NEW x \in Vertices, new_mst_edge[x] # None
          PROVE  <<x, new_mst_edge[x]>> \in Chosen'
      <4>1. new_mst_edge[x] \in Vertices /\ <<x, new_mst_edge[x]>> \in Pairs
        BY <3>4 DEF IInv, TypeOK, Pairs
      <4>2. Found(<<x, new_mst_edge[x]>>) # 0
        BY <4>1, <1>1, FoundFacts DEF Picked
      <4>. QED BY <4>1, <4>2, <2>5
    <3>. QED BY <1>1, <3>2, <3>3, <3>4 DEF Propagating
  <2>11. EdgesOnce'
    <3>1. ASSUME NEW e \in Pairs
          PROVE  IF symmetrize THEN result'[e] \in {0, 1} /\ result'[e] = result'[Reverse(e)]
                               ELSE result'[e] + result'[Reverse(e)] \in {0, 1}
      <4>. DEFINE a == e[1]
                  b == e[2]
      <4>1. /\ a \in Vertices /\ b \in Vertices /\ e = <<a, b>> /\ Reverse(e) = <<b, a>>
            /\ <<a, b>> \in Pairs /\ <<b, a>> \in Pairs
        BY <2>1
      <4>2. /\ result'[<<a, b>>] = result[<<a, b>>] + Found(<<a, b>>)
            /\ result'[<<b, a>>] = result[<<b, a>>] + Found(<<b, a>>)
            /\ result[<<a, b>>] \in Nat /\ result[<<b, a>>] \in Nat
        BY <2>3, <4>1
      <4>3. IF symmetrize THEN result[<<a, b>>] \in {0, 1} /\ result[<<a, b>>] = result[<<b, a>>]
                          ELSE result[<<a, b>>] + result[<<b, a>>] \in {0, 1}
        BY <4>1 DEF IInv, EdgesOnce
      <4>4. /\ Found(<<a, b>>) = IF Picked(a, b) \/ (symmetrize /\ Picked(b, a)) THEN 1 ELSE 0
            /\ Found(<<b, a>>) = IF Picked(b, a) \/ (symmetrize /\ Picked(a, b)) THEN 1 ELSE 0
        BY <1>1, <4>1, FoundFacts
      <4>5. CASE ~Picked(a, b) /\ ~Picked(b, a)
        BY <4>1, <4>2, <4>3, <4>4, <4>5
      <4>6. CASE Picked(a, b) \/ Picked(b, a)
        <5>1. /\ result[<<a, b>>] = 0 /\ result[<<b, a>>] = 0
              /\ ~symmetrize => ~(Picked(a, b) /\ Picked(b, a))
          BY <1>1, <4>1, <4>6, PickedFacts
        <5>. QED BY <4>1, <4>2, <4>4, <4>6, <5>1
      <4>. QED BY <4>5, <4>6
    <3>. QED BY <1>1, <3>1 DEF EdgesOnce, Reverse
  <2>. QED BY <2>4, <2>8, <2>9, <2>10, <2>11 DEF IInv
<1>. QED BY <1>1, <1>4, <1>5

-----------------------------------------------------------------------------
(* Colors spread. *)

LEMMA ColorInTree ==
  ASSUME IInv, NEW x \in Vertices
  PROVE  Color(x) \in Tree(x) /\ Tree(color_index[x]) = Tree(x) /\ color_index[x] \in Vertices
<1>1. color_index[x] \in Tree(x) /\ color_index[x] \in Vertices
  BY DEF IInv, Sound, TypeOK
<1>2. Tree(color_index[x]) = Tree(x)
  BY <1>1, TreeFacts DEF IInv
<1>. QED BY <1>1, <1>2 DEF IInv, Sound, Color

LEMMA OfferFacts ==
  ASSUME IInv, phase = "propagate", NEW s \in Vertices
  PROVE  /\ AtomicMin(s) \in Tree(s) /\ AtomicMin(s) \in Vertices
         /\ AtomicMin(s) <= s
         /\ \A c \in Offers(s) : AtomicMin(s) <= c
<1>. DEFINE S == {next_color[s]} \cup Offers(s)
<1>1. ASSUME NEW x \in Vertices, new_mst_edge[x] # None
      PROVE  /\ new_mst_edge[x] \in Vertices /\ Tree(new_mst_edge[x]) = Tree(x)
  <2>1. <<x, new_mst_edge[x]>> \in Chosen
    BY <1>1 DEF IInv, Propagating
  <2>2. new_mst_edge[x] \in Tree(x) /\ new_mst_edge[x] \in Vertices
    BY <2>1, TreeFacts DEF IInv
  <2>. QED BY <2>2, TreeFacts DEF IInv
<1>2. Offers(s) \subseteq Tree(s)
  <2>1. ASSUME NEW x \in Vertices, new_mst_edge[x] # None, color_index[x] = s
        PROVE  Color(new_mst_edge[x]) \in Tree(s)
    BY <1>1, <2>1, ColorInTree
  <2>2. ASSUME NEW x \in Vertices, new_mst_edge[x] # None, color_index[new_mst_edge[x]] = s
        PROVE  Color(x) \in Tree(s)
    BY <1>1, <2>2, ColorInTree
  <2>. QED BY <2>1, <2>2 DEF Offers
<1>3. next_color[s] \in Tree(s) /\ next_color[s] <= s /\ Tree(s) \subseteq Vertices
  BY TreeFacts DEF IInv, Sound, TypeOK
<1>4. S \in SUBSET Nat /\ S # {}
  BY <1>2, <1>3, VertexFacts
<1>5. AtomicMin(s) \in S /\ \A c \in S : AtomicMin(s) <= c
  BY <1>4, SmallestOf DEF AtomicMin
<1>6. AtomicMin(s) \in Tree(s) /\ AtomicMin(s) \in Vertices
  BY <1>2, <1>3, <1>5
<1>7. AtomicMin(s) <= s
  <2>1. AtomicMin(s) <= next_color[s] /\ next_color[s] \in Int /\ AtomicMin(s) \in Int /\ s \in Int
    BY <1>3, <1>5, <1>6, VertexFacts
  <2>. QED BY <2>1, <1>3
<1>. QED BY <1>5, <1>6, <1>7

(* When no color changes any more, a tree has one color, its least vertex.   *)
LEMMA FixpointColors ==
  ASSUME IInv, phase = "propagate",
         \A x \in Vertices : ~(color[x] > AtomicMin(color_index[x])),
         NEW x \in Vertices
  PROVE  Color(x) = Smallest(Tree(x))
<1>1. \A z \in Vertices : /\ color_index[z] \in Vertices /\ color_index[z] <= z
                          /\ color[z] \in Vertices /\ color[z] <= z
  BY DEF IInv, TypeOK
<1>2. \A z \in Vertices : Color(z) \in Int /\ z \in Int
  BY <1>1, VertexFacts DEF Color
<1>3. ASSUME NEW z \in Vertices, NEW c \in Offers(color_index[z]), c \in Int
      PROVE  Color(z) <= c
  <2>. DEFINE s == color_index[z]
  <2>1. s \in Vertices /\ color_index[s] = s
    BY <1>1 DEF IInv, Propagating
  <2>2. ~(color[s] > AtomicMin(s)) /\ AtomicMin(s) <= c /\ AtomicMin(s) \in Vertices
    BY <2>1, <1>3, OfferFacts
  <2>3. color[s] \in Int /\ AtomicMin(s) \in Int
    BY <2>1, <2>2, <1>1, VertexFacts
  <2>. QED BY <2>2, <2>3, <1>3 DEF Color
<1>4. ASSUME NEW z \in Vertices, NEW y \in Vertices, new_mst_edge[z] = y
      PROVE  Color(z) = Color(y)
  <2>1. new_mst_edge[z] # None
    BY <1>4, VertexFacts
  <2>2. Color(y) \in Offers(color_index[z]) /\ Color(z) \in Offers(color_index[y])
    BY <1>4, <2>1 DEF Offers
  <2>3. Color(z) <= Color(y) /\ Color(y) <= Color(z)
    BY <2>2, <1>2, <1>3
  <2>. QED BY <2>3, <1>2
<1>5. ASSUME NEW e \in Chosen
      PROVE  e[1] \in Vertices /\ e[2] \in Vertices /\ Color(e[1]) = Color(e[2])
  <2>1. e[1] \in Vertices /\ e[2] \in Vertices
    BY TreeFacts DEF IInv
  <2>2. CASE color_index[e[1]] = color_index[e[2]]
    BY <2>1, <2>2 DEF Color
  <2>3. CASE new_mst_edge[e[1]] = e[2] \/ new_mst_edge[e[2]] = e[1]
    BY <2>1, <2>3, <1>4
  <2>. QED BY <2>1, <2>2, <2>3 DEF IInv, Propagating
<1>6. \A z \in Vertices : given[z] \in Vertices /\ Color(given[z]) = Color(z)
  BY InputFacts DEF IInv, Propagating, Color
<1>7. \A y \in Tree(x) : Color(y) = Color(x)
  <2>. DEFINE f == [z \in Vertices |-> Color(z)]
  <2>1. \A e \in Chosen : e[1] \in Vertices /\ e[2] \in Vertices /\ f[e[1]] = f[e[2]]
    BY <1>5
  <2>2. \A z \in Vertices : f[given[z]] = f[z]
    BY <1>6
  <2>3. \A y \in Tree(x) : f[y] = f[x]
    <3>1. Inputs /\ Tree(x) = Component(x, Chosen)
      BY DEF IInv, Tree
    <3>. HIDE DEF f
    <3>. QED BY <2>1, <2>2, <3>1, ConstantOnComponent
  <2>4. Tree(x) \subseteq Vertices /\ x \in Vertices
    BY TreeFacts DEF IInv
  <2>. QED BY <2>3, <2>4
<1>8. ASSUME NEW y \in Tree(x) PROVE Color(x) <= y
  <2>1. y \in Vertices /\ Color(y) = Color(x)
    BY <1>7, TreeFacts DEF IInv
  <2>2. Color(y) <= color_index[y] /\ color_index[y] <= y
    BY <2>1, <1>1 DEF Color
  <2>3. color_index[y] \in Int
    BY <2>1, <1>1, VertexFacts
  <2>. QED BY <2>1, <2>2, <2>3, <1>2
<1>9. Color(x) \in Tree(x)
  BY ColorInTree
<1>. QED BY <1>8, <1>9, TreeSmallest DEF IInv

LEMMA PropagateKeeps ==
  ASSUME IInv, Propagate PROVE IInv'
<1>1. /\ phase = "propagate"
      /\ next_color' = [s \in Vertices |-> AtomicMin(s)]
      /\ color' = [x \in Vertices |->
                     IF color[x] > next_color'[color_index[x]]
                       THEN next_color'[color_index[x]] ELSE color[x]]
      /\ UNCHANGED <<weights, symmetrize, iterations, given, altered, color_index,
                     min_edge_color, new_mst_edge, mst_edge, temp, result, count, prev, i>>
      /\ IF \E x \in Vertices : color[x] > next_color'[color_index[x]]
           THEN UNCHANGED <<phase, pc, walk, old>>
           ELSE /\ phase' = "final"
                /\ pc' = [x \in Vertices |-> "run"]
                /\ walk' = color_index
                /\ old' = color_index
  BY DEF Propagate, Lower, input, output
<1>2. \A z : Tree(z)' = Tree(z)
  BY <1>1, TreeStable
<1>3. ASSUME NEW x \in Vertices
      PROVE  /\ next_color'[x] \in Tree(x) /\ next_color'[x] \in Vertices /\ next_color'[x] <= x
             /\ color'[x] \in Tree(x) /\ color'[x] \in Vertices /\ color'[x] <= x
             /\ next_color'[color_index[x]] = AtomicMin(color_index[x])
  <2>1. next_color'[x] \in Tree(x) /\ next_color'[x] \in Vertices /\ next_color'[x] <= x
    BY <1>1, OfferFacts
  <2>2. /\ next_color'[color_index[x]] = AtomicMin(color_index[x])
        /\ AtomicMin(color_index[x]) \in Tree(x)
        /\ AtomicMin(color_index[x]) \in Vertices
    BY <1>1, OfferFacts, ColorInTree
  <2>3. color[x] \in Tree(x) /\ color[x] \in Vertices /\ color[x] <= x
    BY DEF IInv, TypeOK, Sound
  <2>4. color'[x] \in Tree(x) /\ color'[x] \in Vertices
    BY <1>1, <2>2, <2>3
  <2>5. color'[x] <= x
    <3>1. AtomicMin(color_index[x]) \in Int /\ color[x] \in Int /\ x \in Int
      BY <2>2, <2>3, VertexFacts
    <3>. QED BY <1>1, <2>2, <2>3, <3>1
  <2>. QED BY <2>1, <2>2, <2>4, <2>5
<1>4. Inputs' /\ TypeOK'
  <2>1. color' \in [Vertices -> Vertices] /\ next_color' \in [Vertices -> Vertices]
    <3>1. /\ color' = [x \in Vertices |-> color'[x]]
          /\ next_color' = [x \in Vertices |-> next_color'[x]]
      BY <1>1
    <3>. QED BY <1>3, <3>1
  <2>2. /\ phase' \in {"propagate", "final"} /\ pc' \in [Vertices -> {"run", "end"}]
        /\ walk' \in [Vertices -> Vertices]
    BY <1>1 DEF IInv, TypeOK
  <2>3. Inputs'
    BY <1>1 DEF IInv, Inputs
  <2>4. {color_index, color, next_color, walk, given}' \subseteq [Vertices -> Vertices]
    BY <1>1, <2>1, <2>2 DEF IInv, TypeOK
  <2>5. \A x \in Vertices : color_index'[x] <= x /\ color'[x] <= x /\ next_color'[x] <= x
    <3>1. \A x \in Vertices : color_index'[x] <= x
      BY <1>1 DEF IInv, TypeOK
    <3>. QED BY <1>3, <3>1
  <2>6. /\ (altered \in [DOMAIN weights -> Int])'
        /\ (new_mst_edge \in [Vertices -> Vertices \cup {None}])'
        /\ (mst_edge \subseteq DOMAIN weights)'
        /\ (temp \in [{1, 2} \X Vertices -> DOMAIN weights \cup {None}])'
        /\ (result \in [Pairs -> Nat])' /\ ({count, prev, i} \subseteq Nat)'
        /\ (symmetrize \in BOOLEAN /\ iterations \in Limits)'
    BY <1>1 DEF IInv, TypeOK
  <2>. QED BY <2>2, <2>3, <2>4, <2>5, <2>6 DEF TypeOK
<1>5. Sound'
  BY <1>1, <1>2, <1>3 DEF IInv, Sound
<1>6. Settled' /\ Picking' /\ EdgesOnce'
  BY <1>1 DEF IInv, Settled, Picking, EdgesOnce
<1>7. Propagating'
  <2>1. phase' = "propagate" => UNCHANGED phase /\ Chosen' = Chosen
    BY <1>1, TreeStable
  <2>. QED BY <1>1, <2>1 DEF IInv, Propagating
<1>8. Finishing'
  <2>. SUFFICES ASSUME phase' = "final", NEW x \in Vertices
       PROVE  /\ color_index[x] \in Tree(x) /\ color_index[x] <= x
              /\ color'[color_index[x]] = Smallest(Tree(x))
    BY <1>1, <1>2 DEF Finishing
  <2>1. \A z \in Vertices : ~(color[z] > next_color'[color_index[z]])
    BY <1>1
  <2>2. \A z \in Vertices : ~(color[z] > AtomicMin(color_index[z]))
    BY <2>1, <1>3
  <2>3. Color(x) = Smallest(Tree(x))
    BY <1>1, <2>2, FixpointColors
  <2>4. color_index[x] \in Vertices /\ color_index[x] \in Tree(x) /\ color_index[x] <= x
    BY DEF IInv, TypeOK, Sound
  <2>5. color'[color_index[x]] = color[color_index[x]]
    BY <1>1, <2>1, <2>4
  <2>. QED BY <2>3, <2>4, <2>5 DEF Color
<1>. QED BY <1>4, <1>5, <1>6, <1>7, <1>8 DEF IInv

-----------------------------------------------------------------------------
(* Vertices find their supervertex. *)

LEMMA RootFacts ==
  ASSUME IInv, phase = "final", NEW x \in Vertices
  PROVE  LET m == Smallest(Tree(x)) IN
         /\ m \in Vertices /\ m \in Tree(x) /\ m <= x
         /\ old[m] = m /\ color[m] = m
         /\ color_index[m] = m
<1>. DEFINE m == Smallest(Tree(x))
<1>1. m \in Tree(x) /\ m \in Vertices /\ m <= x /\ Tree(m) = Tree(x)
  BY TreeFacts DEF IInv
<1>2. old[m] \in Tree(x) /\ old[m] <= m /\ m <= old[m]
  BY <1>1, TreeFacts DEF IInv, Finishing
<1>3. old[m] = m
  <2>1. old[m] \in Int /\ m \in Int
    BY <1>1, <1>2, TreeFacts, VertexFacts DEF IInv
  <2>. QED BY <1>2, <2>1
<1>4. color[m] = m /\ color_index[m] = m
  BY <1>1, <1>3 DEF IInv, Finishing
<1>. QED BY <1>1, <1>3, <1>4

LEMMA FinalStepKeeps ==
  ASSUME IInv, NEW x \in Vertices, FinalStep(x) PROVE IInv'
<1>. DEFINE m == Smallest(Tree(x))
            c == color[walk[x]]
<1>1. /\ phase = "final" /\ pc[x] = "run"
      /\ IF c # walk[x]
           THEN /\ \E w \in {old[c], color_index[c]} : walk' = [walk EXCEPT ![x] = w]
                /\ pc' = pc /\ color_index' = color_index
           ELSE /\ color_index' = [color_index EXCEPT ![x] = walk[x]]
                /\ pc' = [pc EXCEPT ![x] = "end"]
                /\ walk' = walk
      /\ UNCHANGED <<weights, symmetrize, iterations, given, altered, color, next_color,
                     min_edge_color, new_mst_edge, mst_edge, temp, result, count, prev, i,
                     phase, old>>
  BY DEF FinalStep, input, output
<1>2. \A z : Tree(z)' = Tree(z)
  BY <1>1, TreeStable
<1>3. /\ m \in Vertices /\ m \in Tree(x) /\ m <= x
      /\ old[m] = m /\ color[m] = m /\ color_index[m] = m
  BY <1>1, RootFacts
<1>4. c = m /\ walk[x] \in {old[x], m}
  BY <1>1, <1>3 DEF IInv, Finishing
<1>5. CASE c # walk[x]
  <2>1. walk' = [walk EXCEPT ![x] = m] /\ pc' = pc /\ color_index' = color_index
    BY <1>1, <1>3, <1>4, <1>5
  <2>2. Inputs' /\ TypeOK'
    BY <1>1, <1>3, <2>1 DEF IInv, Inputs, TypeOK
  <2>3. Sound'
    BY <1>1, <1>2, <2>1 DEF IInv, Sound
  <2>4. Settled' /\ Picking' /\ Propagating' /\ EdgesOnce'
    BY <1>1 DEF IInv, Settled, Picking, Propagating, EdgesOnce
  <2>5. Finishing'
    BY <1>1, <1>2, <2>1 DEF IInv, TypeOK, Finishing
  <2>. QED BY <2>2, <2>3, <2>4, <2>5 DEF IInv
<1>6. CASE c = walk[x]
  <2>1. /\ color_index' = [color_index EXCEPT ![x] = m]
        /\ pc' = [pc EXCEPT ![x] = "end"] /\ walk' = walk
    BY <1>1, <1>4, <1>6
  <2>2. Inputs' /\ TypeOK'
    BY <1>1, <1>3, <2>1 DEF IInv, Inputs, TypeOK
  <2>3. Sound'
    BY <1>1, <1>2, <1>3, <2>1 DEF IInv, TypeOK, Sound
  <2>4. Settled' /\ Picking' /\ Propagating' /\ EdgesOnce'
    BY <1>1 DEF IInv, Settled, Picking, Propagating, EdgesOnce
  <2>5. Finishing'
    BY <1>1, <1>2, <2>1 DEF IInv, TypeOK, Finishing
  <2>. QED BY <2>2, <2>3, <2>4, <2>5 DEF IInv
<1>. QED BY <1>5, <1>6

LEMMA EndRoundKeeps ==
  ASSUME IInv, EndRound PROVE IInv'
<1>1. /\ phase = "final" /\ \A x \in Vertices : pc[x] = "end"
      /\ prev' = count /\ i' = i + 1 /\ phase' \in {"min_edge", "done"}
      /\ UNCHANGED <<weights, symmetrize, iterations, given, altered, color_index, color,
                     next_color, min_edge_color, new_mst_edge, mst_edge, temp, result,
                     count, pc, walk, old>>
  BY DEF EndRound, input, colors
<1>2. \A z : Tree(z)' = Tree(z) /\ Color(z)' = Color(z)
  BY <1>1, TreeStable DEF Color
<1>3. Inputs' /\ TypeOK'
  BY <1>1 DEF IInv, Inputs, TypeOK
<1>4. Settled'
  <2>1. ASSUME NEW x \in Vertices
        PROVE  color_index[x] = Smallest(Tree(x)) /\ Color(x) = color_index[x]
    <3>1. color_index[x] = Smallest(Tree(x))
      BY <1>1 DEF IInv, Finishing
    <3>. QED BY <1>1, <3>1, RootFacts DEF Color
  <2>. QED BY <1>1, <1>2, <2>1 DEF Settled
<1>5. Sound' /\ Picking' /\ Propagating' /\ Finishing' /\ EdgesOnce'
  BY <1>1, <1>2 DEF IInv, Sound, Picking, Propagating, Finishing, EdgesOnce
<1>. QED BY <1>3, <1>4, <1>5 DEF IInv

LEMMA NextInvariant == IInv /\ [Next]_vars => IInv'
<1>. SUFFICES ASSUME IInv, [Next]_vars PROVE IInv'
  OBVIOUS
<1>1. CASE UNCHANGED vars
  <2>1. UNCHANGED <<weights, symmetrize, iterations, given, altered, color_index, color,
                    next_color, min_edge_color, new_mst_edge, mst_edge, temp, result,
                    count, prev, i, phase, pc, walk, old>>
    BY <1>1 DEF vars, input, colors, output
  <2>2. \A z : /\ Tree(z)' = Tree(z) /\ Color(z)' = Color(z) /\ Kept(z)' = Kept(z)
               /\ Unreturned(z)' = Unreturned(z)
    BY <2>1, TreeStable DEF Color, Kept, Light, Left, Unreturned
  <2>3. Chosen' = Chosen
    BY <2>1, TreeStable
  <2>4. Inputs' /\ TypeOK' /\ EdgesOnce' /\ Picking'
    BY <2>1, <2>2 DEF IInv, Inputs, TypeOK, EdgesOnce, Picking
  <2>5. Sound' /\ Settled' /\ Propagating' /\ Finishing'
    BY <2>1, <2>2, <2>3 DEF IInv, Sound, Settled, Propagating, Finishing
  <2>. QED BY <2>4, <2>5 DEF IInv
<1>2. CASE Host
  BY <1>2, AlterationKeeps, MinEdgePerVertexKeeps, AddReverseKeeps, CheckTerminationKeeps,
     PropagateKeeps, EndRoundKeeps DEF Host
<1>3. ASSUME NEW x \in Vertices, Thread(x) PROVE IInv'
  BY <1>3, PickKeeps, FinalStepKeeps DEF Thread
<1>. QED BY <1>1, <1>2, <1>3 DEF Next

THEOREM Invariant == Spec => []IInv
BY InitInvariant, NextInvariant, PTL DEF Spec

-----------------------------------------------------------------------------
(* Type correctness: no kernel leaves its arrays, and colors only go down.   *)
THEOREM TypeCorrect == Spec => []TypeOK
<1>1. IInv => TypeOK
  BY DEF IInv
<1>. QED BY <1>1, Invariant, PTL

(* Whatever the threads of min_edge_per_supervertex see of each other, every *)
(* edge is in the output once, or once in each direction.                    *)
THEOREM OnceCorrect == Spec => []EdgesOnce
<1>1. IInv => EdgesOnce
  BY DEF IInv
<1>. QED BY <1>1, Invariant, PTL

(* Between rounds, whatever the threads of final_color_indices have seen of  *)
(* each other, the colors are the trees of the forest found so far.          *)
THEOREM ColorsCorrect == Spec => []ColorsAreTrees
<1>1. IInv => ColorsAreTrees
  BY DEF IInv, Settled, ColorsAreTrees, Tree
<1>. QED BY <1>1, Invariant, PTL
-----------------------------------------------------------------------------
(* What is chosen is minimal under the altered weights: an edge that is kept *)
(* is a lightest one out of its color, so no lighter edges lead out of that  *)
(* color. This holds whatever the noise has done to the order of weights.    *)

(* The edges that are lighter than w with their noise; sets of edges none of *)
(* which has its ends joined by lighter ones.                                *)
Under(w) == {f \in DOMAIN weights : altered[f] < w}
Sparse(E) == \A e \in E : /\ e \in DOMAIN weights
                          /\ e[2] \notin Component(e[1], Under(altered[e]))

(* Only the two directions of an edge have one altered weight. *)
Distinct == phase # "alteration" =>
  \A e, f \in DOMAIN weights : altered[e] = altered[f] <=> f \in {e, Reverse(e)}

(* An edge that is flagged has been added, or is about to be. *)
Flagged ==
  \A e \in mst_edge :
    \/ e \in Chosen
    \/ /\ phase \in {"pick", "check"} /\ pc[e[1]] = "end" /\ Kept(e[1]) /\ e[2] = old[e[1]]
    \/ phase \in {"done", "failed"}

(* No edge out of a color is lighter than what the kernel found for it, and  *)
(* some vertex of the color has picked an edge of that weight.               *)
Lightness ==
  phase \in {"pick", "check"} =>
    \A f \in DOMAIN weights :
      Color(f[1]) # Color(f[2]) =>
        /\ min_edge_color[Color(f[1])] \in Int
        /\ min_edge_color[Color(f[1])] <= altered[f]
        /\ \E x \in Vertices : Color(x) = Color(f[1]) /\ old[x] # None /\ Light(x)

Minimal == Sparse(Chosen) /\ (phase = "alteration" => Chosen = {})

MInv == IInv /\ Distinct /\ Flagged /\ Lightness /\ Minimal

(* The edges that are about to be found. *)
LEMMA PickedMinimal ==
  ASSUME MInv, phase = "check", NEW a \in Vertices, NEW b \in Vertices, Picked(a, b)
  PROVE  /\ <<a, b>> \in DOMAIN weights /\ <<b, a>> \in DOMAIN weights
         /\ b \notin Component(a, Under(altered[<<a, b>>]))
         /\ a \notin Component(b, Under(altered[<<b, a>>]))
<1>. DEFINE w == altered[<<a, b>>]
            C == {z \in Vertices : Color(z) = Color(a)}
<1>1. a # None /\ b # None
  BY VertexFacts
<1>2. old[a] = b /\ Kept(a) /\ Color(a) # Color(b) /\ <<a, b>> \in DOMAIN weights
  BY <1>1 DEF MInv, IInv, Picking, Picked
<1>3. <<b, a>> \in DOMAIN weights /\ altered[<<b, a>>] = w
  <2>1. Reverse(<<a, b>>) = <<b, a>>
    BY DEF Reverse
  <2>2. <<b, a>> \in DOMAIN weights
    BY <1>2, <2>1, InputFacts DEF MInv, IInv
  <2>. QED BY <1>2, <2>1, <2>2 DEF MInv, Distinct
<1>4. min_edge_color[Color(a)] = altered[<<a, b>>]
  BY <1>2 DEF Kept, Light
<1>5. \A f \in DOMAIN weights : /\ f[1] \in Vertices /\ f[2] \in Vertices
                                 /\ Reverse(f)[1] = f[2] /\ Reverse(f)[2] = f[1]
                                 /\ Reverse(f) \in DOMAIN weights
                                 /\ altered[Reverse(f)] = altered[f]
                                 /\ altered[f] \in Int
  <2>1. \A f \in DOMAIN weights : f[1] \in Vertices /\ f[2] \in Vertices
    BY InputFacts DEF MInv, IInv, Pairs
  <2>2. \A f \in DOMAIN weights : /\ Reverse(f) \in DOMAIN weights
                                  /\ altered[f] \in Int
    BY InputFacts DEF MInv, IInv, TypeOK
  <2>3. \A f \in DOMAIN weights : altered[f] = altered[Reverse(f)]
    BY <1>1, <2>2 DEF MInv, Distinct
  <2>4. \A f : Reverse(f)[1] = f[2] /\ Reverse(f)[2] = f[1]
    BY DEF Reverse
  <2>. QED BY <2>1, <2>2, <2>3, <2>4
<1>6. ASSUME NEW f \in DOMAIN weights, altered[f] < w, f[1] \in C, f[2] \notin C PROVE FALSE
  <2>1. Color(f[1]) = Color(a) /\ Color(f[1]) # Color(f[2])
    BY <1>5, <1>6
  <2>2. altered[<<a, b>>] <= altered[f]
    BY <1>4, <2>1 DEF MInv, Lightness
  <2>3. altered[f] < altered[<<a, b>>] /\ altered[f] \in Int /\ altered[<<a, b>>] \in Int
    BY <1>2, <1>5, <1>6
  <2>. QED BY <2>2, <2>3
<1>7. ASSUME NEW f \in Under(w) PROVE f[1] \in C <=> f[2] \in C
  <2>1. f \in DOMAIN weights /\ altered[f] < w
    BY <1>7 DEF Under
  <2>. QED BY <2>1, <1>5, <1>6
<1>8. \A z \in Vertices : given[z] \in Vertices /\ Color(given[z]) = Color(z)
  <2>1. \A z \in Vertices : given[z] \in Vertices /\ Tree(given[z]) = Tree(z)
    BY TreeFacts DEF MInv, IInv
  <2>. QED BY <2>1 DEF MInv, IInv, Settled
<1>9. C \in Around(a, Under(w))
  BY <1>7, <1>8 DEF Around, Closed
<1>10. b \in Vertices /\ b \notin C
  BY <1>2
<1>11. b \notin Component(a, Under(w))
  BY <1>9, <1>10 DEF Component
<1>12. a \notin Component(b, Under(w))
  <2>1. Under(w) \in SUBSET Pairs
    BY InputFacts DEF Under, MInv, IInv
  <2>2. Inputs
    BY DEF MInv, IInv
  <2>3. ASSUME a \in Component(b, Under(w))
        PROVE  Component(a, Under(w)) = Component(b, Under(w))
    BY <2>1, <2>2, <2>3, SameComponent
  <2>. QED BY <1>11, <2>3, ComponentBasics
<1>. QED BY <1>2, <1>3, <1>11, <1>12

LEMMA MinimalStable ==
  ASSUME MInv, UNCHANGED <<given, result, weights, altered>>, phase' # "alteration" \/ phase' = phase
  PROVE  Minimal'
<1>1. Chosen' = Chosen
  BY TreeStable
<1>2. ASSUME NEW e \in Chosen
      PROVE  Component(e[1], Under(altered[e]))' = Component(e[1], Under(altered[e]))
  BY DEF Component, Around, Closed, Under
<1>. QED BY <1>1, <1>2 DEF MInv, Minimal, Sparse

LEMMA InitMinimal == ASSUME Init PROVE MInv
<1>1. IInv
  BY InitInvariant
<1>2. Chosen = {} /\ mst_edge = {} /\ phase = "alteration"
  BY DEF Init, Chosen
<1>. QED BY <1>1, <1>2 DEF MInv, Distinct, Flagged, Lightness, Minimal, Sparse

LEMMA AlterationMinimal ==
  ASSUME MInv, Alteration PROVE Distinct' /\ Flagged' /\ Lightness' /\ Minimal'
<1>1. /\ phase = "alteration" /\ phase' = "min_edge"
      /\ UNCHANGED <<weights, given, color_index, color, mst_edge, result, pc, old>>
  BY DEF Alteration, input, colors, output
<1>2. Distinct'
  <2>1. PICK r \in Pools : altered' = Noisy(weights, r) /\ Unique(altered')
    BY DEF Alteration
  <2>2. DOMAIN altered' = DOMAIN weights
    BY <2>1 DEF Noisy
  <2>3. ASSUME NEW e \in DOMAIN weights
        PROVE  Reverse(e) \in DOMAIN weights /\ altered'[Reverse(e)] = altered'[e]
    <3>1. /\ Reverse(e) \in DOMAIN weights /\ weights[Reverse(e)] = weights[e]
          /\ e[1] \in Vertices /\ e[2] \in Vertices
      BY InputFacts DEF MInv, IInv, Pairs
    <3>2. Reverse(e)[1] = e[2] /\ Reverse(e)[2] = e[1]
      BY DEF Reverse
    <3>3. r[e[1]] \in Int /\ r[e[2]] \in Int
      BY <3>1, PoolsAssumption
    <3>4. r[Reverse(e)[1]] + r[Reverse(e)[2]] = r[e[1]] + r[e[2]]
      BY <3>2, <3>3
    <3>. QED BY <2>1, <3>1, <3>4 DEF Noisy
  <2>4. \A e, f \in DOMAIN weights : altered'[e] = altered'[f] => f \in {e, Reverse(e)}
    BY <2>1, <2>2 DEF Unique
  <2>. QED BY <1>1, <2>3, <2>4 DEF Distinct
<1>3. Flagged'
  <2>1. Chosen' = Chosen
    BY <1>1, TreeStable
  <2>. QED BY <1>1, <2>1 DEF MInv, Flagged
<1>4. Lightness'
  BY <1>1 DEF Lightness
<1>5. Minimal'
  <2>1. Chosen' = {}
    BY <1>1, TreeStable DEF MInv, Minimal
  <2>. QED BY <2>1 DEF Minimal, Sparse
<1>. QED BY <1>2, <1>3, <1>4, <1>5

LEMMA MinEdgeMinimal ==
  ASSUME MInv, MinEdgePerVertex PROVE Distinct' /\ Flagged' /\ Lightness' /\ Minimal'
<1>1. /\ phase = "min_edge" /\ phase' = "pick"
      /\ min_edge_color' = [c \in Vertices |->
           Least({altered[<<x, Lightest(x)>>] :
                    x \in {y \in Vertices : Color(y) = c /\ Lightest(y) # None}})]
      /\ old' = [x \in Vertices |-> Lightest(x)]
      /\ UNCHANGED <<weights, given, altered, color_index, color, mst_edge, result>>
  BY DEF MinEdgePerVertex, input, colors, output
<1>2. Chosen' = Chosen /\ \A z : Color(z)' = Color(z)
  BY <1>1, TreeStable DEF Color
<1>3. Distinct' /\ Minimal'
  BY <1>1, MinimalStable DEF MInv, Distinct
<1>4. mst_edge \subseteq Chosen
  BY <1>1 DEF MInv, Flagged
<1>5. Flagged'
  BY <1>1, <1>2, <1>4 DEF Flagged
<1>6. \A e \in Chosen : Color(e[1]) = Color(e[2])
  <2>1. ASSUME NEW e \in Chosen PROVE Tree(e[1]) = Tree(e[2])
    BY TreeFacts DEF MInv, IInv
  <2>. QED BY <1>1, <2>1, TreeFacts DEF MInv, IInv, Settled
<1>7. ASSUME NEW f \in DOMAIN weights, Color(f[1]) # Color(f[2])
      PROVE  /\ min_edge_color'[Color(f[1])] \in Int
             /\ min_edge_color'[Color(f[1])] <= altered[f]
             /\ \E x \in Vertices : /\ Color(x) = Color(f[1]) /\ Lightest(x) # None
                                    /\ min_edge_color'[Color(x)] = altered[<<x, Lightest(x)>>]
  <2>. DEFINE x == f[1]
              H == {y \in Vertices : Color(y) = Color(x) /\ Lightest(y) # None}
              h == [z \in H |-> altered[<<z, Lightest(z)>>]]
              L == {altered[<<z, Lightest(z)>>] : z \in H}
  <2>1. x \in Vertices /\ f[2] \in Vertices /\ f = <<x, f[2]>>
    BY InputFacts DEF MInv, IInv, Pairs
  <2>2. f[2] \in Leaving(x)
    BY <1>4, <1>6, <1>7, <2>1 DEF Leaving
  <2>3. Lightest(x) \in Leaving(x) /\ altered[<<x, Lightest(x)>>] <= altered[f]
    BY <2>1, <2>2, LightestFacts DEF MInv
  <2>4. \A z \in H : altered[<<z, Lightest(z)>>] \in Int
    BY LightestFacts DEF MInv, Leaving, IInv, TypeOK
  <2>5. x \in H
    BY <2>1, <2>3, VertexFacts DEF Leaving
  <2>6. \E y \in H : \A z \in H : h[y] <= h[z]
    <3>1. H \in SUBSET Vertices /\ H # {} /\ \A z \in H : h[z] \in Int
      BY <2>4, <2>5
    <3>. HIDE DEF h, H
    <3>. QED BY <3>1, LeastValue
  <2>7. PICK y \in H : \A z \in H : altered[<<y, Lightest(y)>>] <= altered[<<z, Lightest(z)>>]
    BY <2>6
  <2>8. Smallest(L) = altered[<<y, Lightest(y)>>]
    <3>1. /\ L \in SUBSET Int /\ altered[<<y, Lightest(y)>>] \in L
          /\ \A v \in L : altered[<<y, Lightest(y)>>] <= v
      BY <2>4, <2>7
    <3>. HIDE DEF L
    <3>. QED BY <3>1, SmallestIs
  <2>9. Color(x) \in Vertices
    BY <2>1 DEF Color, MInv, IInv, TypeOK
  <2>10. min_edge_color'[Color(x)] = altered[<<y, Lightest(y)>>]
    BY <1>1, <2>5, <2>8, <2>9 DEF Least
  <2>11. altered[<<y, Lightest(y)>>] <= altered[f]
    <3>1. altered[<<y, Lightest(y)>>] <= altered[<<x, Lightest(x)>>]
      BY <2>5, <2>7
    <3>2. altered[<<y, Lightest(y)>>] \in Int /\ altered[<<x, Lightest(x)>>] \in Int
      BY <2>4, <2>5
    <3>3. altered[f] \in Int
      BY DEF MInv, IInv, TypeOK
    <3>. QED BY <2>3, <3>1, <3>2, <3>3
  <2>12. altered[<<y, Lightest(y)>>] \in Int /\ y \in Vertices /\ Color(y) = Color(x)
         /\ Lightest(y) # None
    BY <2>4
  <2>. QED BY <2>10, <2>11, <2>12
<1>8. Lightness'
  <2>1. \A x \in Vertices : old'[x] = Lightest(x)
    BY <1>1
  <2>. QED BY <1>1, <1>2, <1>7, <2>1 DEF Lightness, Light
<1>. QED BY <1>3, <1>5, <1>8

LEMMA PickMinimal ==
  ASSUME MInv, NEW x \in Vertices, Pick(x)
  PROVE  Distinct' /\ Flagged' /\ Lightness' /\ Minimal'
<1>1. /\ phase = "pick" /\ pc[x] = "run" /\ pc' = [pc EXCEPT ![x] = "end"]
      /\ UNCHANGED <<weights, symmetrize, given, altered, color_index, color, min_edge_color,
                     result, phase, old>>
  BY DEF Pick, input, colors, output
<1>2. /\ Chosen' = Chosen
      /\ \A z : Color(z)' = Color(z) /\ Kept(z)' = Kept(z)
  BY <1>1, TreeStable DEF Color, Kept, Light, Left
<1>3. \/ mst_edge' = mst_edge
      \/ Kept(x) /\ mst_edge' = mst_edge \cup {<<x, old[x]>>}
  <2>1. PICK back \in {old[new_mst_edge[x]], new_mst_edge[new_mst_edge[x]]} :
          IF SuperLightest(x) /\ ~LeaveToOther(x, back)
            THEN mst_edge' = mst_edge \cup {<<x, new_mst_edge[x]>>}
            ELSE mst_edge' = mst_edge
    BY DEF Pick
  <2>. QED BY <2>1, <1>1, PickDecides DEF MInv
<1>4. pc'[x] = "end" /\ \A z : pc[z] = "end" => pc'[z] = "end"
  BY <1>1 DEF MInv, IInv, TypeOK
<1>5. Flagged'
  BY <1>1, <1>2, <1>3, <1>4 DEF MInv, Flagged
<1>6. Distinct' /\ Lightness' /\ Minimal'
  BY <1>1, <1>2, MinimalStable DEF MInv, Distinct, Lightness, Light
<1>. QED BY <1>5, <1>6

LEMMA CheckTerminationMinimal ==
  ASSUME MInv, CheckTermination PROVE Distinct' /\ Flagged' /\ Lightness' /\ Minimal'
<1>1. /\ phase = "check"
      /\ UNCHANGED <<weights, symmetrize, given, altered, color_index, color, min_edge_color,
                     mst_edge, pc, old>>
      /\ \/ phase' \in {"failed", "done"} /\ result' = result
         \/ phase' = "propagate" /\ result' = [e \in Pairs |-> result[e] + Found(e)]
  BY DEF CheckTermination, input, colors
<1>2. Distinct' /\ Lightness'
  BY <1>1 DEF MInv, Distinct, Lightness, Light, Color
<1>3. CASE phase' \in {"failed", "done"} /\ result' = result
  BY <1>1, <1>2, <1>3, MinimalStable DEF Flagged
<1>4. CASE phase' = "propagate" /\ result' = [e \in Pairs |-> result[e] + Found(e)]
  <2>1. \A e \in Pairs : e[1] \in Vertices /\ e[2] \in Vertices /\ e = <<e[1], e[2]>>
    BY DEF Pairs
  <2>2. \A e \in Pairs : Found(e) = IF Picked(e[1], e[2]) \/ (symmetrize /\ Picked(e[2], e[1]))
                                      THEN 1 ELSE 0
    BY <1>1, <2>1, FoundFacts DEF MInv
  <2>3. \A e \in Pairs : result[e] \in Nat /\ result'[e] = result[e] + Found(e)
    BY <1>4 DEF MInv, IInv, TypeOK
  <2>4. \A e \in Pairs : e \in Chosen' <=> e \in Chosen \/ Found(e) # 0
    BY <2>2, <2>3 DEF Chosen
  <2>5. Chosen \subseteq Pairs /\ Chosen' \subseteq Pairs
    BY DEF Chosen
  <2>6. Flagged'
    <3>1. ASSUME NEW e \in mst_edge PROVE e \in Chosen'
      <4>1. e \in Pairs
        BY InputFacts DEF MInv, IInv, TypeOK
      <4>2. CASE e \in Chosen
        BY <2>4, <4>1, <4>2
      <4>3. CASE pc[e[1]] = "end" /\ Kept(e[1]) /\ e[2] = old[e[1]]
        <5>1. Picked(e[1], e[2])
          BY <1>1, <2>1, <4>1, <4>3 DEF MInv, IInv, Picking, Picked
        <5>. QED BY <2>2, <2>4, <4>1, <5>1
      <4>. QED BY <1>1, <4>2, <4>3 DEF MInv, Flagged
    <3>. QED BY <1>1, <3>1 DEF Flagged
  <2>7. Minimal'
    <3>1. ASSUME NEW e \in Chosen'
          PROVE  e \in DOMAIN weights /\ e[2] \notin Component(e[1], Under(altered[e]))
      <4>1. e \in Pairs
        BY <2>5
      <4>2. CASE e \in Chosen
        BY <4>2 DEF MInv, Minimal, Sparse
      <4>3. CASE Picked(e[1], e[2]) \/ Picked(e[2], e[1])
        <5>1. PICK a \in Vertices, b \in Vertices : e = <<a, b>>
          BY <2>1, <4>1
        <5>2. Picked(a, b) \/ Picked(b, a)
          BY <4>3, <5>1
        <5>3. /\ <<a, b>> \in DOMAIN weights
              /\ b \notin Component(a, Under(altered[<<a, b>>]))
          BY <1>1, <5>2, PickedMinimal
        <5>. QED BY <5>1, <5>3
      <4>. QED BY <2>2, <2>4, <4>1, <4>2, <4>3
    <3>2. \A e : Component(e[1], Under(altered[e]))' = Component(e[1], Under(altered[e]))
      BY <1>1 DEF Component, Around, Closed, Under
    <3>. QED BY <1>1, <1>4, <3>1, <3>2 DEF Minimal, Sparse
  <2>. QED BY <1>2, <2>6, <2>7
<1>. QED BY <1>1, <1>3, <1>4

(* The other kernels and the host neither flag nor find an edge. *)
LEMMA OthersMinimal ==
  ASSUME MInv,
         UNCHANGED <<weights, symmetrize, given, altered, mst_edge, result>>,
         \/ /\ phase \in {"propagate", "final"}
            /\ phase' \in {"propagate", "final", "min_edge", "done"}
         \/ /\ phase = "pick" /\ phase' = "check"
            /\ UNCHANGED <<color_index, color, min_edge_color, pc, old>>
         \/ /\ phase' = phase
            /\ UNCHANGED <<color_index, color, min_edge_color, pc, old>>
  PROVE  Distinct' /\ Flagged' /\ Lightness' /\ Minimal'
<1>1. Chosen' = Chosen
  BY TreeStable
<1>2. UNCHANGED <<color_index, color, min_edge_color, old>> =>
        \A z : Color(z)' = Color(z) /\ Kept(z)' = Kept(z)
  BY DEF Color, Kept, Light, Left
<1>3. Distinct' /\ Minimal'
  BY MinimalStable DEF MInv, Distinct
<1>4. Flagged'
  BY <1>1, <1>2 DEF MInv, Flagged
<1>5. Lightness'
  BY <1>2 DEF MInv, Lightness, Light
<1>. QED BY <1>3, <1>4, <1>5

LEMMA NextMinimal == MInv /\ [Next]_vars => MInv'
<1>. SUFFICES ASSUME MInv, [Next]_vars PROVE MInv'
  OBVIOUS
<1>1. IInv'
  BY NextInvariant DEF MInv
<1>2. CASE Alteration
  BY <1>1, <1>2, AlterationMinimal DEF MInv
<1>3. CASE MinEdgePerVertex
  BY <1>1, <1>3, MinEdgeMinimal DEF MInv
<1>4. CASE CheckTermination
  BY <1>1, <1>4, CheckTerminationMinimal DEF MInv
<1>5. CASE AddReverse
  BY <1>1, <1>5, OthersMinimal DEF MInv, AddReverse, input, colors, output
<1>6. CASE Propagate
  BY <1>1, <1>6, OthersMinimal DEF MInv, Propagate, input, output
<1>7. CASE EndRound
  BY <1>1, <1>7, OthersMinimal DEF MInv, EndRound, input
<1>8. ASSUME NEW x \in Vertices, Pick(x) PROVE MInv'
  BY <1>1, <1>8, PickMinimal DEF MInv
<1>9. ASSUME NEW x \in Vertices, FinalStep(x) PROVE MInv'
  BY <1>1, <1>9, OthersMinimal DEF MInv, FinalStep, input, output
<1>10. CASE UNCHANGED vars
  BY <1>1, <1>10, OthersMinimal DEF MInv, vars, input, colors, output
<1>. QED BY <1>2, <1>3, <1>4, <1>5, <1>6, <1>7, <1>8, <1>9, <1>10 DEF Next, Host, Thread
-----------------------------------------------------------------------------
(* When the weights of a graph have one sign, noise never turns two of them  *)
(* round, so what is minimal under the altered weights is minimal.           *)

OneSign ==
  \A g \in Graphs : \/ \A e \in DOMAIN g : g[e] >= 0
                    \/ \A e \in DOMAIN g : g[e] <= 0

Ordered == phase # "alteration" =>
  \A e, f \in DOMAIN weights : weights[f] < weights[e] => altered[f] < altered[e]

LEMMA GapBound ==
  ASSUME OneSign, NEW g \in Graphs
  PROVE  /\ HalfGap(g) \in Nat
         /\ \A e, f \in DOMAIN g : g[f] < g[e] => HalfGap(g) <= g[e] - g[f]
<1>. DEFINE S == {g[e] : e \in DOMAIN g}
<1>1. /\ S \subseteq Int /\ \A e \in DOMAIN g : g[e] \in Int
      /\ (\A w \in S : w >= 0) \/ (\A w \in S : w <= 0)
  BY GraphsAssumption DEF OneSign
<1>2. \A p \in Adjacent(S) : /\ p[1] \in Int /\ p[2] \in Int /\ p[1] < p[2]
                             /\ Magnitude(Magnitude(p[2]) - Magnitude(p[1])) = p[2] - p[1]
  <2>. HIDE DEF S
  <2>1. \A p \in Adjacent(S) : p[1] \in S /\ p[2] \in S /\ p[1] < p[2]
    BY DEF Adjacent
  <2>2. ASSUME NEW a \in S, NEW b \in S, a < b PROVE Magnitude(Magnitude(b) - Magnitude(a)) = b - a
    <3>1. a \in Int /\ b \in Int /\ ((a >= 0 /\ b >= 0) \/ (a <= 0 /\ b <= 0))
      BY <1>1
    <3>2. CASE a >= 0 /\ b >= 0
      BY <2>2, <3>1, <3>2 DEF Magnitude
    <3>3. CASE a <= 0 /\ b <= 0
      <4>1. Magnitude(a) = -a /\ Magnitude(b) = -b
        BY <3>1, <3>3 DEF Magnitude
      <4>2. Magnitude(b) - Magnitude(a) = a - b /\ a - b < 0 /\ -(a - b) = b - a
        BY <2>2, <3>1, <4>1
      <4>. QED BY <4>2 DEF Magnitude
    <3>. QED BY <3>1, <3>2, <3>3
  <2>. QED BY <1>1, <2>1, <2>2
<1>3. Gaps(g) = {p[2] - p[1] : p \in Adjacent(S)}
  BY <1>2 DEF Gaps
<1>4. Gaps(g) \subseteq Nat /\ 0 \notin Gaps(g)
  <2>. HIDE DEF S
  <2>1. \A p \in Adjacent(S) : p[2] - p[1] \in Nat /\ p[2] - p[1] # 0
    BY <1>2
  <2>. QED BY <1>3, <2>1
<1>5. HalfGap(g) \in Nat
  BY <1>4, SmallestOf DEF HalfGap
<1>6. ASSUME NEW e \in DOMAIN g, NEW f \in DOMAIN g, g[f] < g[e]
      PROVE  HalfGap(g) <= g[e] - g[f]
  <2>. DEFINE Above == {d \in Nat : d > 0 /\ g[f] + d \in S}
  <2>1. g[e] - g[f] \in Above /\ g[f] \in S
    BY <1>1, <1>6
  <2>2. PICK d \in Above : \A c \in Above : d <= c
    BY <2>1, NatLeast
  <2>. DEFINE w == g[f] + d
  <2>3. w \in S /\ g[f] < w /\ w <= g[e] /\ w \in Int
    BY <2>1, <2>2, <1>1
  <2>4. <<g[f], w>> \in Adjacent(S)
    <3>1. ASSUME NEW z \in S, ~(z <= g[f]) PROVE z >= w
      <4>1. z \in Int /\ g[f] \in Int
        BY <1>1
      <4>2. z - g[f] \in Above
        BY <3>1, <4>1
      <4>. QED BY <2>2, <4>1, <4>2
    <3>. QED BY <2>1, <2>3, <3>1 DEF Adjacent
  <2>5. w - g[f] \in Gaps(g)
    BY <1>3, <2>4
  <2>6. HalfGap(g) <= w - g[f]
    BY <1>4, <2>5, SmallestOf DEF HalfGap
  <2>. QED BY <2>3, <2>6, <1>1, <1>5
<1>. QED BY <1>5, <1>6

LEMMA NoiseOrder ==
  ASSUME OneSign, NEW g \in Graphs, NEW r \in Pools
  PROVE  \A e, f \in DOMAIN g : g[f] < g[e] => Noisy(g, r)[f] < Noisy(g, r)[e]
<1>. DEFINE H == HalfGap(g)
            n(e) == r[e[1]] + r[e[2]]
<1>1. Unit \in Nat \ {0}
  BY PoolsAssumption
<1>2. ASSUME NEW e \in DOMAIN g
      PROVE  g[e] \in Int /\ n(e) \in 2..(2 * Unit)
  <2>1. e[1] \in Vertices /\ e[2] \in Vertices
    BY GraphsAssumption DEF Pairs
  <2>2. r[e[1]] \in 1..Unit /\ r[e[2]] \in 1..Unit
    BY <2>1, PoolsAssumption
  <2>. QED BY <2>2, <1>1, GraphsAssumption DEF OneSign
<1>3. H \in Nat
  BY GapBound
<1>4. ASSUME NEW a \in Int, NEW b \in Int, NEW k \in 2..(2 * Unit), NEW l \in 2..(2 * Unit),
             a < b, H <= b - a
      PROVE  2 * Unit * a + H * k < 2 * Unit * b + H * l
  <2>. DEFINE d == b - a - H
  <2>0. d \in Nat /\ b = a + H + d
    BY <1>3, <1>4
  <2>1. CASE H = 0
    <3>1. 2 * Unit * a < 2 * Unit * b
      <4>1. b - a \in Nat /\ b - a >= 1
        BY <1>4
      <4>2. Unit * b = Unit * a + Unit * (b - a)
        BY <1>1
      <4>3. Unit * (b - a) >= 1
        BY <4>1, <1>1
      <4>. QED BY <4>2, <4>3, <1>1
    <3>2. H * k = 0 /\ H * l = 0
      BY <2>1
    <3>. QED BY <3>1, <3>2, <1>1
  <2>2. CASE H > 0
    <3>1. H * k <= H * (2 * Unit)
      <4>1. 2 * Unit - k \in Nat
        BY <1>1
      <4>2. H * (2 * Unit) = H * k + H * (2 * Unit - k)
        BY <1>1, <1>3
      <4>3. H * (2 * Unit - k) \in Nat
        BY <4>1, <1>3
      <4>. QED BY <4>2, <4>3, <1>3, <1>1
    <3>2. H * l > 0
      BY <2>2, <1>3
    <3>3. 2 * Unit * b = 2 * Unit * a + H * (2 * Unit) + 2 * Unit * d
      BY <2>0, <1>1, <1>3
    <3>4. 2 * Unit * d \in Nat /\ 2 * Unit * a \in Int /\ H * (2 * Unit) \in Nat
          /\ H * k \in Nat /\ H * l \in Nat
      BY <2>0, <1>1, <1>3
    <3>. QED BY <3>1, <3>2, <3>3, <3>4
  <2>. QED BY <2>1, <2>2, <1>3
<1>5. ASSUME NEW e \in DOMAIN g, NEW f \in DOMAIN g, g[f] < g[e]
      PROVE  Noisy(g, r)[f] < Noisy(g, r)[e]
  <2>1. H <= g[e] - g[f]
    BY <1>5, GapBound
  <2>. QED BY <1>2, <1>4, <1>5, <2>1 DEF Noisy
<1>. QED BY <1>5

LEMMA NextOrdered == OneSign /\ MInv /\ Ordered /\ [Next]_vars => Ordered'
<1>. SUFFICES ASSUME OneSign, MInv, Ordered, [Next]_vars PROVE Ordered'
  OBVIOUS
<1>1. CASE Alteration
  <2>1. PICK r \in Pools : altered' = Noisy(weights, r)
    BY <1>1 DEF Alteration
  <2>2. weights \in Graphs /\ weights' = weights
    BY <1>1 DEF MInv, IInv, Inputs, Alteration, input
  <2>. QED BY <2>1, <2>2, NoiseOrder DEF Ordered
<1>2. CASE UNCHANGED <<weights, altered>> /\ (phase' = phase \/ phase # "alteration")
  BY <1>2 DEF Ordered
<1>3. CASE Host /\ ~Alteration
  BY <1>2, <1>3 DEF Host, MinEdgePerVertex, AddReverse, CheckTermination, Propagate, EndRound, input
<1>4. ASSUME NEW x \in Vertices, Thread(x) PROVE Ordered'
  BY <1>2, <1>4 DEF Thread, Pick, FinalStep, input
<1>5. CASE UNCHANGED vars
  BY <1>2, <1>5 DEF vars, input
<1>. QED BY <1>1, <1>3, <1>4, <1>5 DEF Next, Host

THEOREM OrderKept == OneSign => (Spec => [](MInv /\ Ordered))
<1>. SUFFICES ASSUME OneSign PROVE Spec => [](MInv /\ Ordered)
  OBVIOUS
<1>1. Init => MInv /\ Ordered
  BY InitMinimal DEF Init, Ordered
<1>2. MInv /\ Ordered /\ [Next]_vars => MInv' /\ Ordered'
  BY NextMinimal, NextOrdered
<1>. QED BY <1>1, <1>2, PTL DEF Spec

(* When weights have one sign, no edge is ever chosen whose ends are joined  *)
(* by lighter edges: whatever the noise, the number of rounds and the order  *)
(* of the threads, what is in the output belongs to a minimum forest.        *)
THEOREM MinimalCorrect == OneSign => (Spec => []ChosenMinimal)
<1>. SUFFICES ASSUME OneSign PROVE Spec => []ChosenMinimal
  OBVIOUS
<1>1. MInv /\ Ordered => ChosenMinimal
  <2>. SUFFICES ASSUME MInv, Ordered, phase = "propagate", NEW e \in Chosen
       PROVE  e[2] \notin Component(e[1], Lighter(weights[e]))
    BY DEF ChosenMinimal
  <2>1. e \in DOMAIN weights /\ e[2] \notin Component(e[1], Under(altered[e]))
    BY DEF MInv, Minimal, Sparse
  <2>2. Lighter(weights[e]) \subseteq Under(altered[e])
    BY <2>1 DEF Lighter, Under, Ordered
  <2>3. Component(e[1], Lighter(weights[e])) \subseteq Component(e[1], Under(altered[e]))
    BY <2>2, ComponentGrows
  <2>. QED BY <2>1, <2>3
<1>. QED BY <1>1, OrderKept, PTL
-----------------------------------------------------------------------------
(* Sparse sets of edges are forests.                                         *)

Joins(E) == {{e[1], e[2]} : e \in E}
Trees(E) == {Component(x, E) : x \in Vertices}

(* Of some subsets of a finite set one has no smaller one among them.        *)
LEMMA SmallestSet ==
  ASSUME NEW S, IsFiniteSet(S), NEW T, T \subseteq SUBSET S, T # {}
  PROVE  \E D \in T : \A C \in T : C \subseteq D => C = D
<1>1. IsWellFoundedOn(StrictSubsetOrdering(S), SUBSET S)
  BY FS_StrictSubsetOrderingWellFounded, FS_FiniteSubsetsOfFinite
<1>2. PICK D \in T : \A C \in T : ~(<<C, D>> \in StrictSubsetOrdering(S))
  BY <1>1, WFMin, Zenon
<1>. QED BY <1>2 DEF StrictSubsetOrdering

LEMMA SameSize ==
  ASSUME NEW S, IsFiniteSet(S), NEW T, NEW f \in [S -> T],
         \A a, b \in S : f[a] = f[b] => a = b, \A t \in T : \E s \in S : f[s] = t
  PROVE  IsFiniteSet(T) /\ Cardinality(T) = Cardinality(S)
<1>1. f \in Bijection(S, T)
  <2>1. f \in Injection(S, T)
    BY DEF Injection, IsInjective
  <2>2. f \in Surjection(S, T)
    BY DEF Surjection
  <2>. QED BY <2>1, <2>2 DEF Bijection
<1>2. ExistsBijection(S, T)
  BY <1>1 DEF ExistsBijection
<1>. QED BY <1>2, FS_Bijection

(* Two elements of a set are replaced by one that is new.                    *)
LEMMA TwoForOne ==
  ASSUME NEW S, IsFiniteSet(S), NEW A \in S, NEW B \in S \ {A}, NEW C, C \notin (S \ {A}) \ {B}
  PROVE  Cardinality(((S \ {A}) \ {B}) \cup {C}) = Cardinality(S) - 1
<1>. DEFINE R == S \ {A}
            Q == R \ {B}
<1>1. Cardinality(S) \in Nat
  BY FS_CardinalityType
<1>2. IsFiniteSet(R) /\ Cardinality(R) = Cardinality(S) - 1
  BY FS_RemoveElement
<1>3. B \in R /\ C \notin Q
  OBVIOUS
<1>4. IsFiniteSet(Q) /\ Cardinality(Q) = Cardinality(R) - 1
  <2>. HIDE DEF R
  <2>. QED BY <1>2, <1>3, FS_RemoveElement
<1>5. Cardinality(Q \cup {C}) = Cardinality(Q) + 1
  <2>. HIDE DEF Q
  <2>. QED BY <1>3, <1>4, FS_AddElement
<1>. QED BY <1>1, <1>2, <1>4, <1>5

LEMMA Sizes ==
  /\ IsFiniteSet(Pairs)
  /\ Cardinality(Vertices) = V
  /\ \A E : /\ IsFiniteSet(Trees(E)) /\ Cardinality(Trees(E)) \in 1..V
<1>1. IsFiniteSet(Vertices) /\ Cardinality(Vertices) = V
  <2>1. 0 \in Int /\ V - 1 \in Int /\ ~(0 > V - 1) /\ V - 1 - 0 + 1 = V
    BY VAssumption
  <2>2. Cardinality(0..(V - 1)) = V - 1 - 0 + 1 /\ IsFiniteSet(0..(V - 1))
    BY <2>1, FS_Interval
  <2>. QED BY <2>1, <2>2 DEF Vertices
<1>2. IsFiniteSet(Pairs)
  BY <1>1, FS_Product DEF Pairs
<1>3. ASSUME NEW E PROVE IsFiniteSet(Trees(E)) /\ Cardinality(Trees(E)) \in 1..V
  <2>. DEFINE f == [x \in Vertices |-> Component(x, E)]
  <2>1. f \in Surjection(Vertices, Trees(E))
    BY DEF Surjection, Trees
  <2>2. IsFiniteSet(Trees(E)) /\ Cardinality(Trees(E)) <= V
    BY <1>1, <2>1, FS_Surjection
  <2>3. Trees(E) # {}
    BY VAssumption DEF Trees, Vertices
  <2>4. Cardinality(Trees(E)) \in Nat /\ Cardinality(Trees(E)) # 0
    BY <2>2, <2>3, FS_CardinalityType, FS_EmptySet
  <2>. QED BY <2>2, <2>4, VAssumption
<1>. QED BY <1>1, <1>2, <1>3

LEMMA HeaviestEdge ==
  ASSUME MInv, NEW E, E \subseteq DOMAIN weights, E # {}
  PROVE  \E e \in E : \A f \in E : altered[f] <= altered[e]
<1>. DEFINE Max(D) == \E e \in D : \A f \in D : altered[f] <= altered[e]
            T == {D \in SUBSET E : D # {} /\ ~Max(D)}
<1>1. IsFiniteSet(E)
  <2>1. E \in SUBSET Pairs
    BY InputFacts DEF MInv, IInv
  <2>. QED BY <2>1, Sizes, FS_Subset
<1>2. \A e \in E : altered[e] \in Int
  BY DEF MInv, IInv, TypeOK
<1>3. SUFFICES ASSUME T # {} PROVE FALSE
  OBVIOUS
<1>4. PICK D \in T : \A C \in T : C \subseteq D => C = D
  <2>. HIDE DEF T
  <2>1. T \subseteq SUBSET E
    BY DEF T
  <2>. QED BY <1>1, <1>3, <2>1, SmallestSet
<1>5. PICK e \in D : TRUE
  OBVIOUS
<1>6. D \ {e} # {}
  <2>1. SUFFICES ASSUME D = {e} PROVE FALSE
    OBVIOUS
  <2>2. altered[e] <= altered[e]
    BY <1>2
  <2>. QED BY <2>1, <2>2
<1>7. Max(D \ {e})
  <2>1. D \ {e} # D /\ D \ {e} \subseteq D /\ D \ {e} \in SUBSET E
    OBVIOUS
  <2>. QED BY <1>4, <1>6, <2>1
<1>8. PICK m \in D \ {e} : \A f \in D \ {e} : altered[f] <= altered[m]
  BY <1>7
<1>9. CASE altered[e] <= altered[m]
  BY <1>8, <1>9
<1>10. CASE ~(altered[e] <= altered[m])
  <2>1. \A f \in D : altered[f] <= altered[e]
    BY <1>2, <1>8, <1>10
  <2>. QED BY <2>1
<1>. QED BY <1>9, <1>10

(* One more edge joins the components of its ends, and no others.            *)
LEMMA OneEdge ==
  ASSUME Inputs, NEW E \in SUBSET Pairs, NEW F \in SUBSET Pairs, NEW e \in F,
         E \subseteq F, \A f \in F : f \in E \/ f \in {e, Reverse(e)}
  PROVE  LET AB == Component(e[1], E) \cup Component(e[2], E)
         IN  \A x \in Vertices : Component(x, F) = IF x \in AB THEN AB ELSE Component(x, E)
<1>. DEFINE A == Component(e[1], E)
            B == Component(e[2], E)
<1>1. /\ e[1] \in Vertices /\ e[2] \in Vertices /\ e[1] \in A /\ e[2] \in B
      /\ A \subseteq Vertices /\ B \subseteq Vertices
      /\ Reverse(e)[1] = e[2] /\ Reverse(e)[2] = e[1]
      /\ \A f \in E : f[1] \in Vertices /\ f[2] \in Vertices
  BY ComponentBasics DEF Pairs, Reverse
<1>2. ASSUME NEW x \in Vertices, NEW f \in E
      PROVE  f[1] \in Component(x, E) <=> f[2] \in Component(x, E)
  BY <1>1 DEF Component, Around, Closed
<1>3. ASSUME NEW x \in Vertices, NEW z \in Vertices
      PROVE  z \in Component(x, E) <=> given[z] \in Component(x, E)
  BY InputFacts DEF Component, Around, Closed
<1>4. Closed(A \cup B, F)
  <2>1. \A f \in F : f[1] \in A \cup B <=> f[2] \in A \cup B
    BY <1>1, <1>2
  <2>2. \A z \in Vertices : z \in A \cup B <=> given[z] \in A \cup B
    BY <1>1, <1>3
  <2>. QED BY <2>1, <2>2 DEF Closed
<1>5. ASSUME NEW x \in Vertices, x \in A \cup B PROVE Component(x, F) = A \cup B
  <2>1. Component(x, F) \subseteq A \cup B
    BY <1>1, <1>4, <1>5 DEF Component, Around
  <2>2. A \subseteq Component(e[1], F) /\ B \subseteq Component(e[2], F)
    BY ComponentGrows
  <2>3. e[2] \in Component(e[1], F)
    BY ComponentEdges
  <2>4. Component(e[2], F) = Component(e[1], F)
    BY <1>1, <2>3, SameComponent
  <2>5. x \in Component(e[1], F)
    BY <1>5, <2>2, <2>4
  <2>6. Component(x, F) = Component(e[1], F)
    BY <1>1, <2>5, SameComponent
  <2>. QED BY <2>1, <2>2, <2>4, <2>6
<1>6. ASSUME NEW x \in Vertices, x \notin A \cup B PROVE Component(x, F) = Component(x, E)
  <2>1. Component(x, E) \subseteq Component(x, F)
    BY ComponentGrows
  <2>2. e[1] \notin Component(x, E) /\ e[2] \notin Component(x, E)
    <3>1. x \in Component(x, E)
      BY ComponentBasics
    <3>. QED BY <1>6, <3>1, SameComponent
  <2>3. Closed(Component(x, E), F)
    <3>1. \A f \in F : f[1] \in Component(x, E) <=> f[2] \in Component(x, E)
      BY <1>1, <1>2, <2>2
    <3>. QED BY <1>3, <3>1 DEF Closed
  <2>4. Component(x, F) \subseteq Component(x, E)
    BY <2>3, ComponentBasics DEF Component, Around
  <2>. QED BY <2>1, <2>4
<1>. QED BY <1>5, <1>6

LEMMA OneTreeLess ==
  ASSUME Inputs, NEW E \in SUBSET Pairs, NEW F \in SUBSET Pairs, NEW e \in F,
         E \subseteq F, \A f \in F : f \in E \/ f \in {e, Reverse(e)},
         e[2] \notin Component(e[1], E)
  PROVE  Cardinality(Trees(F)) = Cardinality(Trees(E)) - 1
<1>. DEFINE A == Component(e[1], E)
            B == Component(e[2], E)
<1>1. /\ e[1] \in Vertices /\ e[2] \in Vertices /\ e[1] \in A /\ e[2] \in B
      /\ A \subseteq Vertices /\ B \subseteq Vertices
  BY ComponentBasics DEF Pairs
<1>2. \A x \in Vertices : Component(x, F) = IF x \in A \cup B THEN A \cup B ELSE Component(x, E)
  BY OneEdge
<1>3. \A x \in Vertices : /\ x \in Component(x, E)
                          /\ \A y \in Component(x, E) : Component(y, E) = Component(x, E)
  BY ComponentBasics, SameComponent
<1>4. \A x \in Vertices : x \in A \cup B <=> Component(x, E) \in {A, B}
  BY <1>1, <1>3
<1>5. A # B
  BY <1>1
<1>6. Trees(F) = ((Trees(E) \ {A}) \ {B}) \cup {A \cup B}
  <2>1. ASSUME NEW T \in Trees(F) PROVE T \in ((Trees(E) \ {A}) \ {B}) \cup {A \cup B}
    <3>1. PICK x \in Vertices : T = Component(x, F)
      BY DEF Trees
    <3>2. CASE x \in A \cup B
      BY <1>2, <3>1, <3>2
    <3>3. CASE x \notin A \cup B
      <4>1. T = Component(x, E) /\ Component(x, E) \in Trees(E)
        BY <1>2, <3>1, <3>3 DEF Trees
      <4>. QED BY <4>1, <1>4, <3>3
    <3>. QED BY <3>2, <3>3
  <2>2. A \cup B \in Trees(F)
    <3>1. Component(e[1], F) = A \cup B
      BY <1>1, <1>2
    <3>. QED BY <1>1, <3>1 DEF Trees
  <2>3. ASSUME NEW T \in Trees(E), T # A, T # B PROVE T \in Trees(F)
    <3>1. PICK x \in Vertices : T = Component(x, E)
      BY DEF Trees
    <3>2. Component(x, F) = T
      BY <1>2, <1>4, <2>3, <3>1
    <3>. QED BY <3>1, <3>2 DEF Trees
  <2>. QED BY <2>1, <2>2, <2>3
<1>7. A \in Trees(E) /\ B \in Trees(E) \ {A}
  BY <1>1, <1>5 DEF Trees
<1>8. A \cup B \notin (Trees(E) \ {A}) \ {B}
  <2>1. SUFFICES ASSUME A \cup B \in Trees(E) PROVE FALSE
    OBVIOUS
  <2>2. PICK x \in Vertices : A \cup B = Component(x, E)
    BY <2>1 DEF Trees
  <2>3. A = A \cup B
    BY <1>1, <1>3, <2>2
  <2>. QED BY <1>1, <2>3
<1>9. IsFiniteSet(Trees(E)) /\ Cardinality(Trees(E)) \in Nat
  BY Sizes, FS_CardinalityType
<1>10. Cardinality(((Trees(E) \ {A}) \ {B}) \cup {A \cup B}) = Cardinality(Trees(E)) - 1
  <2>. DEFINE S == Trees(E)
              C == A \cup B
  <2>1. IsFiniteSet(S) /\ A \in S /\ B \in S \ {A} /\ C \notin (S \ {A}) \ {B}
    BY <1>7, <1>8, <1>9
  <2>. HIDE DEF A, B, S, C
  <2>2. Cardinality(((S \ {A}) \ {B}) \cup {C}) = Cardinality(S) - 1
    BY <2>1, TwoForOne
  <2>. QED BY <2>2 DEF S, C
<1>. QED BY <1>6, <1>10
-----------------------------------------------------------------------------
Fits(E) == Cardinality(Joins(E)) = Cardinality(Trees({})) - Cardinality(Trees(E))

(* Each edge of a forest leaves one tree less.                               *)
LEMMA ForestCount ==
  ASSUME MInv, phase # "alteration", NEW E, Sparse(E)
  PROVE  IsFiniteSet(E) /\ IsFiniteSet(Joins(E)) /\ Fits(E)
<1>. DEFINE T == {D \in SUBSET E : ~(IsFiniteSet(Joins(D)) /\ Fits(D))}
<1>1. E \in SUBSET Pairs /\ E \subseteq DOMAIN weights /\ Inputs
  BY InputFacts DEF Sparse, MInv, IInv
<1>2. IsFiniteSet(E)
  BY <1>1, Sizes, FS_Subset
<1>3. SUFFICES ASSUME T # {} PROVE FALSE
  BY <1>2
<1>4. PICK D \in T : \A C \in T : C \subseteq D => C = D
  <2>. HIDE DEF T
  <2>1. T \subseteq SUBSET E
    BY DEF T
  <2>. QED BY <1>2, <1>3, <2>1, SmallestSet
<1>5. D \subseteq DOMAIN weights /\ D \in SUBSET Pairs
  BY <1>1
<1>6. D # {}
  <2>1. SUFFICES ASSUME D = {} PROVE FALSE
    OBVIOUS
  <2>2. Joins({}) = {} /\ Cardinality(Trees({})) \in Int
    BY Sizes DEF Joins
  <2>3. IsFiniteSet(Joins({})) /\ Fits({})
    BY <2>2, FS_EmptySet DEF Fits
  <2>. QED BY <2>1, <2>3
<1>7. PICK e \in D : \A f \in D : altered[f] <= altered[e]
  BY <1>5, <1>6, HeaviestEdge
<1>. DEFINE R == D \ {e, Reverse(e)}
<1>8. IsFiniteSet(Joins(R)) /\ Fits(R)
  <2>1. R # D /\ R \subseteq D /\ R \in SUBSET E
    OBVIOUS
  <2>. QED BY <1>4, <2>1
<1>9. R \subseteq Under(altered[e])
  <2>1. SUFFICES ASSUME NEW f \in R PROVE f \in DOMAIN weights /\ altered[f] < altered[e]
    BY DEF Under
  <2>2. f \in DOMAIN weights /\ e \in DOMAIN weights /\ altered[f] <= altered[e]
    BY <1>5, <1>7
  <2>3. altered[e] # altered[f]
    BY <2>2 DEF MInv, Distinct
  <2>4. altered[f] \in Int /\ altered[e] \in Int
    BY <2>2 DEF MInv, IInv, TypeOK
  <2>. QED BY <2>2, <2>3, <2>4
<1>10. e[2] \notin Component(e[1], R)
  <2>1. Component(e[1], R) \subseteq Component(e[1], Under(altered[e]))
    BY <1>9, ComponentGrows
  <2>. QED BY <2>1 DEF Sparse
<1>11. Cardinality(Trees(D)) = Cardinality(Trees(R)) - 1
  <2>1. R \in SUBSET Pairs /\ R \subseteq D /\ \A f \in D : f \in R \/ f \in {e, Reverse(e)}
    BY <1>5
  <2>. HIDE DEF R
  <2>. QED BY <1>1, <1>5, <1>10, <2>1, OneTreeLess
<1>12. Joins(D) = Joins(R) \cup {{e[1], e[2]}}
  <2>1. Reverse(e)[1] = e[2] /\ Reverse(e)[2] = e[1]
    BY DEF Reverse
  <2>. QED BY <2>1 DEF Joins
<1>13. {e[1], e[2]} \notin Joins(R)
  <2>1. SUFFICES ASSUME NEW f \in R, {f[1], f[2]} = {e[1], e[2]} PROVE FALSE
    BY DEF Joins
  <2>2. f = <<f[1], f[2]>> /\ e = <<e[1], e[2]>>
    BY <1>5 DEF Pairs
  <2>3. \/ f[1] = e[1] /\ f[2] = e[2]
        \/ f[1] = e[2] /\ f[2] = e[1]
    BY <2>1
  <2>. QED BY <2>2, <2>3 DEF Reverse
<1>14. /\ IsFiniteSet(Joins(D))
       /\ Cardinality(Joins(D)) = Cardinality(Joins(R)) + 1
  <2>. DEFINE J == Joins(R)
              c == {e[1], e[2]}
  <2>1. IsFiniteSet(J) /\ c \notin J /\ Joins(D) = J \cup {c}
    BY <1>8, <1>12, <1>13
  <2>. HIDE DEF J, c
  <2>2. IsFiniteSet(J \cup {c}) /\ Cardinality(J \cup {c}) = Cardinality(J) + 1
    BY <2>1, FS_AddElement
  <2>. QED BY <2>1, <2>2 DEF J
<1>15. \A F : Cardinality(Trees(F)) \in Int
  BY Sizes
<1>16. Fits(D)
  <2>1. Cardinality(Joins(R)) = Cardinality(Trees({})) - Cardinality(Trees(R))
    BY <1>8 DEF Fits
  <2>. QED BY <2>1, <1>11, <1>14, <1>15 DEF Fits
<1>. QED BY <1>4, <1>14, <1>16

(* The set has an edge in one direction, or in both when it is symmetrized.  *)
Once(E) == \A e \in E : IF symmetrize THEN Reverse(e) \in E ELSE Reverse(e) \notin E

LEMMA OnceCount ==
  ASSUME MInv, phase # "alteration", NEW E, Sparse(E), Once(E)
  PROVE  /\ Cardinality(Joins(E)) \in 0..(V - 1)
         /\ Cardinality(E) = IF symmetrize THEN 2 * Cardinality(Joins(E))
                                           ELSE Cardinality(Joins(E))
<1>1. /\ E \in SUBSET Pairs /\ IsFiniteSet(E) /\ IsFiniteSet(Joins(E)) /\ Fits(E)
  BY InputFacts, ForestCount DEF Sparse, MInv, IInv
<1>2. ASSUME NEW e \in E
      PROVE  /\ e[1] \in Nat /\ e[2] \in Nat /\ e[1] # e[2] /\ e = <<e[1], e[2]>>
             /\ Reverse(e) = <<e[2], e[1]>>
  <2>1. e[1] \in Vertices /\ e[2] \in Vertices /\ e = <<e[1], e[2]>>
    BY <1>1 DEF Pairs
  <2>2. e[1] \in Component(e[1], Under(altered[e]))
    BY <2>1, ComponentBasics
  <2>. QED BY <2>1, <2>2, VertexFacts DEF Sparse, Reverse
<1>3. ASSUME NEW e \in E, NEW f \in E, {e[1], e[2]} = {f[1], f[2]}
      PROVE  f \in {e, Reverse(e)}
  <2>1. \/ f[1] = e[1] /\ f[2] = e[2]
        \/ f[1] = e[2] /\ f[2] = e[1]
    BY <1>3
  <2>. QED BY <2>1, <1>2
<1>4. Cardinality(Joins(E)) \in 0..(V - 1)
  <2>1. Cardinality(Joins(E)) \in Nat
    BY <1>1, FS_CardinalityType
  <2>2. Cardinality(Trees({})) \in 1..V /\ Cardinality(Trees(E)) \in 1..V
    BY Sizes
  <2>. QED BY <1>1, <2>1, <2>2, VAssumption DEF Fits
<1>5. CASE ~symmetrize
  <2>. DEFINE h == [e \in E |-> {e[1], e[2]}]
  <2>1. h \in [E -> Joins(E)] /\ \A t \in Joins(E) : \E e \in E : h[e] = t
    BY DEF Joins
  <2>2. \A e, f \in E : h[e] = h[f] => e = f
    BY <1>3, <1>5 DEF Once
  <2>3. Cardinality(Joins(E)) = Cardinality(E)
    <3>. HIDE DEF h
    <3>. QED BY <1>1, <2>1, <2>2, SameSize
  <2>. QED BY <1>4, <1>5, <2>3
<1>6. CASE symmetrize
  <2>. DEFINE Up == {e \in E : e[1] < e[2]}
              Down == {e \in E : e[2] < e[1]}
              h == [e \in Up |-> {e[1], e[2]}]
              g == [e \in Up |-> Reverse(e)]
  <2>1. \A e \in E : /\ Reverse(e) \in E /\ Reverse(Reverse(e)) = e
                     /\ Reverse(e)[1] = e[2] /\ Reverse(e)[2] = e[1]
    BY <1>2, <1>6 DEF Once, Reverse
  <2>2. E = Up \cup Down /\ Up \cap Down = {}
    BY <1>2
  <2>3. IsFiniteSet(Up) /\ IsFiniteSet(Down)
    BY <1>1, FS_Subset
  <2>4. Cardinality(Joins(E)) = Cardinality(Up)
    <3>1. h \in [Up -> Joins(E)]
      BY DEF Joins
    <3>2. ASSUME NEW t \in Joins(E) PROVE \E e \in Up : h[e] = t
      <4>1. PICK e \in E : t = {e[1], e[2]}
        BY DEF Joins
      <4>2. CASE e \in Up
        BY <4>1, <4>2
      <4>3. CASE e \in Down
        <5>1. Reverse(e) \in Up
          BY <2>1, <4>3
        <5>2. h[Reverse(e)] = t
          BY <2>1, <4>1, <5>1
        <5>. QED BY <5>1, <5>2
      <4>. QED BY <2>2, <4>2, <4>3
    <3>3. ASSUME NEW e \in Up, NEW f \in Up, h[e] = h[f] PROVE e = f
      <4>1. {e[1], e[2]} = {f[1], f[2]}
        BY <3>3
      <4>2. f = e \/ f = Reverse(e)
        BY <1>3, <4>1
      <4>. QED BY <1>2, <2>1, <4>2
    <3>. HIDE DEF h, Up
    <3>. QED BY <2>3, <3>1, <3>2, <3>3, SameSize
  <2>5. Cardinality(Down) = Cardinality(Up)
    <3>1. g \in [Up -> Down]
      BY <2>1
    <3>2. ASSUME NEW t \in Down PROVE \E e \in Up : g[e] = t
      <4>1. Reverse(t) \in Up /\ Reverse(Reverse(t)) = t
        BY <2>1
      <4>. QED BY <4>1
    <3>3. ASSUME NEW e \in Up, NEW f \in Up, g[e] = g[f] PROVE e = f
      <4>1. Reverse(e) = Reverse(f)
        BY <3>3
      <4>. QED BY <2>1, <4>1
    <3>. HIDE DEF g, Up, Down
    <3>. QED BY <2>3, <3>1, <3>2, <3>3, SameSize
  <2>6. Cardinality(E) = Cardinality(Up) + Cardinality(Down) - 0
    <3>. HIDE DEF Up, Down
    <3>. QED BY <2>2, <2>3, FS_Union, FS_EmptySet
  <2>. QED BY <1>4, <1>6, <2>4, <2>5, <2>6
<1>. QED BY <1>4, <1>5, <1>6

-----------------------------------------------------------------------------
(* What a round adds to the forest. *)

Fresh == {e \in Pairs : Found(e) # 0}

LEMMA RoundFacts ==
  ASSUME MInv, phase = "check"
  PROVE  /\ Sparse(Chosen \cup Fresh) /\ Once(Chosen) /\ Once(Chosen \cup Fresh)
         /\ IsFiniteSet(Fresh) /\ AllFound = Cardinality(Fresh)
         /\ \A e \in Fresh : {e[1], e[2]} \notin Joins(Chosen)
         /\ Chosen \cap Fresh = {}
<1>1. \A e \in Pairs : /\ e[1] \in Vertices /\ e[2] \in Vertices /\ e = <<e[1], e[2]>>
                       /\ Reverse(e) = <<e[2], e[1]>> /\ Reverse(e) \in Pairs
                       /\ Reverse(e)[1] = e[2] /\ Reverse(e)[2] = e[1]
  BY DEF Pairs, Reverse
<1>2. IInv
  BY DEF MInv
<1>3. \A e \in Pairs : Found(e) = IF Picked(e[1], e[2]) \/ (symmetrize /\ Picked(e[2], e[1]))
                                    THEN 1 ELSE 0
  BY <1>1, <1>2, FoundFacts
<1>4. ASSUME NEW e \in Fresh
      PROVE  /\ e \in Pairs /\ Found(e) = 1 /\ (Picked(e[1], e[2]) \/ Picked(e[2], e[1]))
             /\ symmetrize => Reverse(e) \in Fresh
  BY <1>1, <1>3 DEF Fresh
<1>5. ASSUME NEW e \in Fresh
      PROVE  /\ e \notin Chosen /\ Reverse(e) \notin Chosen
             /\ ~symmetrize => Reverse(e) \notin Fresh
  <2>1. e \in Pairs /\ e = <<e[1], e[2]>> /\ Reverse(e) = <<e[2], e[1]>>
        /\ e[1] \in Vertices /\ e[2] \in Vertices /\ Reverse(e) \in Pairs
    BY <1>1, <1>4
  <2>2. result[e] = 0 /\ result[Reverse(e)] = 0
    <3>1. CASE Picked(e[1], e[2])
      <4>1. result[<<e[1], e[2]>>] = 0 /\ result[<<e[2], e[1]>>] = 0
        BY <1>2, <2>1, <3>1, PickedFacts
      <4>. QED BY <2>1, <4>1
    <3>2. CASE Picked(e[2], e[1])
      <4>1. result[<<e[1], e[2]>>] = 0 /\ result[<<e[2], e[1]>>] = 0
        BY <1>2, <2>1, <3>2, PickedFacts
      <4>. QED BY <2>1, <4>1
    <3>. QED BY <1>4, <3>1, <3>2
  <2>3. ASSUME ~symmetrize PROVE Reverse(e) \notin Fresh
    <3>1. Picked(e[1], e[2])
      BY <1>3, <2>1, <2>3 DEF Fresh
    <3>2. ~Picked(e[2], e[1])
      BY <1>2, <2>1, <2>3, <3>1, PickedFacts
    <3>. QED BY <1>1, <1>3, <2>1, <2>3, <3>2 DEF Fresh
  <2>. QED BY <2>2, <2>3 DEF Chosen
<1>6. ASSUME NEW e \in Chosen
      PROVE  /\ e \in Pairs
             /\ IF symmetrize THEN Reverse(e) \in Chosen ELSE Reverse(e) \notin Chosen
  <2>1. e \in Pairs /\ Reverse(e) \in Pairs /\ result[e] > 0
    BY <1>1 DEF Chosen
  <2>2. IF symmetrize THEN result[e] \in {0, 1} /\ result[e] = result[Reverse(e)]
                      ELSE result[e] + result[Reverse(e)] \in {0, 1}
    BY <1>2, <2>1 DEF IInv, EdgesOnce
  <2>3. result[e] \in Nat /\ result[Reverse(e)] \in Nat
    BY <1>2, <2>1 DEF IInv, TypeOK
  <2>. QED BY <2>1, <2>2, <2>3 DEF Chosen
<1>7. Once(Chosen)
  BY <1>6 DEF Once
<1>8. Once(Chosen \cup Fresh)
  <2>1. ASSUME NEW e \in Chosen, ~symmetrize PROVE Reverse(e) \notin Fresh
    <3>1. Reverse(Reverse(e)) = e
      BY <1>1, <1>6 DEF Reverse
    <3>. QED BY <1>5, <3>1
  <2>. QED BY <1>4, <1>5, <1>6, <2>1 DEF Once
<1>9. Sparse(Chosen \cup Fresh)
  <2>1. ASSUME NEW e \in Fresh
        PROVE  e \in DOMAIN weights /\ e[2] \notin Component(e[1], Under(altered[e]))
    <3>1. PICK a \in Vertices, b \in Vertices : e = <<a, b>>
      BY <1>1, <1>4
    <3>2. Picked(a, b) \/ Picked(b, a)
      BY <1>4, <3>1
    <3>3. <<a, b>> \in DOMAIN weights /\ b \notin Component(a, Under(altered[<<a, b>>]))
      BY <3>2, PickedMinimal
    <3>. QED BY <3>1, <3>3
  <2>. QED BY <2>1 DEF MInv, Minimal, Sparse
<1>10. ASSUME NEW e \in Fresh PROVE {e[1], e[2]} \notin Joins(Chosen)
  <2>1. SUFFICES ASSUME NEW f \in Chosen, {f[1], f[2]} = {e[1], e[2]} PROVE FALSE
    BY DEF Joins
  <2>2. f = <<f[1], f[2]>> /\ e = <<e[1], e[2]>>
    BY <1>1, <1>4, <1>6
  <2>3. \/ f[1] = e[1] /\ f[2] = e[2]
        \/ f[1] = e[2] /\ f[2] = e[1]
    BY <2>1
  <2>4. f = e \/ f = Reverse(e)
    BY <2>2, <2>3 DEF Reverse
  <2>. QED BY <1>5, <2>4
<1>11. IsFiniteSet(Fresh)
  BY Sizes, FS_Subset DEF Fresh
<1>12. AllFound = Cardinality(Fresh)
  <2>. DEFINE Slots == {1, 2} \X Vertices
              Hits == {s \in Slots : temp[s] # None}
              h == [s \in Hits |-> temp[s]]
  <2>1. ASSUME NEW s \in Hits PROVE temp[s] \in Pairs /\ Found(temp[s]) # 0
    <3>1. temp[s] \in Pairs
      BY <1>2, InputFacts DEF IInv, TypeOK
    <3>2. {r \in Slots : temp[r] = temp[s]} # {}
      OBVIOUS
    <3>3. IsFiniteSet({r \in Slots : temp[r] = temp[s]})
      BY VertexFacts, FS_Subset
    <3>. QED BY <3>1, <3>2, <3>3, FS_EmptySet DEF Found
  <2>2. h \in [Hits -> Fresh]
    BY <2>1 DEF Fresh
  <2>3. ASSUME NEW e \in Fresh PROVE \E s \in Slots : {r \in Slots : temp[r] = e} = {s}
    <3>. DEFINE R == {r \in Slots : temp[r] = e}
    <3>1. IsFiniteSet(R)
      BY VertexFacts, FS_Subset
    <3>2. Cardinality(R) = 1
      BY <1>4 DEF Found
    <3>3. PICK s : R = {s}
      <4>. HIDE DEF R
      <4>. QED BY <3>1, <3>2, FS_Singleton
    <3>. QED BY <3>3
  <2>4. \A e \in Fresh : \E s \in Hits : h[s] = e
    <3>1. \A e \in Fresh : e # None
      BY NoneAssumption DEF Fresh
    <3>. QED BY <2>3, <3>1
  <2>5. \A s, r \in Hits : h[s] = h[r] => s = r
    <3>1. SUFFICES ASSUME NEW s \in Hits, NEW r \in Hits, temp[s] = temp[r] PROVE s = r
      OBVIOUS
    <3>2. temp[s] \in Fresh
      BY <2>1 DEF Fresh
    <3>. QED BY <2>3, <3>1, <3>2
  <2>6. IsFiniteSet(Hits)
    BY VertexFacts, FS_Subset
  <2>7. Cardinality(Fresh) = Cardinality(Hits)
    <3>. HIDE DEF h, Hits
    <3>. QED BY <2>2, <2>4, <2>5, <2>6, SameSize
  <2>. QED BY <2>7 DEF AllFound
<1>. QED BY <1>5, <1>7, <1>8, <1>9, <1>10, <1>11, <1>12
-----------------------------------------------------------------------------
(* The host counts what the output holds, and has as many joins as rounds:   *)
(* without a limit the rounds are not used up, and the forest is complete.   *)

Counted ==
  /\ phase # "failed"
  /\ count = Cardinality(Chosen)
  /\ Once(Chosen)
  /\ phase \in {"alteration", "min_edge", "pick", "check"} =>
       prev = count /\ i <= Cardinality(Joins(Chosen))
  /\ phase \in {"propagate", "final"} => i + 1 <= Cardinality(Joins(Chosen))

Spanning == phase = "done" /\ iterations = 0 => \A e \in DOMAIN weights : e[2] \in Tree(e[1])

FInv == MInv /\ Counted /\ Spanning

LEMMA InitForest == ASSUME Init PROVE FInv
<1>1. MInv
  BY InitMinimal
<1>2. Chosen = {} /\ phase = "alteration" /\ count = 0 /\ prev = 0 /\ i = 0
  BY DEF Init, Chosen
<1>3. Joins({}) = {}
  BY DEF Joins
<1>. QED BY <1>1, <1>2, <1>3, FS_EmptySet DEF FInv, Counted, Spanning, Once

(* When nothing is found, no edge leads from one color to another.           *)
LEMMA NothingFound ==
  ASSUME MInv, phase = "check", Fresh = {}, NEW f \in DOMAIN weights
  PROVE  f[2] \in Tree(f[1])
<1>1. f[1] \in Vertices /\ f[2] \in Vertices
  BY InputFacts DEF MInv, IInv, Pairs
<1>2. Color(f[1]) = Color(f[2])
  <2>1. SUFFICES ASSUME Color(f[1]) # Color(f[2]) PROVE FALSE
    OBVIOUS
  <2>2. PICK x \in Vertices : old[x] # None /\ Light(x)
    BY <2>1 DEF MInv, Lightness
  <2>3. old[x] \in Vertices
    BY <2>2 DEF MInv, IInv, Picking
  <2>4. ASSUME NEW z \in Vertices, Kept(z), old[z] \in Vertices PROVE FALSE
    <3>1. Picked(z, old[z])
      BY <2>4 DEF MInv, IInv, Picking, Picked
    <3>2. Found(<<z, old[z]>>) # 0 /\ <<z, old[z]>> \in Pairs
      BY <2>4, <3>1, FoundFacts DEF MInv, Pairs
    <3>. QED BY <3>2 DEF Fresh
  <2>5. Left(x)
    BY <2>2, <2>3, <2>4 DEF Kept
  <2>6. old[old[x]] = x /\ Light(old[x]) /\ Color(x) > Color(old[x])
    BY <2>5 DEF Left
  <2>7. Color(x) \in Int /\ Color(old[x]) \in Int
    BY <2>3, VertexFacts DEF Color, MInv, IInv, TypeOK
  <2>8. ~Left(old[x])
    BY <2>6, <2>7 DEF Left
  <2>9. Kept(old[x])
    BY <2>6, <2>8, VertexFacts DEF Kept
  <2>. QED BY <2>3, <2>4, <2>6, <2>9
<1>3. color_index[f[1]] \in Tree(f[1]) /\ color_index[f[1]] \in Tree(f[2])
  BY <1>1, <1>2 DEF MInv, IInv, Sound, Settled
<1>4. Tree(f[1]) = Tree(f[2])
  BY <1>1, <1>3, TreeFacts DEF MInv, IInv
<1>. QED BY <1>1, <1>4, TreeFacts DEF MInv, IInv

LEMMA CheckTerminationForest ==
  ASSUME FInv, CheckTermination PROVE Counted' /\ Spanning'
<1>1. /\ phase = "check" /\ count' = count + AllFound
      /\ IF count' > MaxEdges
           THEN phase' = "failed" /\ result' = result
         ELSE IF count' = prev
           THEN phase' = "done" /\ result' = result
         ELSE /\ phase' = "propagate"
              /\ result' = [e \in Pairs |-> result[e] + Found(e)]
      /\ UNCHANGED <<weights, symmetrize, iterations, given, prev, i>>
  BY DEF CheckTermination, input
<1>. DEFINE E == Chosen \cup Fresh
<1>2. MInv /\ count = Cardinality(Chosen) /\ prev = count
      /\ i <= Cardinality(Joins(Chosen)) /\ i \in Nat
  BY <1>1 DEF FInv, Counted, MInv, IInv, TypeOK
<1>3. /\ Sparse(E) /\ Once(Chosen) /\ Once(E) /\ IsFiniteSet(Fresh)
      /\ AllFound = Cardinality(Fresh) /\ Chosen \cap Fresh = {}
      /\ \A e \in Fresh : {e[1], e[2]} \notin Joins(Chosen)
  BY <1>1, <1>2, RoundFacts
<1>4. /\ IsFiniteSet(E) /\ IsFiniteSet(Joins(E))
      /\ IsFiniteSet(Chosen) /\ IsFiniteSet(Joins(Chosen))
  BY <1>1, <1>2, <1>3, ForestCount DEF MInv, Minimal
<1>5. count' = Cardinality(E)
  <2>1. Cardinality(E) = Cardinality(Chosen) + Cardinality(Fresh) - 0
    BY <1>3, <1>4, FS_Union, FS_EmptySet
  <2>2. Cardinality(Chosen) \in Nat /\ Cardinality(Fresh) \in Nat
    BY <1>3, <1>4, FS_CardinalityType
  <2>. QED BY <1>1, <1>2, <1>3, <2>1, <2>2
<1>6. /\ Cardinality(Joins(E)) \in 0..(V - 1)
      /\ count' = IF symmetrize THEN 2 * Cardinality(Joins(E)) ELSE Cardinality(Joins(E))
  <2>. HIDE DEF E
  <2>. QED BY <1>1, <1>2, <1>3, <1>5, OnceCount
<1>7. ~(count' > MaxEdges)
  <2>1. CASE symmetrize
    BY <2>1, <1>6, VAssumption DEF MaxEdges
  <2>2. CASE ~symmetrize
    BY <2>2, <1>6, VAssumption DEF MaxEdges
  <2>. QED BY <2>1, <2>2
<1>8. CASE count' = prev
  <2>1. phase' = "done" /\ result' = result
    BY <1>1, <1>7, <1>8
  <2>2. Chosen' = Chosen /\ \A x : Tree(x)' = Tree(x)
    BY <1>1, <2>1, TreeStable
  <2>3. Fresh = {}
    <3>1. Cardinality(Fresh) \in Nat /\ Cardinality(Chosen) \in Nat
      BY <1>3, <1>4, FS_CardinalityType
    <3>2. Cardinality(Fresh) = 0
      BY <1>1, <1>2, <1>3, <1>8, <3>1
    <3>. QED BY <1>3, <3>2, FS_EmptySet
  <2>4. \A e \in DOMAIN weights : e[2] \in Tree(e[1])
    BY <1>1, <1>2, <2>3, NothingFound
  <2>5. Counted'
    BY <1>1, <1>2, <1>3, <1>8, <2>1, <2>2 DEF Counted, Once
  <2>6. Spanning'
    BY <1>1, <2>2, <2>4 DEF Spanning
  <2>. QED BY <2>5, <2>6
<1>9. CASE count' # prev
  <2>1. phase' = "propagate" /\ result' = [e \in Pairs |-> result[e] + Found(e)]
    BY <1>1, <1>7, <1>9
  <2>2. Chosen' = E
    <3>1. ASSUME NEW e \in Pairs PROVE result[e] \in Nat /\ Found(e) \in Nat
      <4>1. IsFiniteSet({s \in {1, 2} \X Vertices : temp[s] = e})
        BY VertexFacts, FS_Subset
      <4>. QED BY <1>2, <4>1, FS_CardinalityType DEF Found, MInv, IInv, TypeOK
    <3>2. \A e \in Pairs : result'[e] > 0 <=> result[e] > 0 \/ Found(e) # 0
      BY <2>1, <3>1
    <3>. QED BY <3>2 DEF Chosen, Fresh
  <2>3. PICK e \in Fresh : TRUE
    <3>1. Fresh # {}
      <4>1. SUFFICES ASSUME Fresh = {} PROVE FALSE
        OBVIOUS
      <4>2. E = Chosen
        BY <4>1
      <4>. QED BY <1>2, <1>5, <1>9, <4>2
    <3>. QED BY <3>1
  <2>4. Joins(Chosen) \subseteq Joins(E) /\ {e[1], e[2]} \in Joins(E)
    BY DEF Joins
  <2>5. Joins(Chosen) # Joins(E)
    BY <1>3, <2>4
  <2>6. /\ Cardinality(Joins(Chosen)) <= Cardinality(Joins(E))
        /\ Cardinality(Joins(Chosen)) # Cardinality(Joins(E))
        /\ Cardinality(Joins(Chosen)) \in Nat /\ Cardinality(Joins(E)) \in Nat
    <3>. HIDE DEF E
    <3>. QED BY <1>4, <2>4, <2>5, FS_Subset, FS_CardinalityType
  <2>7. i + 1 <= Cardinality(Joins(E))
    BY <1>2, <2>6
  <2>8. Joins(Chosen)' = Joins(E)
    BY <2>2 DEF Joins
  <2>9. Counted'
    BY <1>1, <1>3, <1>5, <2>1, <2>2, <2>7, <2>8 DEF Counted, Once
  <2>. QED BY <2>1, <2>9 DEF Spanning
<1>. QED BY <1>8, <1>9

LEMMA EndRoundForest ==
  ASSUME FInv, EndRound PROVE Counted' /\ Spanning'
<1>1. /\ phase = "final" /\ prev' = count /\ i' = i + 1
      /\ phase' = IF i + 1 < Limit THEN "min_edge" ELSE "done"
      /\ UNCHANGED <<weights, symmetrize, iterations, given, result, count>>
  BY DEF EndRound, input
<1>2. Chosen' = Chosen /\ Joins(Chosen)' = Joins(Chosen)
  BY <1>1, TreeStable DEF Joins
<1>3. MInv /\ Counted
  BY DEF FInv
<1>4. Counted'
  BY <1>1, <1>2, <1>3 DEF Counted, Once
<1>5. Spanning'
  <2>1. Cardinality(Joins(Chosen)) \in 0..(V - 1)
    BY <1>1, <1>3, OnceCount DEF MInv, Minimal, Counted
  <2>2. i + 1 <= Cardinality(Joins(Chosen)) /\ i \in Nat
    BY <1>1, <1>3 DEF Counted, MInv, IInv, TypeOK
  <2>3. iterations = 0 => phase' = "min_edge"
    BY <1>1, <2>1, <2>2, VAssumption DEF Limit
  <2>. QED BY <1>1, <2>3 DEF Spanning
<1>. QED BY <1>4, <1>5

(* The other steps neither count nor find an edge. *)
LEMMA OthersForest ==
  ASSUME FInv, UNCHANGED <<weights, symmetrize, iterations, given, result, count, prev, i>>,
         \/ phase' = phase
         \/ phase \in {"alteration", "min_edge", "pick"} /\ phase' \in {"min_edge", "pick", "check"}
         \/ phase = "propagate" /\ phase' = "final"
  PROVE  Counted' /\ Spanning'
<1>1. Chosen' = Chosen /\ Joins(Chosen)' = Joins(Chosen) /\ \A x : Tree(x)' = Tree(x)
  BY TreeStable DEF Joins
<1>2. Counted'
  BY <1>1 DEF FInv, Counted, Once
<1>3. Spanning'
  BY <1>1 DEF FInv, Spanning
<1>. QED BY <1>2, <1>3

LEMMA NextForest == FInv /\ [Next]_vars => FInv'
<1>. SUFFICES ASSUME FInv, [Next]_vars PROVE FInv'
  OBVIOUS
<1>1. MInv'
  BY NextMinimal DEF FInv
<1>2. CASE CheckTermination
  BY <1>1, <1>2, CheckTerminationForest DEF FInv
<1>3. CASE EndRound
  BY <1>1, <1>3, EndRoundForest DEF FInv
<1>4. CASE Alteration \/ MinEdgePerVertex \/ AddReverse
  BY <1>1, <1>4, OthersForest DEF FInv, Alteration, MinEdgePerVertex, AddReverse, input, output
<1>5. CASE Propagate
  BY <1>1, <1>5, OthersForest DEF FInv, Propagate, input, output
<1>6. ASSUME NEW x \in Vertices, Thread(x) PROVE FInv'
  BY <1>1, <1>6, OthersForest DEF FInv, Thread, Pick, FinalStep, input, output
<1>7. CASE UNCHANGED vars
  BY <1>1, <1>7, OthersForest DEF FInv, vars, input, output
<1>. QED BY <1>2, <1>3, <1>4, <1>5, <1>6, <1>7 DEF Next, Host

THEOREM ForestInvariant == Spec => []FInv
<1>1. Init => FInv
  BY InitForest
<1>. QED BY <1>1, NextForest, PTL DEF Spec

-----------------------------------------------------------------------------
(* The ends of an edge of the graph are joined by edges of the forest that   *)
(* are no heavier: the heaviest one on the way would have its ends joined by *)
(* lighter edges, the rest of the way and the edge of the graph.             *)
LEMMA Bottleneck ==
  ASSUME MInv, phase # "alteration", NEW e \in DOMAIN weights, e[2] \in Tree(e[1])
  PROVE  e[2] \in Component(e[1], {f \in Chosen : altered[f] <= altered[e]})
<1>. DEFINE Low == {f \in Chosen : altered[f] <= altered[e]}
            T == {D \in SUBSET Chosen : e[2] \in Component(e[1], D)}
<1>1. SUFFICES ASSUME e[2] \notin Component(e[1], Low) PROVE FALSE
  OBVIOUS
<1>2. /\ Inputs /\ Sparse(Chosen) /\ IsFiniteSet(Chosen)
      /\ Chosen \subseteq DOMAIN weights /\ DOMAIN weights \subseteq Pairs
      /\ e[1] \in Vertices /\ e[2] \in Vertices
      /\ \A f \in DOMAIN weights : altered[f] \in Int
  BY ForestCount, InputFacts DEF MInv, IInv, Minimal, Sparse, TypeOK, Pairs
<1>3. PICK D \in T : \A C \in T : C \subseteq D => C = D
  <2>1. Chosen \in T
    BY DEF Tree
  <2>. HIDE DEF T
  <2>2. T \subseteq SUBSET Chosen
    BY DEF T
  <2>. QED BY <1>2, <2>1, <2>2, SmallestSet
<1>4. PICK f \in D : ~(altered[f] <= altered[e])
  <2>1. SUFFICES ASSUME D \subseteq Low PROVE FALSE
    BY <1>3
  <2>2. Component(e[1], D) \subseteq Component(e[1], Low)
    BY <2>1, ComponentGrows
  <2>. QED BY <1>1, <1>3, <2>2
<1>5. PICK m \in D : \A g \in D : altered[g] <= altered[m]
  <2>1. D \subseteq DOMAIN weights /\ D # {}
    BY <1>2, <1>3, <1>4
  <2>. QED BY <2>1, HeaviestEdge
<1>6. /\ m \in Chosen /\ m \in DOMAIN weights /\ altered[e] < altered[m]
      /\ m[1] \in Vertices /\ m[2] \in Vertices
  BY <1>2, <1>3, <1>4, <1>5 DEF Pairs
<1>. DEFINE R == D \ {m, Reverse(m)}
            U == Under(altered[m])
            A == Component(m[1], R)
            B == Component(m[2], R)
<1>7. R \subseteq U /\ e \in U /\ U \in SUBSET Pairs
  <2>1. ASSUME NEW g \in R PROVE g \in U
    <3>1. g \in DOMAIN weights /\ altered[g] <= altered[m] /\ altered[m] # altered[g]
      BY <1>2, <1>3, <1>5, <1>6 DEF MInv, Distinct
    <3>. QED BY <1>2, <1>6, <3>1 DEF Under
  <2>. QED BY <2>1, <1>2, <1>6 DEF Under
<1>8. e[2] \notin Component(e[1], R)
  <2>1. R \in SUBSET Chosen /\ R \subseteq D /\ R # D
    BY <1>3
  <2>. QED BY <1>3, <2>1
<1>9. \A x \in Vertices : Component(x, D) = IF x \in A \cup B THEN A \cup B ELSE Component(x, R)
  <2>1. /\ R \in SUBSET Pairs /\ D \in SUBSET Pairs /\ R \subseteq D
        /\ \A g \in D : g \in R \/ g \in {m, Reverse(m)}
    BY <1>2, <1>3
  <2>. HIDE DEF R
  <2>. QED BY <1>2, <2>1, OneEdge
<1>10. e[1] \in A \cup B /\ e[2] \in A \cup B
  <2>1. e[1] \in A \cup B
    BY <1>2, <1>3, <1>8, <1>9
  <2>. QED BY <1>2, <1>3, <1>9, <2>1
<1>11. A \subseteq Component(m[1], U) /\ B \subseteq Component(m[2], U)
  BY <1>7, ComponentGrows
<1>12. Component(e[1], U) = Component(e[2], U)
  BY <1>2, <1>7, ComponentEdges, SameComponent
<1>13. ~(e[1] \in A /\ e[2] \in A) /\ ~(e[1] \in B /\ e[2] \in B)
  <2>1. R \in SUBSET Pairs
    BY <1>2, <1>3
  <2>2. \A x \in Vertices, y \in Vertices : y \in Component(x, R) => Component(y, R) = Component(x, R)
    BY <1>2, <2>1, SameComponent
  <2>. QED BY <1>2, <1>6, <1>8, <2>2
<1>14. Component(m[1], U) = Component(m[2], U)
  <2>1. \A x \in Vertices, y \in Vertices : y \in Component(x, U) => Component(y, U) = Component(x, U)
    BY <1>2, <1>7, SameComponent
  <2>. QED BY <1>2, <1>6, <1>10, <1>11, <1>12, <1>13, <2>1
<1>15. m[2] \in Component(m[1], U)
  BY <1>6, <1>14, ComponentBasics
<1>. QED BY <1>2, <1>6, <1>15 DEF Sparse

(* Whatever the weights, the noise and the order of the threads, the number  *)
(* of edges is never found invalid, the edges never close a cycle, and       *)
(* without a limit on the rounds they join whatever the graph joins.         *)
SpanningForest ==
  /\ phase # "failed"
  /\ phase = "propagate" => NoCycle
  /\ phase = "done" /\ iterations = 0 =>
       \A e \in DOMAIN weights : e[2] \in Component(e[1], Chosen)

THEOREM SpanningCorrect == Spec => []SpanningForest
<1>1. FInv => SpanningForest
  <2>1. ASSUME FInv, phase = "propagate" PROVE NoCycle
    <3>1. Fits(Chosen)
      BY <2>1, ForestCount DEF FInv, MInv, Minimal
    <3>. QED BY <3>1 DEF Fits, NoCycle, Joins, Trees
  <2>. QED BY <2>1 DEF FInv, Counted, Spanning, SpanningForest, Tree
<1>. QED BY <1>1, ForestInvariant, PTL

(* When weights have one sign it is a minimum forest: the ends of every edge *)
(* of the graph are joined by chosen edges that are no heavier.              *)
THEOREM MinimumCorrect == OneSign => (Spec => []MinimumForest)
<1>. SUFFICES ASSUME OneSign PROVE Spec => []MinimumForest
  OBVIOUS
<1>1. FInv /\ Ordered /\ SpanningForest => MinimumForest
  <2>. SUFFICES ASSUME FInv, Ordered, SpanningForest, phase = "done", iterations = 0,
                       NEW e \in DOMAIN weights
       PROVE  e[2] \in Component(e[1], {f \in Chosen : weights[f] <= weights[e]})
    BY DEF SpanningForest, MinimumForest
  <2>. DEFINE Low == {f \in Chosen : altered[f] <= altered[e]}
              Lighter1 == {f \in Chosen : weights[f] <= weights[e]}
  <2>1. e[2] \in Component(e[1], Low)
    BY Bottleneck DEF FInv, Spanning
  <2>2. \A f \in DOMAIN weights : weights[f] \in Int /\ altered[f] \in Int
    BY InputFacts DEF FInv, MInv, IInv, TypeOK
  <2>3. ASSUME NEW f \in Low PROVE weights[f] <= weights[e]
    <3>1. f \in DOMAIN weights
      BY DEF FInv, MInv, Minimal, Sparse
    <3>2. ~(weights[e] < weights[f])
      <4>1. ~(altered[e] < altered[f])
        BY <2>2, <3>1
      <4>. QED BY <3>1, <4>1 DEF Ordered
    <3>. QED BY <2>2, <3>1, <3>2
  <2>4. Component(e[1], Low) \subseteq Component(e[1], Lighter1)
    BY <2>3, ComponentGrows
  <2>. QED BY <2>1, <2>4
<1>. QED BY <1>1, ForestInvariant, SpanningCorrect, OrderKept, PTL
=============================================================================
