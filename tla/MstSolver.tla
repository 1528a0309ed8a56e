------------------------------ MODULE MstSolver ------------------------------
(***************************************************************************)
(* sparse/solver/mst_solver.cuh: Boruvka's minimum spanning forest on the  *)
(* GPU, one thread per vertex. In every round each supervertex picks its   *)
(* lightest edge to another one, and the supervertices that the picked     *)
(* edges join get one color. Random noise that is smaller than any gap     *)
(* between two weights makes all weights different first.                  *)
(*                                                                         *)
(* A kernel whose threads do not touch each other's writes, or only lower  *)
(* entries with atomicMin that nobody reads before the next kernel, is one *)
(* action. In the two others a thread may read an entry that another       *)
(* thread writes: it gets the value of before the launch or the new one.   *)
(***************************************************************************)
EXTENDS Integers, FiniteSets

CONSTANTS
  V,           \* number of vertices
  Graphs,      \* the weighted graphs passed: a weight for both directions of an edge
  Colorings,   \* the arrays of colors passed; the identity stands for
               \* initialize_colors
  Pools,       \* the pools of random values, in units of 1/Unit
  Unit,
  Limits,      \* the limits on the number of rounds; 0 for none
  None         \* numeric_limits::max(): no vertex, no edge, no weight

Vertices == 0..(V - 1)
Pairs == Vertices \X Vertices
Reverse(e) == <<e[2], e[1]>>

ASSUME VAssumption == V \in Nat \ {0}
ASSUME GraphsAssumption ==
  \A g \in Graphs : /\ DOMAIN g # {} /\ DOMAIN g \subseteq Pairs
                    /\ g \in [DOMAIN g -> Int]
                    /\ \A e \in DOMAIN g : Reverse(e) \in DOMAIN g /\ g[Reverse(e)] = g[e]
ASSUME ColoringsAssumption ==
  /\ Colorings \subseteq [Vertices -> Vertices]
  /\ \A f \in Colorings : \A i \in Vertices : f[i] <= i /\ f[f[i]] = f[i]
ASSUME PoolsAssumption == Unit \in Nat \ {0} /\ Pools \subseteq [Vertices -> 1..Unit]
ASSUME LimitsAssumption == Limits \subseteq Nat
ASSUME NoneAssumption == None \notin Int \cup Pairs

VARIABLES
  weights,         \* the graph
  symmetrize,      \* symmetrize_output
  iterations,      \* the limit, or 0
  altered,         \* altered_weights
  color_index,     \* the supervertex of a vertex
  color,           \* the color of a supervertex
  next_color,
  min_edge_color,  \* the least weight of an edge out of a color
  new_mst_edge,    \* the edge a vertex has picked: its other end
  mst_edge,        \* the edges that are flagged as part of the forest
  temp,            \* the edges found in this round, in 2 * V slots
  result,          \* how often the output has an edge, so far
  count,           \* mst_edge_count
  prev,            \* prev_mst_edge_count
  i,               \* rounds so far
  phase,           \* the kernel that runs, or where the host is
  pc,              \* "run" or "end": each thread of that kernel
  walk,            \* self_color_idx of each thread of final_color_indices
  old,             \* the array the running kernel writes, as it was launched
  given            \* history: the colors that were passed

input == <<weights, symmetrize, iterations, given>>
colors == <<color_index, color, next_color>>
output == <<result, count, prev>>
vars == <<input, altered, colors, min_edge_color, new_mst_edge, mst_edge, temp,
          output, i, phase, pc, walk, old>>

Init ==
  /\ weights \in Graphs
  /\ symmetrize \in BOOLEAN
  /\ iterations \in Limits
  /\ altered = weights
  /\ color_index \in Colorings
  /\ color = color_index
  /\ next_color = [x \in Vertices |-> x]
  /\ min_edge_color = [x \in Vertices |-> None]
  /\ new_mst_edge = [x \in Vertices |-> None]
  /\ mst_edge = {}
  /\ temp = [s \in {1, 2} \X Vertices |-> None]
  /\ result = [e \in Pairs |-> 0]
  /\ count = 0
  /\ prev = 0
  /\ i = 0
  /\ phase = "alteration"
  /\ pc = [x \in Vertices |-> "end"]
  /\ walk = color_index
  /\ old = new_mst_edge
  /\ given = color_index

Smallest(S) == CHOOSE x \in S : \A y \in S : x <= y
Least(S) == IF S = {} THEN None ELSE Smallest(S)

-----------------------------------------------------------------------------
(* alteration_max: half the smallest gap ||y| - |x|| of adjacent weights, or *)
(* one. In units of 1/(2 * Unit) the noise of an edge is a whole number.     *)
Magnitude(x) == IF x < 0 THEN -x ELSE x
Adjacent(S) == {p \in S \X S : p[1] < p[2] /\ \A z \in S : z <= p[1] \/ z >= p[2]}
Gaps(g) == {Magnitude(Magnitude(p[2]) - Magnitude(p[1])) :
              p \in Adjacent({g[e] : e \in DOMAIN g})}
WholeGap(g) == IF Gaps(g) = {} \/ 0 \in Gaps(g) THEN 2 ELSE 2 * Smallest(Gaps(g))
HalfGap(g) == IF Gaps(g) = {} \/ 0 \in Gaps(g) THEN 2 ELSE Smallest(Gaps(g))

Noisy(g, r) == [e \in DOMAIN g |-> 2 * Unit * g[e] + HalfGap(g) * (r[e[1]] + r[e[2]])]

(* Two edges that get the same weight by chance are left out.                *)
Unique(a) == \A e, f \in DOMAIN a : a[e] = a[f] => f \in {e, Reverse(e)}

Alteration ==
  /\ phase = "alteration"
  /\ \E r \in Pools : altered' = Noisy(weights, r) /\ Unique(altered')
  /\ phase' = "min_edge"
  /\ UNCHANGED <<input, colors, min_edge_color, new_mst_edge, mst_edge, temp,
                 output, i, pc, walk, old>>

-----------------------------------------------------------------------------
Color(x) == color[color_index[x]]

(* The lightest edges from a vertex, and from a color, to another color.     *)
Leaving(x) == {y \in Vertices : /\ <<x, y>> \in DOMAIN weights
                                /\ <<x, y>> \notin mst_edge
                                /\ Color(x) # Color(y)}
Heaviest(x) ==
  IF Leaving(x) = {} THEN None
  ELSE CHOOSE y \in Leaving(x) : \A z \in Leaving(x) : altered[<<x, y>>] >= altered[<<x, z>>]
Lightest(x) ==
  IF Leaving(x) = {} THEN None
  ELSE CHOOSE y \in Leaving(x) : \A z \in Leaving(x) : altered[<<x, y>>] <= altered[<<x, z>>]

(* kernel_min_edge_per_vertex. *)
MinEdgePerVertex ==
  /\ phase = "min_edge"
  /\ new_mst_edge' = [x \in Vertices |-> Lightest(x)]
  /\ min_edge_color' = [c \in Vertices |->
       Least({altered[<<x, Lightest(x)>>] :
                x \in {y \in Vertices : Color(y) = c /\ Lightest(y) # None}})]
  /\ temp' = [s \in {1, 2} \X Vertices |-> None]
  /\ phase' = "pick"
  /\ pc' = [x \in Vertices |-> IF Lightest(x) = None THEN "end" ELSE "run"]
  /\ old' = new_mst_edge'
  /\ UNCHANGED <<input, altered, colors, mst_edge, output, i, walk>>

(* The edge is the lightest one of the whole supervertex. *)
SuperLightest(x) == min_edge_color[Color(x)] = altered[<<x, new_mst_edge[x]>>]

(* The other end, whose edge back is seen, adds this edge as well: the lower *)
(* color does it.                                                            *)
BothAdd(x, back) == FALSE
LeaveToOther(x, back) ==
  LET y == new_mst_edge[x] IN
  /\ ~symmetrize
  /\ back = x
  /\ min_edge_color[Color(y)] = altered[<<y, x>>]
  /\ Color(x) > Color(y)

(* A thread of min_edge_per_supervertex. *)
Pick(x) ==
  /\ phase = "pick" /\ pc[x] = "run"
  /\ pc' = [pc EXCEPT ![x] = "end"]
  /\ LET y == new_mst_edge[x] IN
     \E back \in {old[y], new_mst_edge[y]} :
       IF SuperLightest(x) /\ ~LeaveToOther(x, back)
         THEN /\ temp' = [temp EXCEPT ![<<1, x>>] = <<x, y>>]
              /\ mst_edge' = mst_edge \cup {<<x, y>>}
              /\ UNCHANGED new_mst_edge
         ELSE /\ new_mst_edge' = [new_mst_edge EXCEPT ![x] = None]
              /\ UNCHANGED <<temp, mst_edge>>
  /\ UNCHANGED <<input, altered, colors, min_edge_color, output, i, phase, walk, old>>

(* add_reverse_edge, for a symmetrized output. *)
Unreturned(x) == /\ symmetrize /\ new_mst_edge[x] # None
                 /\ new_mst_edge[new_mst_edge[x]] # x

AddReverse ==
  /\ phase = "pick" /\ \A x \in Vertices : pc[x] = "end"
  /\ temp' = [s \in {1, 2} \X Vertices |->
                IF s[1] = 2 /\ Unreturned(s[2]) THEN <<new_mst_edge[s[2]], s[2]>>
                ELSE temp[s]]
  /\ phase' = "check"
  /\ UNCHANGED <<input, altered, colors, min_edge_color, new_mst_edge, mst_edge,
                 output, i, pc, walk, old>>

-----------------------------------------------------------------------------
(* The host: check_termination, the end of the loop, append_src_dst_pair.    *)
Found(e) == Cardinality({s \in {1, 2} \X Vertices : temp[s] = e})
AllFound == Cardinality({s \in {1, 2} \X Vertices : temp[s] # None})
MaxEdges == IF symmetrize THEN 2 * V - 2 ELSE V - 1

CheckTermination ==
  /\ phase = "check"
  /\ count' = count + AllFound
  /\ IF count' > MaxEdges
       THEN phase' = "failed" /\ UNCHANGED result
     ELSE IF count' = prev
       THEN phase' = "done" /\ UNCHANGED result
     ELSE /\ phase' = "propagate"
          /\ result' = [e \in Pairs |-> result[e] + Found(e)]
  /\ UNCHANGED <<input, altered, colors, min_edge_color, new_mst_edge, mst_edge,
                 temp, prev, i, pc, walk, old>>

-----------------------------------------------------------------------------
(* label_prop: both ends of a picked edge offer their color to the other's   *)
(* supervertex (min_pair_colors); supervertices with a smaller offer take it *)
(* (update_colors), until nothing changes.                                   *)
OwnOffers(s) ==
  {Color(new_mst_edge[x]) : x \in {y \in Vertices : new_mst_edge[y] # None /\ color_index[y] = s}}
Offers(s) ==
  {Color(new_mst_edge[x]) : x \in {y \in Vertices : new_mst_edge[y] # None /\ color_index[y] = s}}
  \cup {Color(x) : x \in {y \in Vertices : /\ new_mst_edge[y] # None
                                         /\ color_index[new_mst_edge[y]] = s}}

Largest(S) == CHOOSE x \in S : \A y \in S : x >= y
AtomicMax(s) == Largest({next_color[s]} \cup Offers(s))
AtomicMin(s) == Smallest({next_color[s]} \cup Offers(s))

AnyUpdate(x, y) == x >= y
Lower(x, y) == x > y

Propagate ==
  /\ phase = "propagate"
  /\ next_color' = [s \in Vertices |-> AtomicMin(s)]
  /\ color' = [x \in Vertices |->
                 IF Lower(color[x], next_color'[color_index[x]])
                   THEN next_color'[color_index[x]] ELSE color[x]]
  /\ IF \E x \in Vertices : Lower(color[x], next_color'[color_index[x]])
       THEN UNCHANGED <<phase, pc, walk, old>>
       ELSE /\ phase' = "final"
            /\ pc' = [x \in Vertices |-> "run"]
            /\ walk' = color_index
            /\ old' = color_index
  /\ UNCHANGED <<input, altered, color_index, min_edge_color, new_mst_edge,
                 mst_edge, temp, output, i>>

(* A thread of final_color_indices looks for a supervertex that has its own  *)
(* index for a color, and points to it.                                      *)
FinalStep(x) ==
  /\ phase = "final" /\ pc[x] = "run"
  /\ LET c == color[walk[x]] IN
     IF c # walk[x]
       THEN /\ \E w \in {old[c], color_index[c]} : walk' = [walk EXCEPT ![x] = w]
            /\ UNCHANGED <<pc, color_index>>
       ELSE /\ color_index' = [color_index EXCEPT ![x] = walk[x]]
            /\ pc' = [pc EXCEPT ![x] = "end"]
            /\ UNCHANGED walk
  /\ UNCHANGED <<input, altered, color, next_color, min_edge_color, new_mst_edge,
                 mst_edge, temp, output, i, phase, old>>

Limit == IF iterations > 0 THEN iterations ELSE V

EndRound ==
  /\ phase = "final" /\ \A x \in Vertices : pc[x] = "end"
  /\ prev' = count
  /\ i' = i + 1
  /\ phase' = IF i + 1 < Limit THEN "min_edge" ELSE "done"
  /\ UNCHANGED <<input, altered, colors, min_edge_color, new_mst_edge, mst_edge,
                 temp, result, count, pc, walk, old>>

-----------------------------------------------------------------------------
Host == \/ Alteration \/ MinEdgePerVertex \/ AddReverse \/ CheckTermination
        \/ Propagate \/ EndRound
Thread(x) == Pick(x) \/ FinalStep(x)

Next == Host \/ \E x \in Vertices : Thread(x)

Spec == Init /\ [][Next]_vars

(* The host goes on, and every launched thread runs to its end. *)
FairSpec == Spec /\ WF_vars(Host) /\ \A x \in Vertices : WF_vars(Thread(x))

-----------------------------------------------------------------------------
(* Properties. *)

(* Type invariant; colors only ever move down, towards 0.                    *)
TypeOK ==
  /\ symmetrize \in BOOLEAN
  /\ iterations \in Limits
  /\ altered \in [DOMAIN weights -> Int]
  /\ {color_index, color, next_color, walk, given} \subseteq [Vertices -> Vertices]
  /\ \A x \in Vertices : color_index[x] <= x /\ color[x] <= x /\ next_color[x] <= x
  /\ new_mst_edge \in [Vertices -> Vertices \cup {None}]
  /\ mst_edge \subseteq DOMAIN weights
  /\ temp \in [{1, 2} \X Vertices -> DOMAIN weights \cup {None}]
  /\ result \in [Pairs -> Nat]
  /\ {count, prev, i} \subseteq Nat
  /\ phase \in {"alteration", "min_edge", "pick", "check", "propagate", "final",
                "done", "failed"}
  /\ pc \in [Vertices -> {"run", "end"}]

(* The reference: vertices are joined by a set of edges, and by the colors   *)
(* that were passed, when no set of vertices that is closed under them       *)
(* separates the two.                                                        *)
Closed(S, E) == /\ \A e \in E : e[1] \in S <=> e[2] \in S
                /\ \A x \in Vertices : x \in S <=> given[x] \in S
Around(x, E) == {S \in SUBSET Vertices : x \in S /\ Closed(S, E)}
Component(x, E) == {y \in Vertices : \A S \in Around(x, E) : y \in S}
Chosen == {e \in Pairs : result[e] > 0}

(* The output has every edge of the forest once, or once in each direction   *)
(* when it is symmetrized, although both of its ends may have picked it and  *)
(* each sees what the other does either before or after.                     *)
EdgesOnce ==
  \A e \in Pairs :
    IF symmetrize THEN result[e] \in {0, 1} /\ result[e] = result[Reverse(e)]
                  ELSE result[e] + result[Reverse(e)] \in {0, 1}

(* Between rounds two vertices have one color exactly when they are joined,  *)
(* and each vertex points straight to its supervertex.                       *)
ColorsAreTrees ==
  phase \in {"min_edge", "done"} =>
    \A x \in Vertices : /\ color_index[x] = Smallest(Component(x, Chosen))
                        /\ Color(x) = color_index[x]

(* At any time, and so with any limit on the rounds, an edge that was chosen *)
(* is one of a minimum spanning forest: no lighter edges join its ends.      *)
Lighter(w) == {f \in DOMAIN weights : weights[f] < w}
ChosenMinimal ==
  phase = "propagate" => \A e \in Chosen : e[2] \notin Component(e[1], Lighter(weights[e]))

(* The edges never close a cycle, as each one has joined two components, nor *)
(* does the code find their number invalid; and in the end the ends of every *)
(* edge of the graph are joined by edges of the forest that are no heavier:  *)
(* the forest spans, at the least weight.                                    *)
NoCycle ==
  LET Undirected == {{e[1], e[2]} : e \in Chosen}
      Trees(E) == {Component(x, E) : x \in Vertices}
  IN  Cardinality(Undirected) = Cardinality(Trees({})) - Cardinality(Trees(Chosen))
MinimumForest ==
  /\ phase # "failed"
  /\ phase = "propagate" => NoCycle
  /\ phase = "done" /\ iterations = 0 =>
       \A e \in DOMAIN weights :
         e[2] \in Component(e[1], {f \in Chosen : weights[f] <= weights[e]})

(* Every round of every loop ends. *)
SolveEnds == <>(phase \in {"done", "failed"})
=============================================================================
