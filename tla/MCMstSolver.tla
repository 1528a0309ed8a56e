----------------------------- MODULE MCMstSolver -----------------------------
(* Small instances of MstSolver. *)
EXTENDS MstSolver

(* A weight for each undirected edge of a set, in both directions.           *)
Undirected == {e \in Pairs : e[1] < e[2]}
Weighted(E, W) ==
  {[e \in {p \in Pairs : p \in E \/ Reverse(p) \in E} |->
      IF e \in E THEN w[e] ELSE w[Reverse(e)]] : w \in [E -> W]}

(* All graphs with one or two weights; a cycle with weights x and -x.        *)
TwoWeights == UNION {Weighted(E, {1, 2}) : E \in SUBSET Undirected \ {{}}}
Cycle == {<<0, 1>>, <<1, 2>>, <<2, 3>>, <<0, 3>>}
MixedSigns == Weighted(Cycle, {-1, 1, 2})

(* All vertices for themselves, or two that an earlier call has joined.      *)
OwnColors == {[x \in Vertices |-> x]}
Joined == OwnColors \cup {[x \in Vertices |-> IF x = 3 THEN 1 ELSE x]}

(* Random values whose sums are all different. *)
Powers == {[x \in Vertices |-> 2^x], [x \in Vertices |-> 2^(V - 1 - x)]}
=============================================================================
