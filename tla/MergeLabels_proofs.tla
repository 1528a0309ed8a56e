-------------------------- MODULE MergeLabels_proofs --------------------------
(***************************************************************************)
(* Proofs about MergeLabels, for any number of points and any labellings:  *)
(* R never leaves the equivalence classes, and the labels the kernels end  *)
(* with are the smallest ones of their classes.                            *)
(*                                                                         *)
(* The argument: what a thread can read of R, and what it lowers R to,     *)
(* stays in the class. A pass that ends with m = FALSE has written         *)
(* nothing, so its reads were exact and R agrees along every edge. The     *)
(* labels with one value of R then form a closed set, hence R is constant  *)
(* on a class, below all of its members and among them: the smallest one.  *)
(***************************************************************************)
EXTENDS MergeLabels, TLAPS

(* What R, the values read from it and the threads' rmin stand for. *)
Equivalent ==
  /\ \A l \in Labels : R[l] \in seen[l]
  /\ \A l \in Labels : \A v \in seen[l] : v \in Component(l) /\ v <= l
  /\ \A k \in Points : pc[k] \in {"lower_a", "lower_b"} =>
       k \in mask /\ m /\ phase = "propagate" /\ rmin[k] \in Component(given[k])

(* A pass that has set no flag so far has changed nothing. *)
QuietPass ==
  phase = "propagate" /\ ~m =>
    /\ \A l \in Labels : seen[l] = {R[l]}
    /\ \A k \in mask : pc[k] = "end" => R[given[k]] = R[labels_b[k]]

(* After the loop R agrees along the edges, and each point is renamed once.  *)
Renaming ==
  /\ phase = "propagate" => labels_a = given
  /\ phase = "reassign" =>
       /\ \A k \in mask : R[given[k]] = R[labels_b[k]]
       /\ \A k \in Points :
            labels_a[k] = IF pc[k] = "end"
                            THEN Smaller(NewLabel(given[k]), NewLabel(labels_b[k]))
                            ELSE given[k]

IInv == TypeOK /\ Equivalent /\ QuietPass /\ Renaming

-----------------------------------------------------------------------------
(* Components. *)

LEMMA LabelFacts ==
  /\ Labels \subseteq Nat /\ Labels \subseteq Int
  /\ MAX_LABEL \notin Labels
BY NAssumption, MaxAssumption, SMT DEF Labels

LEMMA ComponentReflexive == \A l \in Labels : l \in Component(l)
BY DEF Component

LEMMA ComponentTransitive ==
  \A l \in Labels : \A y \in Component(l) : \A x \in Component(y) : x \in Component(l)
BY DEF Component

LEMMA ComponentEdge ==
  ASSUME TypeOK, NEW k \in mask
  PROVE  /\ given[k] \in Labels /\ labels_b[k] \in Labels
         /\ given[k] \in Component(labels_b[k])
         /\ labels_b[k] \in Component(given[k])
<1>1. given[k] \in Labels /\ labels_b[k] \in Labels
  BY DEF TypeOK
<1>. QED BY <1>1 DEF Component, Closed

(* When R agrees along every edge, it is constant on a component. *)
LEMMA ConstantOnComponent ==
  ASSUME TypeOK, \A k \in mask : R[given[k]] = R[labels_b[k]],
         NEW l \in Labels, NEW x \in Component(l)
  PROVE  R[x] = R[l]
<1>. DEFINE S == {y \in Labels : R[y] = R[l]}
<1>1. Closed(S)
  BY ComponentEdge DEF Closed
<1>2. x \in S
  BY <1>1 DEF Component
<1>. QED BY <1>2

LEMMA SmallestIs ==
  ASSUME NEW S \in SUBSET Labels, NEW x \in S, \A y \in S : x <= y
  PROVE  Smallest(S) = x
<1>1. ASSUME NEW z \in S, \A y \in S : z <= y PROVE z = x
  <2>1. z <= x /\ x <= z /\ z \in Int /\ x \in Int
    BY <1>1, LabelFacts
  <2>. QED BY <2>1, SMT
<1>. QED BY <1>1 DEF Smallest

(* R then gives the smallest label of every component. *)
LEMMA ReachesSmallest ==
  ASSUME TypeOK, Equivalent, \A k \in mask : R[given[k]] = R[labels_b[k]],
         NEW l \in Labels
  PROVE  R[l] = Smallest(Component(l))
<1>1. R[l] \in Component(l)
  BY DEF Equivalent
<1>2. ASSUME NEW y \in Component(l) PROVE R[l] <= y
  <2>1. y \in Labels
    BY DEF Component
  <2>2. R[y] <= y
    BY <2>1 DEF Equivalent
  <2>. QED BY <2>2, ConstantOnComponent
<1>3. Component(l) \in SUBSET Labels
  BY DEF Component
<1>. QED BY <1>1, <1>2, <1>3, SmallestIs

-----------------------------------------------------------------------------
LEMMA InitInvariant == Init => IInv
<1>. SUFFICES ASSUME Init PROVE IInv
  OBVIOUS
<1>1. TypeOK
  <2>1. \A k \in Points : 1 \in Labels
    BY NAssumption, SMT DEF Points, Labels
  <2>2. rmin \in [Points -> Labels]
    BY <2>1 DEF Init
  <2>3. /\ labels_a \in [Points -> Labels \cup {MAX_LABEL}]
        /\ labels_b \in [Points -> Labels \cup {MAX_LABEL}]
    BY LabellingsAssumption DEF Init
  <2>. QED BY <2>2, <2>3 DEF Init, TypeOK
<1>2. Equivalent
  <2>1. \A l \in Labels : R[l] = l /\ seen[l] = {l}
    BY DEF Init
  <2>2. \A l \in Labels : l \in Component(l) /\ l <= l
    BY ComponentReflexive, LabelFacts, SMT
  <2>3. \A k \in Points : pc[k] = "start"
    BY DEF Init
  <2>. QED BY <2>1, <2>2, <2>3 DEF Equivalent
<1>3. QuietPass
  BY LabelFacts DEF Init, QuietPass, TypeOK
<1>4. Renaming
  BY DEF Init, Renaming
<1>. QED BY <1>1, <1>2, <1>3, <1>4 DEF IInv

(* The reference does not change while the kernels run. *)
LEMMA ComponentStable ==
  ASSUME UNCHANGED inputs
  PROVE  \A l : Component(l)' = Component(l)
BY DEF inputs, Component, Closed

LEMMA ReadKeeps ==
  ASSUME IInv, NEW k \in Points, Read(k) PROVE IInv'
<1>. DEFINE a == given[k]
            b == labels_b[k]
<1>1. /\ k \in mask /\ phase = "propagate" /\ pc[k] = "start" /\ labels_a = given
      /\ UNCHANGED <<labels_a, R, phase, seen, labels_b, mask, given>>
  BY DEF Read, Masked, IInv, Renaming, inputs
<1>2. PICK ra \in seen[a], rb \in seen[b] :
        IF ra = rb
          THEN pc' = [pc EXCEPT ![k] = "end"] /\ m' = m /\ rmin' = rmin
          ELSE /\ m' = TRUE
               /\ \E v \in seen[Smaller(ra, rb)] : rmin' = [rmin EXCEPT ![k] = v]
               /\ pc' = [pc EXCEPT ![k] = "lower_a"]
  BY <1>1 DEF Read
<1>3. /\ a \in Labels /\ b \in Labels
      /\ b \in Component(a)
  BY <1>1, ComponentEdge DEF IInv
<1>4. ra \in Component(a) /\ rb \in Component(a)
  <2>1. ra \in Component(a) /\ rb \in Component(b)
    BY <1>3 DEF IInv, Equivalent
  <2>. QED BY <2>1, <1>3, ComponentTransitive
<1>5. Smaller(ra, rb) \in Component(a) /\ Smaller(ra, rb) \in Labels
  BY <1>4 DEF Smaller, Component
<1>6. ASSUME NEW v \in seen[Smaller(ra, rb)] PROVE v \in Component(a) /\ v \in Labels
  <2>1. v \in Component(Smaller(ra, rb))
    BY <1>5 DEF IInv, Equivalent
  <2>2. v \in Component(a)
    BY <2>1, <1>5, <1>3, ComponentTransitive
  <2>. QED BY <2>2 DEF Component
<1>7. \A l : Component(l)' = Component(l)
  BY <1>1, ComponentStable DEF inputs
<1>8. CASE ra = rb
  <2>1. pc' = [pc EXCEPT ![k] = "end"] /\ m' = m /\ rmin' = rmin
    BY <1>2, <1>8
  <2>2. TypeOK'
    BY <1>1, <2>1 DEF IInv, TypeOK
  <2>3. Equivalent'
    BY <1>1, <1>7, <2>1 DEF IInv, TypeOK, Equivalent
  <2>4. QuietPass'
    <3>1. ASSUME ~m PROVE R[a] = R[b]
      BY <3>1, <1>1, <1>2, <1>3, <1>8 DEF IInv, QuietPass
    <3>. QED BY <1>1, <2>1, <3>1 DEF IInv, TypeOK, QuietPass
  <2>5. Renaming'
    BY <1>1 DEF IInv, Renaming
  <2>. QED BY <2>2, <2>3, <2>4, <2>5 DEF IInv
<1>9. CASE ra # rb
  <2>1. PICK v \in seen[Smaller(ra, rb)] : rmin' = [rmin EXCEPT ![k] = v]
    BY <1>2, <1>9
  <2>2. m' = TRUE /\ pc' = [pc EXCEPT ![k] = "lower_a"]
    BY <1>2, <1>9
  <2>3. TypeOK'
    BY <1>1, <1>6, <2>1, <2>2 DEF IInv, TypeOK
  <2>4. Equivalent'
    <3>1. ASSUME NEW j \in Points, pc'[j] \in {"lower_a", "lower_b"}
          PROVE  j \in mask /\ rmin'[j] \in Component(given[j])
      BY <3>1, <1>1, <1>6, <2>1, <2>2 DEF IInv, TypeOK, Equivalent
    <3>2. /\ \A l \in Labels : R[l] \in seen[l]
          /\ \A l \in Labels : \A w \in seen[l] : w \in Component(l) /\ w <= l
      BY DEF IInv, Equivalent
    <3>. QED BY <3>1, <3>2, <1>1, <1>7, <2>2 DEF Equivalent
  <2>5. QuietPass' /\ Renaming'
    BY <1>1, <2>2 DEF IInv, QuietPass, Renaming
  <2>. QED BY <2>3, <2>4, <2>5 DEF IInv
<1>. QED BY <1>8, <1>9

(* Either atomicMin: the entry is one of the two labels of the point. *)
LEMMA LowerKeeps ==
  ASSUME IInv, NEW k \in Points, NEW next \in {"lower_b", "end"},
         pc[k] \in {"lower_a", "lower_b"}, NEW l \in {given[k], labels_b[k]},
         Lower(l, k, next)
  PROVE  IInv'
<1>. DEFINE v == Smaller(R[l], rmin[k])
<1>1. /\ R' = [R EXCEPT ![l] = v]
      /\ seen' = [seen EXCEPT ![l] = @ \cup {v}]
      /\ pc' = [pc EXCEPT ![k] = next]
      /\ UNCHANGED <<labels_a, m, phase, rmin, labels_b, mask, given>>
  BY DEF Lower, inputs
<1>2. k \in mask /\ m /\ phase = "propagate" /\ rmin[k] \in Component(given[k])
  BY DEF IInv, Equivalent
<1>3. l \in Labels /\ given[k] \in Component(l) /\ given[k] \in Labels
  BY <1>2, ComponentEdge, ComponentReflexive DEF IInv
<1>4. rmin[k] \in Component(l)
  BY <1>2, <1>3, ComponentTransitive
<1>5. R[l] \in Component(l) /\ R[l] <= l
  BY <1>3 DEF IInv, Equivalent
<1>6. v \in Component(l) /\ v \in Labels
  BY <1>4, <1>5 DEF Smaller, Component
<1>7. v <= l
  <2>1. R[l] \in Int /\ rmin[k] \in Int /\ l \in Int
    BY <1>3, LabelFacts DEF IInv, TypeOK
  <2>. QED BY <2>1, <1>5, SMT DEF Smaller
<1>8. \A x : Component(x)' = Component(x)
  BY <1>1, ComponentStable DEF inputs
<1>9. TypeOK'
  BY <1>1, <1>3, <1>6 DEF IInv, TypeOK
<1>10. Equivalent'
  <2>1. \A x \in Labels : R'[x] \in seen'[x]
    BY <1>1, <1>3 DEF IInv, TypeOK, Equivalent
  <2>2. ASSUME NEW x \in Labels, NEW w \in seen'[x]
        PROVE  w \in Component(x) /\ w <= x
    <3>1. CASE x = l /\ w = v
      BY <3>1, <1>6, <1>7
    <3>2. CASE w \in seen[x]
      BY <3>2 DEF IInv, Equivalent
    <3>. QED BY <3>1, <3>2, <1>1, <1>3 DEF IInv, TypeOK
  <2>3. ASSUME NEW j \in Points, pc'[j] \in {"lower_a", "lower_b"}
        PROVE  j \in mask /\ rmin[j] \in Component(given[j])
    BY <2>3, <1>1, <1>2 DEF IInv, TypeOK, Equivalent
  <2>. QED BY <1>1, <1>2, <1>8, <2>1, <2>2, <2>3 DEF Equivalent
<1>11. QuietPass' /\ Renaming'
  BY <1>1, <1>2 DEF IInv, QuietPass, Renaming
<1>. QED BY <1>9, <1>10, <1>11 DEF IInv

LEMMA EndPassKeeps ==
  ASSUME IInv, EndPass PROVE IInv'
<1>1. /\ phase = "propagate" /\ \A k \in Points : pc[k] = "end"
      /\ phase' = IF m THEN "propagate" ELSE "reassign"
      /\ m' = FALSE
      /\ pc' = [k \in Points |-> "start"]
      /\ seen' = [l \in Labels |-> {R[l]}]
      /\ UNCHANGED <<labels_a, R, rmin, labels_b, mask, given>>
  BY DEF EndPass, Again, inputs
<1>2. \A l : Component(l)' = Component(l)
  BY <1>1, ComponentStable DEF inputs
<1>3. TypeOK'
  BY <1>1 DEF IInv, TypeOK
<1>4. Equivalent'
  BY <1>1, <1>2 DEF IInv, Equivalent
<1>5. QuietPass'
  <2>1. \A k \in mask : k \in Points
    BY DEF IInv, TypeOK
  <2>. QED BY <1>1, <2>1 DEF QuietPass
<1>6. Renaming'
  <2>1. ~m => \A k \in mask : R[given[k]] = R[labels_b[k]]
    BY <1>1 DEF IInv, TypeOK, QuietPass
  <2>. QED BY <1>1, <2>1 DEF IInv, Renaming
<1>. QED BY <1>3, <1>4, <1>5, <1>6 DEF IInv

LEMMA ReassignKeeps ==
  ASSUME IInv, NEW k \in Points, Reassign(k) PROVE IInv'
<1>1. /\ phase = "reassign" /\ pc[k] = "start"
      /\ labels_a' = [labels_a EXCEPT ![k] = Renamed(k)]
      /\ pc' = [pc EXCEPT ![k] = "end"]
      /\ UNCHANGED <<R, m, phase, rmin, seen, labels_b, mask, given>>
  BY DEF Reassign, inputs
<1>2. labels_a[k] = given[k]
  BY <1>1 DEF IInv, Renaming
<1>3. Renamed(k) = Smaller(NewLabel(given[k]), NewLabel(labels_b[k]))
  BY <1>2 DEF Renamed
<1>4. Renamed(k) \in Labels \cup {MAX_LABEL}
  BY <1>3 DEF IInv, TypeOK, Smaller, NewLabel
<1>5. TypeOK'
  BY <1>1, <1>4 DEF IInv, TypeOK
<1>6. \A l : Component(l)' = Component(l)
  BY <1>1, ComponentStable DEF inputs
<1>7. Equivalent'
  BY <1>1, <1>6 DEF IInv, TypeOK, Equivalent
<1>8. QuietPass'
  BY <1>1 DEF QuietPass
<1>9. Renaming'
  <2>1. \A x : NewLabel(x)' = NewLabel(x)
    BY <1>1 DEF NewLabel
  <2>2. ASSUME NEW j \in Points
        PROVE  labels_a'[j] = IF pc'[j] = "end"
                 THEN Smaller(NewLabel(given[j]), NewLabel(labels_b[j]))
                 ELSE given[j]
    BY <1>1, <1>3 DEF IInv, TypeOK, Renaming
  <2>3. \A j \in mask : R[given[j]] = R[labels_b[j]]
    BY <1>1 DEF IInv, Renaming
  <2>. QED BY <1>1, <2>1, <2>2, <2>3 DEF Renaming
<1>. QED BY <1>5, <1>7, <1>8, <1>9 DEF IInv

LEMMA NextInvariant == IInv /\ [Next]_vars => IInv'
<1>. SUFFICES ASSUME IInv, [Next]_vars PROVE IInv'
  OBVIOUS
<1>1. CASE UNCHANGED vars
  <2>1. \A l : Component(l)' = Component(l)
    BY <1>1, ComponentStable DEF vars, inputs
  <2>2. \A l : NewLabel(l)' = NewLabel(l)
    BY <1>1 DEF vars, NewLabel
  <2>. QED
    BY <1>1, <2>1, <2>2 DEF vars, IInv, TypeOK, Equivalent, QuietPass, Renaming
<1>2. CASE EndPass
  BY <1>2, EndPassKeeps
<1>3. ASSUME NEW k \in Points, Skip(k) PROVE IInv'
  <2>1. /\ k \notin mask /\ pc' = [pc EXCEPT ![k] = "end"] /\ phase = "propagate"
        /\ UNCHANGED <<labels_a, R, m, phase, rmin, seen, labels_b, mask, given>>
    BY <1>3 DEF Skip, Masked, inputs
  <2>2. \A l : Component(l)' = Component(l)
    BY <2>1, ComponentStable DEF inputs
  <2>3. TypeOK'
    BY <2>1 DEF IInv, TypeOK
  <2>4. Equivalent'
    BY <2>1, <2>2 DEF IInv, TypeOK, Equivalent
  <2>5. QuietPass' /\ Renaming'
    BY <2>1 DEF IInv, TypeOK, QuietPass, Renaming
  <2>. QED BY <2>3, <2>4, <2>5 DEF IInv
<1>4. ASSUME NEW k \in Points, Read(k) PROVE IInv'
  BY <1>4, ReadKeeps
<1>5. ASSUME NEW k \in Points, LowerA(k) \/ LowerB(k) PROVE IInv'
  <2>1. pc[k] \in {"lower_a", "lower_b"}
    BY <1>5 DEF LowerA, LowerB
  <2>2. labels_a = given
    BY <2>1 DEF IInv, Equivalent, Renaming
  <2>. QED BY <1>5, <2>1, <2>2, LowerKeeps DEF LowerA, LowerB
<1>6. ASSUME NEW k \in Points, Reassign(k) PROVE IInv'
  BY <1>6, ReassignKeeps
<1>. QED BY <1>1, <1>2, <1>3, <1>4, <1>5, <1>6 DEF Next, Thread

THEOREM Invariant == Spec => []IInv
BY InitInvariant, NextInvariant, PTL DEF Spec

-----------------------------------------------------------------------------
(* Type correctness: no thread indexes R or a label array out of bounds.     *)
THEOREM TypeCorrect == Spec => []TypeOK
<1>1. IInv => TypeOK
  BY DEF IInv
<1>. QED BY <1>1, Invariant, PTL

(* Whatever the interleaving of the threads and the staleness of their       *)
(* reads, R only ever relates labels that masked points connect.             *)
THEOREM ClassesCorrect == Spec => []MergesOnlyEquivalent
<1>1. IInv => MergesOnlyEquivalent
  BY DEF IInv, Equivalent, MergesOnlyEquivalent
<1>. QED BY <1>1, Invariant, PTL

(* The labels the kernels end with are the smallest of their classes.        *)
THEOREM MergeCorrect == Spec => []MergedToSmallest
<1>1. ASSUME IInv PROVE MergedToSmallest
  <2>. SUFFICES ASSUME Done, NEW k \in Points
       PROVE labels_a[k] = Smaller(Target(given[k]), Target(labels_b[k]))
    BY DEF MergedToSmallest
  <2>1. \A l \in Labels : R[l] = Smallest(Component(l))
    BY <1>1, ReachesSmallest DEF IInv, Renaming, Done
  <2>2. \A l \in Labels \cup {MAX_LABEL} : NewLabel(l) = Target(l)
    BY <2>1 DEF NewLabel, Target
  <2>3. labels_a[k] = Smaller(NewLabel(given[k]), NewLabel(labels_b[k]))
    BY <1>1 DEF IInv, Renaming, Done
  <2>4. given[k] \in Labels \cup {MAX_LABEL} /\ labels_b[k] \in Labels \cup {MAX_LABEL}
    BY <1>1 DEF IInv, TypeOK
  <2>. QED BY <2>2, <2>3, <2>4
<1>. QED BY <1>1, Invariant, PTL
=============================================================================
