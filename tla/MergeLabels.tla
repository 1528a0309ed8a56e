----------------------------- MODULE MergeLabels -----------------------------
(***************************************************************************)
(* label/detail/merge_labels.cuh: two labellings of N points are merged    *)
(* where a mask says so. One GPU thread per point lowers the entries of a  *)
(* table R that all threads share, in passes that the host repeats until   *)
(* one of them changes nothing; a last kernel renames the labels by R.     *)
(*                                                                         *)
(* Labels and entries of R count from 1 here: R[l] is the code's           *)
(* R[l - 1] + 1.                                                           *)
(***************************************************************************)
EXTENDS Integers

CONSTANTS
  N,           \* number of points, and the largest label
  MAX_LABEL,   \* the mark of a point without a label
  Labellings   \* the labellings the program may pass

Points == 1..N
Labels == 1..N

ASSUME NAssumption == N \in Nat
ASSUME MaxAssumption == MAX_LABEL \in Nat /\ MAX_LABEL > N
ASSUME LabellingsAssumption ==
  Labellings \subseteq [Points -> Labels \cup {MAX_LABEL}]

VARIABLES
  labels_a,   \* the first labelling, overwritten by the result
  labels_b,   \* the second labelling
  mask,       \* the points that merge
  R,          \* the label equivalence map
  m,          \* the flag of the current pass
  phase,      \* which kernel runs
  pc,         \* where the thread of each point is in it
  rmin,       \* the local variable of each thread
  seen,       \* values an entry of R has had since the kernel was launched
  given       \* history: labels_a as it was passed

vars == <<labels_a, labels_b, mask, R, m, phase, pc, rmin, seen, given>>
inputs == <<labels_b, mask, given>>

Smaller(x, y) == IF x <= y THEN x ELSE y

(* A point whose mask is true must be labelled in both. *)
Init ==
  /\ labels_a \in Labellings
  /\ labels_b \in Labellings
  /\ mask \in SUBSET {k \in Points : labels_a[k] # MAX_LABEL /\ labels_b[k] # MAX_LABEL}
  /\ R = [l \in Labels |-> l]
  /\ m = FALSE
  /\ phase = "propagate"
  /\ pc = [k \in Points |-> "start"]
  /\ rmin = [k \in Points |-> 1]
  /\ seen = [l \in Labels |-> {l}]
  /\ given = labels_a

-----------------------------------------------------------------------------
(* propagate_label_kernel. *)

(* atomicMin(R + l, v), and the next statement of the thread. *)
Lower(l, k, next) ==
  LET v == Smaller(R[l], rmin[k]) IN
  /\ R' = [R EXCEPT ![l] = v]
  /\ seen' = [seen EXCEPT ![l] = @ \cup {v}]
  /\ pc' = [pc EXCEPT ![k] = next]
  /\ UNCHANGED <<labels_a, m, phase, rmin, inputs>>

AnyPoint(k) == labels_a[k] # MAX_LABEL /\ labels_b[k] # MAX_LABEL
Masked(k) == k \in mask

Skip(k) ==
  /\ phase = "propagate" /\ pc[k] = "start"
  /\ ~Masked(k)
  /\ pc' = [pc EXCEPT ![k] = "end"]
  /\ UNCHANGED <<labels_a, R, m, phase, rmin, seen, inputs>>

(* The thread's reads of R are plain loads of entries that other threads     *)
(* lower meanwhile: each gives some value the entry has had in this launch.  *)
Read(k) ==
  /\ phase = "propagate" /\ pc[k] = "start"
  /\ Masked(k)
  /\ \E ra \in seen[labels_a[k]], rb \in seen[labels_b[k]] :
       IF ra = rb
         THEN /\ pc' = [pc EXCEPT ![k] = "end"]
              /\ UNCHANGED <<m, rmin>>
         ELSE /\ m' = TRUE
              /\ \E v \in seen[Smaller(ra, rb)] : rmin' = [rmin EXCEPT ![k] = v]
              /\ pc' = [pc EXCEPT ![k] = "lower_a"]
  /\ UNCHANGED <<labels_a, R, phase, seen, inputs>>

OnlyA(k) == /\ pc[k] = "lower_b"
            /\ pc' = [pc EXCEPT ![k] = "end"]
            /\ UNCHANGED <<labels_a, R, m, phase, rmin, seen, inputs>>
LowerA(k) == pc[k] = "lower_a" /\ Lower(labels_a[k], k, "lower_b")
LowerB(k) == pc[k] = "lower_b" /\ Lower(labels_b[k], k, "end")

-----------------------------------------------------------------------------
(* The host's do-while loop, and reassign_label_kernel. *)

(* The stream is synchronized: the pass has ended on every thread. *)
OnePass == FALSE
Again == m
EndPass ==
  /\ phase = "propagate"
  /\ \A k \in Points : pc[k] = "end"
  /\ phase' = IF Again THEN "propagate" ELSE "reassign"
  /\ m' = FALSE
  /\ pc' = [k \in Points |-> "start"]
  /\ seen' = [l \in Labels |-> {R[l]}]
  /\ UNCHANGED <<labels_a, R, rmin, inputs>>

NewLabel(l) == IF l = MAX_LABEL THEN MAX_LABEL ELSE R[l]

ZeroBased(k) == Smaller(NewLabel(labels_a[k]), NewLabel(labels_b[k])) - 1
Renamed(k) == Smaller(NewLabel(labels_a[k]), NewLabel(labels_b[k]))

Reassign(k) ==
  /\ phase = "reassign" /\ pc[k] = "start"
  /\ labels_a' = [labels_a EXCEPT ![k] = Renamed(k)]
  /\ pc' = [pc EXCEPT ![k] = "end"]
  /\ UNCHANGED <<R, m, phase, rmin, seen, inputs>>

-----------------------------------------------------------------------------
Thread(k) == Skip(k) \/ Read(k) \/ LowerA(k) \/ LowerB(k) \/ Reassign(k)

Next == EndPass \/ \E k \in Points : Thread(k)

Spec == Init /\ [][Next]_vars

(* Every launched thread runs to its end, and the host goes on. *)
FairSpec == Spec /\ WF_vars(EndPass) /\ \A k \in Points : WF_vars(Thread(k))

-----------------------------------------------------------------------------
(* Properties. *)

(* Type invariant. *)
TypeOK ==
  /\ labels_a \in [Points -> Labels \cup {MAX_LABEL}]
  /\ labels_b \in [Points -> Labels \cup {MAX_LABEL}]
  /\ given \in [Points -> Labels \cup {MAX_LABEL}]
  /\ mask \subseteq {k \in Points : given[k] # MAX_LABEL /\ labels_b[k] # MAX_LABEL}
  /\ R \in [Labels -> Labels]
  /\ m \in BOOLEAN
  /\ phase \in {"propagate", "reassign"}
  /\ pc \in [Points -> {"start", "lower_a", "lower_b", "end"}]
  /\ rmin \in [Points -> Labels]
  /\ seen \in [Labels -> SUBSET Labels]

(* The reference: labels are equivalent when no set that is closed under the *)
(* edges of the masked points separates them.                                *)
Closed(S) == \A k \in mask : given[k] \in S <=> labels_b[k] \in S
Component(l) == {x \in Labels : \A S \in SUBSET Labels : Closed(S) /\ l \in S => x \in S}
Smallest(S) == CHOOSE x \in S : \A y \in S : x <= y

(* No entry of R ever leaves the equivalence class of its label, however the *)
(* threads interleave: groups that no masked point connects stay apart.      *)
MergesOnlyEquivalent == \A l \in Labels : R[l] \in Component(l) /\ R[l] <= l

(* In the end every label has been replaced by the smallest label that is    *)
(* equivalent to it, and a point with two labels has got the smaller one.    *)
Done == phase = "reassign" /\ \A k \in Points : pc[k] = "end"
Target(l) == IF l = MAX_LABEL THEN MAX_LABEL ELSE Smallest(Component(l))
MergedToSmallest ==
  Done => \A k \in Points : labels_a[k] = Smaller(Target(given[k]), Target(labels_b[k]))

(* The host's loop ends. *)
MergeEnds == <>Done
=============================================================================
