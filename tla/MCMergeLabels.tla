---------------------------- MODULE MCMergeLabels ----------------------------
(* A small instance of MergeLabels. *)
EXTENDS MergeLabels

(* The labels of a group are the number of one of its points.                *)
Groups == {f \in [Points -> Labels \cup {MAX_LABEL}] :
             \A k \in Points : f[k] # MAX_LABEL => f[f[k]] = f[k]}
=============================================================================
