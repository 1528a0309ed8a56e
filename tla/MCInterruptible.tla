--------------------------- MODULE MCInterruptible ---------------------------
(* Small instances of Interruptible. *)
EXTENDS Interruptible, TLC

(* Addresses are interchangeable, and so are threads with the same rights.   *)
Symmetry == Permutations(Tokens) \cup Permutations(Tids)
=============================================================================
