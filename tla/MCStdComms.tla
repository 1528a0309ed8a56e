------------------------------ MODULE MCStdComms ------------------------------
(* Small instances of StdComms. *)
EXTENDS StdComms

(* Operations, or lengths of arrays, per rank: a rank that recycles its ids  *)
(* and waits for two operations, and its peer that posts one; one each; a    *)
(* first rank that waits for both of its operations, others that do not      *)
(* wait; all but the last rank wait for one.                                 *)
TwoAndOne == [r \in Ranks |-> IF r = 0 THEN 2 ELSE 1]
OneEach == [r \in Ranks |-> 1]
FirstWaits == [r \in Ranks |-> IF r = 0 THEN 2 ELSE 0]
LastSilent == [r \in Ranks |-> IF r + 1 \in Ranks THEN 1 ELSE 0]
=============================================================================
