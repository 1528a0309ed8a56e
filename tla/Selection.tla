------------------------------ MODULE Selection ------------------------------
(***************************************************************************)
(* What the implementations of matrix::select_k and sparse::matrix::       *)
(* select_k work on: one row of keys, of which the k best are written with *)
(* their indices. An element is a pair of a key and its index, which       *)
(* stands for in_idx[i], or i when there is no in_idx: keys and indices    *)
(* are always moved together.                                              *)
(***************************************************************************)
EXTENDS Integers, FiniteSets, Sequences

CONSTANTS
  Width,     \* bits of a key
  Rows,      \* the rows passed, as sequences of keys
  Cols,      \* len: the columns of a CSR matrix; a dense row has one key for each
  Ks,        \* the numbers of elements asked for
  Lens,      \* the lengths callers give along with a dense row
  Unwritten  \* an entry of the output nobody has written

Keys == 0..(2^Width - 1)

ASSUME WidthAssumption == Width \in Nat \ {0}
ASSUME RowsAssumption == Rows \subseteq Seq(Keys)
ASSUME ShapeAssumption == Cols \in Nat /\ Lens \subseteq Nat /\ Ks \subseteq Nat \ {0} /\ \A k \in Ks : k <= Cols
ASSUME UnwrittenAssumption == Unwritten \notin Keys \cup (Keys \X Nat)

VARIABLES
  row,         \* the keys of the row
  csr,         \* ~len_or_indptr: the row is one of a CSR matrix
  k,
  select_min,
  len_i,       \* how many keys of a dense row count
  out,         \* out and out_idx of the row
  where        \* the host's place, "selected" at the end

input == <<row, csr, k, select_min, len_i>>

n == Len(row)                                  \* l_len
len == IF csr THEN Cols ELSE n
Element(i) == <<row[i + 1], i>>
Elements == {Element(i) : i \in 0..(len_i - 1)}  \* what may be selected

(* TwiddleIn, complemented for the largest: less is better.                  *)
Twiddle(x) == IF select_min THEN x ELSE 2^Width - 1 - x
Bound == IF select_min THEN 2^Width - 1 ELSE 0

SelectInit ==
  /\ row \in Rows
  /\ csr \in BOOLEAN
  /\ k \in Ks
  /\ select_min \in BOOLEAN
  /\ IF csr THEN n <= Cols ELSE k <= n
  /\ len_i \in {n} \cup {l \in Lens : ~csr /\ k <= l /\ l <= n}
  /\ out = [i \in 0..(k - 1) |-> Unwritten]
  /\ where = "host"
=============================================================================
