------------------------------- MODULE SelectK -------------------------------
(***************************************************************************)
(* matrix::select_k and sparse::matrix::select_k: the implementation that  *)
(* was asked for, and a sort of what the radix kernels have selected.      *)
(***************************************************************************)
EXTENDS RadixSelect, WarpSelect

CONSTANT IndexBits  \* sizeof(IdxT) * 8

ASSUME IndexBitsAssumption == IndexBits \in Nat \ {0}

VARIABLES
  algo,
  sorted

radixonly == <<choice, state, pass, block>>
warponly == <<shape, tmp, merging, blk, base, buf, fill, queue, smem, sub>>
vars == <<algo, sorted, input, out, where, radixonly, warponly>>

RadixIdle ==
  /\ fused_last_filter = FALSE /\ one_block = FALSE /\ buf_len = 0
  /\ bufs = [b \in {1, 2} |-> <<>>] /\ counter = Fresh /\ histogram = Empty /\ pass = 0
  /\ block = [b \in 0..(Blocks - 1) |-> Ended]
WarpIdle ==
  /\ variant = "immediate" /\ num_of_block = 1 /\ nwarps = 1 /\ tmp = <<>>
  /\ merging = FALSE /\ blk = 0
  /\ base = <<>> /\ buf = <<>> /\ fill = <<>> /\ queue = <<>> /\ smem = <<>> /\ sub = <<>>

(* The kernels of the warps are given no lengths of dense rows.              *)
Init ==
  /\ SelectInit
  /\ sorted \in BOOLEAN
  /\ \/ algo = "radix" /\ RadixInit /\ WarpIdle
     \/ algo = "warpsort" /\ WarpInit /\ RadixIdle /\ len_i = n

-----------------------------------------------------------------------------
(* A CSR matrix without elements.                                            *)
NoElements ==
  /\ where = "host" /\ csr /\ n = 0
  /\ where' = "done"
  /\ UNCHANGED <<algo, sorted, input, out, radixonly, warponly>>

Radix ==
  /\ algo = "radix" /\ RadixNext
  /\ UNCHANGED <<algo, sorted, warponly>>

Warpsort ==
  /\ algo = "warpsort" /\ WarpNext
  /\ UNCHANGED <<algo, sorted, radixonly>>

(* segmented_sort_by_key: a stable sort by the last bits of the keys.        *)
SortKey(e) == Twiddle(e[1]) % 2^IndexBits
SortByKey(o) ==
  LET order == SetToSortSeq(DOMAIN o, LAMBDA i, j :
        SortKey(o[i]) < SortKey(o[j]) \/ (SortKey(o[i]) = SortKey(o[j]) /\ i < j))
  IN  [i \in DOMAIN o |-> o[order[i + 1]]]

Return ==
  /\ where = "selected"
  /\ where' = "done"
  /\ out' = IF algo = "radix" /\ sorted THEN SortByKey(out) ELSE out
  /\ UNCHANGED <<algo, sorted, input, radixonly, warponly>>

Next == NoElements \/ Radix \/ Warpsort \/ Return
Spec == Init /\ [][Next]_vars /\ WF_vars(Next)

-----------------------------------------------------------------------------
Entries == Keys \X (Int \cup {Unwritten}) \cup {Unwritten}

RadixTypeOK ==
  /\ fused_last_filter \in BOOLEAN /\ one_block \in BOOLEAN /\ buf_len \in BufLens \cup {0}
  /\ \A b \in {1, 2} : bufs[b] \in [0..(buf_len - 1) -> Entries]
  /\ counter.out \in 0..k /\ counter.filter \in 0..buf_len
  /\ counter.k \in 0..k /\ counter.finished \in 0..(Blocks - 1)
  /\ {counter.len, counter.previous_len, counter.back} \subseteq 0..n
  /\ counter.kth \in Keys
  /\ histogram \in [Buckets -> 0..n]
  /\ pass \in 0..NumPasses
  /\ \A b \in DOMAIN block : block[b].pc \in {"end", "start", "filter", "count", "last"}

WarpTypeOK ==
  /\ variant \in Variants /\ num_of_block \in Nat \ {0} /\ nwarps \in Nat \ {0}
  /\ blk \in 0..(num_of_block - 1) /\ merging \in BOOLEAN
  /\ \A i \in DOMAIN tmp : tmp[i] \in Entries
  /\ \A w \in DOMAIN fill : fill[w] \in 0..(Larger(MaxArrLen, WarpSize) - 1)
  /\ \A w \in DOMAIN buf : \A l \in Lanes :
       Cardinality(buf[w][l]) <= CASE variant = "immediate" -> MaxArrLen
                                   [] variant = "filtered" -> MaxBufLen
                                   [] OTHER -> 1
  /\ \A s \in DOMAIN queue : Cardinality(queue[s]) <= Capacity
  /\ \A p \in DOMAIN smem : Cardinality(smem[p]) <= Trimmed
  /\ \A s \in DOMAIN sub : /\ sub[s].pc \in {"add", "sync", "store", "load", "end"}
                           /\ sub[s].pc = "store" /\ sub[s].nwarps > 1 /\ Split(s) <= s /\ s < sub[s].nwarps
                              => StorePlace(s) \in DOMAIN smem

(* Everything stays in its array: the counters that give out places in the   *)
(* output and the buffers of radix_kernel, the buffers of lanes, and the     *)
(* pieces of shared memory of the tree merge.                                *)
TypeOK ==
  /\ algo \in {"radix", "warpsort"} /\ sorted \in BOOLEAN
  /\ where \in {"host", "radix", "last_filter", "one_block", "one_block_last", "warpsort", "selected", "done"}
  /\ out \in [0..(k - 1) -> Entries]
  /\ RadixTypeOK
  /\ WarpTypeOK

(* What select_k returns are different elements of the row, and no element   *)
(* that was left out is better than one that was selected; of a shorter row, *)
(* all elements come first. They are sorted by value if that was asked for,  *)
(* and those of the warps always are.                                        *)
Selected == 0..(Smaller(k, Cardinality(Elements)) - 1)
Sorted == \A i, j \in Selected : i < j => ~Better(out[j], out[i])
KSmallest == where = "done" /\ (csr => n > 0) =>
  /\ \A i \in Selected : out[i] \in Elements
  /\ \A i, j \in Selected : out[i] = out[j] => i = j
  /\ \A i \in Selected : \A e \in Elements \ {out[j] : j \in Selected} : ~Better(e, out[i])
  /\ sorted \/ algo = "warpsort" => Sorted

(* One barrier in a round is enough: what a subwarp merges in is what its    *)
(* partner of this round has stored, although others may be in the next.     *)
HandedOver ==
  where = "warpsort" => \A s \in DOMAIN sub :
    sub[s].pc = "load" /\ Arrived(s) /\ s < sub[s].nwarps - Split(s)
    => smem[LoadPlace(s)] = Best(queue[s + Split(s)], Trimmed)

(* Every selection ends.                                                     *)
SelectEnds == <>(where = "done")
=============================================================================
