----------------------------- MODULE WarpSelect ------------------------------
(***************************************************************************)
(* matrix/detail/select_warpsort.cuh: selection by queues that subwarps    *)
(* keep in registers. Each warp runs over its part of the row; the queues  *)
(* of a block are merged in a tree through shared memory; the results of   *)
(* several blocks are merged by a second launch of one block.              *)
(*                                                                         *)
(* The lanes of a warp move together. What bitonic sort and merge do is    *)
(* kept, not how: the queue has the best of what it had and what was       *)
(* merged in. Keys equal to kDummy are left out: nothing tells them from   *)
(* empty places. Blocks share nothing, and run one after the other here.   *)
(***************************************************************************)
EXTENDS Selection, SequencesExt

CONSTANTS
  WarpSize,
  Capacities,     \* of the queues that are compiled
  MaxBufLen,      \* kMaxBufLen of warp_sort_filtered
  MultiFactor,    \* len_factor_for_multi_block
  SingleFactor,   \* len_factor_for_single_block
  BlockSizes,     \* what the occupancy calculator answers
  GridSizes,      \* min_grid_size over the batch size; 0: the batch fills the device
  Garbage         \* keys that memory may hold which nobody has written

Variants == {"immediate", "filtered", "distributed", "distributed_ext"}

(* bound_by_power_of_two, among the capacities *)
Fits(c, m) == c >= m /\ (c = 1 \/ c \div 2 < m)

ASSUME WarpAssumption ==
  /\ {WarpSize, MaxBufLen, MultiFactor, SingleFactor} \subseteq Nat \ {0}
  /\ Capacities \subseteq Nat \ {0}
  /\ \A m \in Ks : \E c \in Capacities : Fits(c, m)
  /\ \A c \in Capacities : c < WarpSize => WarpSize % c = 0   \* both are powers of two
  /\ BlockSizes \subseteq Nat \ {0} /\ \A s \in BlockSizes : s % WarpSize = 0
  /\ GridSizes \subseteq Nat
  /\ Garbage # {} /\ Garbage \subseteq Keys

VARIABLES
  variant,   \* the class of the queues
  num_of_block,
  nwarps,    \* subwarps of a block
  tmp,       \* tmp_val and tmp_idx: the results of the first launch
  merging,   \* the second launch runs
  blk,       \* blockIdx.x
  base,      \* for each warp, the next element of its first lane
  buf, fill, \* the buffer of each lane, and how far the warp has filled them
  queue,     \* val_arr_ and idx_arr_ of each subwarp
  smem,      \* val_smem and idx_smem, in pieces of k
  sub        \* the place of each subwarp in the tree merge

shape == <<variant, num_of_block, nwarps>>
warpvars == <<input, shape, out, where, tmp, merging, blk, base, buf, fill, queue, smem, sub>>

-----------------------------------------------------------------------------
CeilDiv(a, b) == (a + b - 1) \div b
RoundUp(a, b) == CeilDiv(a, b) * b
Larger(a, b) == IF a < b THEN b ELSE a
Smaller(a, b) == IF a < b THEN a ELSE b

Capacity == CHOOSE c \in Capacities : Fits(c, k)
WarpWidth == Smaller(Capacity, WarpSize)
MaxArrLen == Capacity \div WarpWidth
FullCapacity == Larger(Capacity, WarpSize)

(* calc_launch_parameter: blocks, and warps of a block.                      *)
ManyBlocks(block_size, grid) ==
  LET warps == block_size \div WarpSize
      per_warp == RoundUp(CeilDiv(CeilDiv(len, grid), warps), WarpSize)
      least == FullCapacity * MultiFactor
      per_block == Smaller(warps * least, len)
  IN  IF per_warp >= least THEN <<CeilDiv(len, per_warp * warps), warps>>
      ELSE <<CeilDiv(len, per_block), CeilDiv(per_block, least)>>
OneBlock(block_size) ==
  LET warps == block_size \div WarpSize
      per_warp == RoundUp(CeilDiv(len, warps), WarpSize)
      least == FullCapacity * SingleFactor
  IN  <<1, CeilDiv(len, IF per_warp < least THEN least ELSE per_warp)>>
LaunchParameters ==
  {IF g = 0 THEN OneBlock(s) ELSE ManyBlocks(s, g) : s \in BlockSizes, g \in GridSizes}

-----------------------------------------------------------------------------
Dummy == <<Bound, 0>>
Real(e) == e[1] # Bound
Better(a, b) == Twiddle(a[1]) < Twiddle(b[1])
Precedes(a, b) == Better(a, b) \/ (a[1] = b[1] /\ a[2] < b[2])
Best(S, m) == {x \in S : Cardinality({y \in S : Precedes(y, x)}) < m}

(* The row of a launch, and the part of k that it can have.                  *)
Size == IF merging THEN num_of_block * k ELSE n
Read(i) == IF i >= Size THEN Dummy ELSE IF merging THEN tmp[i] ELSE Element(i)
Trimmed == Smaller(k, Size)

Subwarps == 0..(nwarps - 1)
Lanes == 0..(WarpSize - 1)
PerWarp == WarpSize \div WarpWidth
Warps == 0..(nwarps \div PerWarp - 1)
Lane(l, w) == w * PerWarp + l \div WarpWidth  \* the subwarp of a lane
Blockdim == nwarps * WarpWidth
Stride == Blockdim * (IF merging THEN 1 ELSE num_of_block)

NoBuf == [w \in Warps |-> [l \in Lanes |-> {}]]
StartOfBlock(b) ==
  /\ base' = [w \in Warps |-> b * Blockdim + w * WarpSize]
  /\ buf' = NoBuf
  /\ fill' = [w \in Warps |-> 0]
  /\ queue' = [s \in Subwarps |-> {}]
  /\ smem' = [p \in 0..(CeilDiv(nwarps, 2) - 1) |-> {}]
  /\ sub' = [s \in Subwarps |-> [pc |-> "add", arrived |-> 0, nwarps |-> nwarps, shift |-> TRUE]]

WarpInit ==
  /\ variant \in Variants
  /\ \E p \in LaunchParameters : /\ num_of_block = p[1]
                                 /\ nwarps = p[2] * (FullCapacity \div Capacity)
  /\ \E x \in Garbage : tmp = [i \in 0..(num_of_block * k - 1) |-> <<x, -(i + 1)>>]
  /\ merging = FALSE
  /\ blk = 0
  /\ base = <<>> /\ buf = <<>> /\ fill = <<>> /\ queue = <<>> /\ smem = <<>> /\ sub = <<>>

Begin ==
  /\ where = "host"
  /\ where' = "warpsort"
  /\ StartOfBlock(0)
  /\ UNCHANGED <<input, shape, out, tmp, merging, blk>>

-----------------------------------------------------------------------------
(* merge_buf_ of all subwarps of a warp.                                     *)
Buffered(b, s) == UNION {b[s \div PerWarp][l] : l \in {x \in Lanes : Lane(x, s \div PerWarp) = s}}
Merged(w, b) == [s \in Subwarps |->
  IF s \div PerWarp = w THEN Best(queue[s] \cup Buffered(b, s), Capacity) ELSE queue[s]]

(* k_th_: no key that is not better can be among the best of the subwarp.    *)
PassesBest(s, e) == \A x \in queue[s] : Better(e, x)
Passes(s, e) == Cardinality({x \in queue[s] : ~Better(e, x)}) < Trimmed

Given(w) == {l \in Lanes : Real(Read(base[w] + l))}
Added(w) == {l \in Given(w) : variant = "immediate" \/ Passes(Lane(l, w), Read(base[w] + l))}
With(b, w, L) == [b EXCEPT ![w] = [l \in Lanes |->
                    IF l \in L THEN @[l] \cup {Read(base[w] + l)} ELSE @[l]]]

Step(w) == base' = [base EXCEPT ![w] = @ + Stride]
MergeIn(w, b) == queue' = Merged(w, b)

AddImmediate(w) ==
  LET b == With(buf, w, Added(w))
      full == fill[w] + 1 = MaxArrLen
  IN  /\ IF full THEN MergeIn(w, b) ELSE UNCHANGED queue
      /\ buf' = [b EXCEPT ![w] = IF full THEN [l \in Lanes |-> {}] ELSE @]
      /\ fill' = [fill EXCEPT ![w] = IF full THEN 0 ELSE @ + 1]

(* Each lane has its own buffer: one that is full makes the warp merge.      *)
AddFiltered(w) ==
  LET full == {l \in Added(w) : Cardinality(buf[w][l]) = MaxBufLen}
      b == With(buf, w, Added(w) \ full)
  IN  /\ IF full # {} THEN MergeIn(w, b) ELSE UNCHANGED queue
      /\ buf' = IF full # {} THEN With([b EXCEPT ![w] = [l \in Lanes |-> {}]], w, full) ELSE b
      /\ UNCHANGED fill

(* The warp has one buffer, with a place for each lane.                      *)
AddDistributed(w) ==
  LET place(l) == fill[w] + Cardinality({x \in Added(w) : x < l})
      At(p) == {Read(base[w] + l) : l \in {x \in Added(w) : place(x) = p}}
      b == [buf EXCEPT ![w] = [p \in Lanes |-> @[p] \cup At(p)]]
      full == fill[w] + Cardinality(Added(w)) >= WarpSize
  IN  /\ IF full THEN MergeIn(w, b) ELSE UNCHANGED queue
      /\ buf' = IF full THEN [buf EXCEPT ![w] = [p \in Lanes |-> At(p + WarpSize)]] ELSE b
      /\ fill' = [fill EXCEPT ![w] = (@ + Cardinality(Added(w))) % WarpSize]

SubwarpsOf(w) == {s \in Subwarps : s \div PerWarp = w}
Adding(w) == where = "warpsort" /\ \A s \in SubwarpsOf(w) : sub[s].pc = "add"

Add(w) ==
  /\ Adding(w) /\ base[w] < Size
  /\ CASE variant = "immediate" -> AddImmediate(w)
       [] variant = "filtered" -> AddFiltered(w)
       [] OTHER -> AddDistributed(w)
  /\ Step(w)
  /\ UNCHANGED <<input, shape, out, where, tmp, merging, blk, smem, sub>>

(* done: what is left in the buffers. The buffers of distributed_ext are in  *)
(* the shared memory of the tree merge: a barrier comes first.               *)
AfterDone == IF variant = "distributed_ext" THEN "sync" ELSE "store"
Done(w) ==
  /\ Adding(w) /\ base[w] >= Size
  /\ MergeIn(w, buf)
  /\ buf' = [buf EXCEPT ![w] = [l \in Lanes |-> {}]]
  /\ fill' = [fill EXCEPT ![w] = 0]
  /\ sub' = [s \in Subwarps |-> IF s \in SubwarpsOf(w)
       THEN [sub[s] EXCEPT !.pc = AfterDone, !.arrived = IF AfterDone = "sync" THEN 1 ELSE 0]
       ELSE sub[s]]
  /\ UNCHANGED <<input, shape, out, where, tmp, merging, blk, base, smem>>

-----------------------------------------------------------------------------
(* block_sort::done: half of the queues are stored and merged into the other *)
(* half, round by round, with one barrier in a round.                        *)
AllPast(s) == \A t \in Subwarps : sub[t].arrived > sub[s].arrived
Arrived(s) == \A t \in Subwarps : sub[t].arrived >= sub[s].arrived

Sync(s) ==
  /\ where = "warpsort" /\ sub[s].pc = "sync" /\ Arrived(s)
  /\ sub' = [sub EXCEPT ![s].pc = "store"]
  /\ UNCHANGED <<input, shape, out, where, tmp, merging, blk, base, buf, fill, queue, smem>>

Split(s) == (sub[s].nwarps + 1) \div 2
StorePlace(s) == IF sub[s].shift THEN s - Split(s) ELSE s
LoadPlace(s) == IF sub[s].shift THEN s ELSE s + Split(s)

(* A store before the barrier of done would destroy the buffers there.       *)
Destroyed == IF variant = "distributed_ext" THEN NoBuf ELSE buf

Unshifted(shift) == shift
Shifted(shift) == ~shift

Store(s) ==
  /\ where = "warpsort" /\ sub[s].pc = "store" /\ sub[s].nwarps > 1
  /\ IF Split(s) <= s /\ s < sub[s].nwarps
     THEN smem' = [smem EXCEPT ![StorePlace(s)] = Best(queue[s], Trimmed)] /\ buf' = Destroyed
     ELSE UNCHANGED <<smem, buf>>
  /\ sub' = [sub EXCEPT ![s].pc = "load", ![s].arrived = @ + 1]
  /\ UNCHANGED <<input, shape, out, where, tmp, merging, blk, base, fill, queue>>

Load(s) ==
  /\ where = "warpsort" /\ sub[s].pc = "load" /\ Arrived(s)
  /\ queue' = IF s < sub[s].nwarps - Split(s)
              THEN [queue EXCEPT ![s] = Best(@ \cup smem[LoadPlace(s)], Capacity)] ELSE queue
  /\ sub' = [sub EXCEPT ![s].pc = "store", ![s].nwarps = Split(s), ![s].shift = Shifted(@)]
  /\ UNCHANGED <<input, shape, out, where, tmp, merging, blk, base, buf, fill, smem>>

(* store, by the first subwarp.                                              *)
Result == Best(queue[0], Trimmed)
Stored(i) == LET at == {x \in Result : Cardinality({y \in Result : Precedes(y, x)}) = i}
             IN  IF at = {} THEN Dummy ELSE CHOOSE x \in at : TRUE
StoreResult ==
  /\ where = "warpsort" /\ sub[0].pc = "store" /\ sub[0].nwarps = 1
  /\ IF merging \/ num_of_block = 1
     THEN /\ out' = [i \in DOMAIN out |-> IF i < Trimmed THEN Stored(i) ELSE out[i]]
          /\ UNCHANGED tmp
     ELSE /\ tmp' = [i \in DOMAIN tmp |->
                       IF i \div k = blk /\ i % k < Trimmed THEN Stored(i % k) ELSE tmp[i]]
          /\ UNCHANGED out
  /\ sub' = [sub EXCEPT ![0].pc = "end"]
  /\ UNCHANGED <<input, shape, where, merging, blk, base, buf, fill, queue, smem>>

BlockEnds == where = "warpsort" /\ sub[0].pc = "end"
             /\ \A s \in Subwarps \ {0} : sub[s].pc = "store" /\ sub[s].nwarps = 1
EndBlock ==
  /\ BlockEnds
  /\ IF merging \/ num_of_block = 1
     THEN /\ where' = "selected"
          /\ UNCHANGED <<merging, blk, base, buf, fill, queue, smem, sub>>
     ELSE /\ UNCHANGED where
          /\ IF blk = num_of_block - 1 THEN merging' = TRUE /\ blk' = 0
             ELSE UNCHANGED merging /\ blk' = blk + 1
          /\ StartOfBlock(blk')
  /\ UNCHANGED <<input, shape, out, tmp>>

WarpActs == (\E w \in DOMAIN base : Add(w) \/ Done(w))
            \/ \E s \in DOMAIN sub : Sync(s) \/ Store(s) \/ Load(s)
WarpNext == Begin \/ WarpActs \/ StoreResult \/ EndBlock
WarpSpec == SelectInit /\ WarpInit /\ [][WarpNext]_warpvars
=============================================================================
