----------------------------- MODULE RadixSelect -----------------------------
(***************************************************************************)
(* matrix/detail/select_radix.cuh: selection by the digits of the keys,    *)
(* from the first to the last. A pass counts the candidates for every      *)
(* digit, chooses the digit of the k-th key, and the next pass drops the   *)
(* candidates that have another one. Several blocks may share a row: the   *)
(* last one to finish a pass prepares the next. Candidates are moved to a  *)
(* buffer when they fit; until then every pass reads the row again.        *)
(*                                                                         *)
(* Threads of one block meet only in atomic counters, whose order nothing  *)
(* tells apart: they take their elements by index.                         *)
(***************************************************************************)
EXTENDS Selection

CONSTANTS
  BitsPerPass,
  Blocks,     \* gridDim.x
  BufLens     \* the results of calc_buf_len, for the lengths it is used with

ASSUME RadixAssumption ==
  /\ BitsPerPass \in 1..(Width - 1)
  /\ Blocks \in Nat \ {0, 1}
  /\ BufLens \subseteq Nat

VARIABLES
  fused_last_filter,
  one_block,  \* the row gets a single block
  buf_len,
  bufs,       \* the two buffers of candidates
  counter,
  histogram,
  pass,
  block       \* the place and the local variables of every block

state == <<bufs, counter, histogram>>
choice == <<fused_last_filter, one_block, buf_len>>
radixvars == <<input, choice, out, where, state, pass, block>>

-----------------------------------------------------------------------------
(* The digits of a key: the last pass may have fewer bits.                   *)
NumPasses == (Width + BitsPerPass - 1) \div BitsPerPass
Buckets == 0..(2^BitsPerPass - 1)
StartBit(p) == IF Width < (p + 1) * BitsPerPass THEN 0 ELSE Width - (p + 1) * BitsPerPass
NumBits(p) == (IF p = 0 THEN Width ELSE StartBit(p - 1)) - StartBit(p)
Bucket(x, p) == (Twiddle(x) \div 2^StartBit(p)) % 2^NumBits(p)
Prefix(x, p) == (Twiddle(x) \div 2^StartBit(p)) * 2^StartBit(p)

(* set_buf_pointers: the buffer a pass writes, and the one it reads. *)
OutBuf(p) == IF p % 2 = 1 THEN 1 ELSE 2
InBuf(p) == 3 - OutBuf(p)

Empty == [i \in Buckets |-> 0]
Fresh == [k |-> 0, len |-> 0, previous_len |-> 0, kth |-> 0,
          filter |-> 0, out |-> 0, back |-> 0, finished |-> 0]
Ended == [pc |-> "end", k |-> 0, len |-> 0, previous |-> 0, kth |-> 0,
          stop |-> FALSE, next |-> 0, smem |-> Empty]

RadixInit ==
  /\ fused_last_filter \in BOOLEAN
  /\ one_block \in BOOLEAN
  /\ buf_len \in BufLens
  /\ bufs = [b \in {1, 2} |-> [i \in 0..(buf_len - 1) |-> Unwritten]]
  /\ counter = Fresh
  /\ histogram = Empty
  /\ pass = 0
  /\ block = [b \in 0..(Blocks - 1) |-> Ended]

-----------------------------------------------------------------------------
(* choose_bucket, on the sums that scan leaves in the histogram.             *)
Scan(h) == [i \in Buckets |->
              LET S[j \in 0..i] == IF j = 0 THEN h[0] ELSE S[j - 1] + h[j] IN S[i]]
Before(h, i) == IF i = 0 THEN 0 ELSE Scan(h)[i - 1]
Chosen(h, kk) == CHOOSE i \in Buckets : Before(h, i) < kk /\ Scan(h)[i] >= kk
ChooseBucket(c, h, kk, p) ==
  LET i == Chosen(h, kk)
  IN  [c EXCEPT !.k = kk - Before(h, i),
                !.len = Scan(h)[i] - Before(h, i),
                !.kth = @ + i * 2^StartBit(p)]

(* What a pass reads: the row, or the buffer of the pass before.             *)
ReadsRow(p, previous) == p \in {0, 1} \/ previous > buf_len
Source(p, previous) ==
  IF ReadsRow(p, previous) THEN [i \in 0..(n - 1) |-> Element(i)] ELSE bufs[InBuf(p)]
Clip(m) == IF csr /\ (IF n < k THEN k ELSE n) < m THEN (IF n < k THEN k ELSE n) ELSE m

(* Nothing is kept when the candidates do not fit in a buffer.               *)
BarelySkips(p, current) == p = 0 \/ current > buf_len + 1
Skips(p, current) == p = 0 \/ current > buf_len

(* Elements of a set of places go to consecutive places: to which one.       *)
Rank(S, i) == Cardinality({j \in S : j < i})
Scatter(o, source, S, place(_)) ==
  [x \in DOMAIN o |-> LET I == {i \in S : place(i) = x}
                      IN  IF I = {} THEN o[x] ELSE source[CHOOSE i \in I : TRUE]]

(* last_filter: better keys go to the front, keys equal to the k-th to the   *)
(* back, as many as are needed.                                              *)
Below(source, m, p, kth) == {i \in 0..(m - 1) : Prefix(source[i][1], p) < kth}
AtKth(source, m, p, kth) == {i \in 0..(m - 1) : Prefix(source[i][1], p) = kth}
LastFilter(c, source, m, p, o) ==
  LET better == Below(source, m, p, c.kth)
      equal == AtKth(source, m, p, c.kth)
      kept == {i \in equal : c.back + Rank(equal, i) < c.k}
  IN  [out |-> Scatter(Scatter(o, source, better, LAMBDA i : c.out + Rank(better, i)),
                       source, kept, LAMBDA i : k - 1 - (c.back + Rank(equal, i))),
       counter |-> [c EXCEPT !.out = @ + Cardinality(better),
                             !.back = @ + Cardinality(equal)]]

(* A CSR row that has no more than k elements is copied, and padded.         *)
Short == csr /\ n <= k
CopyRow(o) == [i \in DOMAIN o |-> IF i < n THEN Element(i) ELSE <<Bound, Unwritten>>]

-----------------------------------------------------------------------------
(* The host: dense rows of k elements are copied, others get their kernels.  *)
SelectAll ==
  /\ where = "host"
  /\ k = len /\ ~csr
  /\ out' = [i \in 0..(k - 1) |-> Element(i)]
  /\ where' = "selected"
  /\ UNCHANGED <<input, choice, state, pass, block>>

Running == \E b \in DOMAIN block : block[b].pc # "end"

Launch ==
  /\ where \in {"host", "radix"} /\ ~Running
  /\ (k = len => csr)
  /\ ~one_block
  /\ IF where = "host" THEN pass' = 0 ELSE pass' = pass + 1
  /\ pass' <= NumPasses
  /\ IF pass' = NumPasses /\ fused_last_filter
     THEN where' = "selected" /\ UNCHANGED block
     ELSE /\ where' = IF pass' = NumPasses THEN "last_filter" ELSE "radix"
          /\ block' = [b \in DOMAIN block |-> [Ended EXCEPT !.pc = "start", !.next = b]]
  /\ UNCHANGED <<input, choice, out, state>>

Finish ==
  /\ where = "last_filter" /\ ~Running
  /\ where' = "selected"
  /\ UNCHANGED <<input, choice, out, state, pass, block>>

-----------------------------------------------------------------------------
(* radix_kernel: the variables a block loads when it starts.                 *)
Loaded(b) ==
  IF pass = 0
  THEN [block[b] EXCEPT !.pc = "filter", !.k = k, !.len = n, !.previous = n, !.stop = (n = k)]
  ELSE [block[b] EXCEPT !.pc = "filter", !.k = counter.k, !.len = counter.len,
                        !.previous = counter.previous_len, !.kth = counter.kth,
                        !.stop = (counter.len = counter.k)]

Start(b) ==
  /\ where = "radix" /\ block[b].pc = "start"
  /\ IF pass = 0 /\ Short
     THEN /\ out' = CopyRow(out)
          /\ counter' = [counter EXCEPT !.previous_len = 0, !.len = 0]
          /\ block' = [block EXCEPT ![b] = Ended]
     ELSE /\ block' = [block EXCEPT ![b] = IF Loaded(b).len = 0 THEN Ended ELSE Loaded(b)]
          /\ UNCHANGED <<out, counter>>
  /\ UNCHANGED <<input, choice, where, bufs, histogram, pass>>

Count(b, e) == [block EXCEPT ![b].smem[Bucket(e[1], pass)] = @ + 1, ![b].next = @ + Blocks]
ToOut(b, e) ==
  /\ out' = [out EXCEPT ![counter.out] = e]
  /\ counter' = [counter EXCEPT !.out = @ + 1]
  /\ block' = [block EXCEPT ![b].next = @ + Blocks]
  /\ UNCHANGED bufs
Drop(b) ==
  /\ block' = [block EXCEPT ![b].next = @ + Blocks]
  /\ UNCHANGED <<out, counter, bufs>>

(* filter_and_histogram: one element of a block.                             *)
ReadLen(r) == Clip(IF ReadsRow(pass, r.previous) THEN n ELSE r.previous)
Candidate(b, e) ==
  IF block[b].stop THEN ToOut(b, e)
  ELSE /\ block' = Count(b, e)
       /\ UNCHANGED out
       /\ IF Skips(pass, block[b].len) THEN UNCHANGED <<bufs, counter>>
          ELSE /\ bufs' = [bufs EXCEPT ![OutBuf(pass)][counter.filter] = e]
               /\ counter' = [counter EXCEPT !.filter = @ + 1]
Keep(b, e) ==
  LET prefix == Prefix(e[1], pass - 1)
      kth == block[b].kth
  IN  \/ prefix = kth /\ Candidate(b, e)
      \/ /\ prefix < kth
         /\ IF Skips(pass, block[b].len) /\ ~block[b].stop THEN Drop(b) ELSE ToOut(b, e)
      \/ prefix > kth /\ Drop(b)

FilterAndHistogram(b) ==
  /\ where = "radix" /\ block[b].pc = "filter"
  /\ block[b].next < ReadLen(block[b])
  /\ LET e == Source(pass, block[b].previous)[block[b].next]
     IN  IF pass = 0 THEN block' = Count(b, e) /\ UNCHANGED <<out, counter, bufs>>
         ELSE Keep(b, e)
  /\ UNCHANGED <<input, choice, where, histogram, pass>>

MergeHistogram(b) ==
  /\ where = "radix" /\ block[b].pc = "filter"
  /\ block[b].next >= ReadLen(block[b])
  /\ histogram' = IF block[b].stop THEN histogram
                  ELSE [i \in Buckets |-> histogram[i] + block[b].smem[i]]
  /\ block' = [block EXCEPT ![b].pc = "count"]
  /\ UNCHANGED <<input, choice, out, where, bufs, counter, pass>>

(* The block that counts itself last sees what all others have written.      *)
LastBlock == counter.finished = Blocks - 1
EndPass(b) ==
  /\ where = "radix" /\ block[b].pc = "count"
  /\ block' = [block EXCEPT ![b] = Ended]
  /\ IF ~LastBlock
     THEN counter' = [counter EXCEPT !.finished = @ + 1] /\ UNCHANGED <<histogram, out>>
     ELSE IF block[b].stop
     THEN /\ counter' = [counter EXCEPT !.finished = 0, !.previous_len = 0, !.len = 0]
          /\ UNCHANGED <<histogram, out>>
     ELSE LET r == block[b]
              next == [ChooseBucket(counter, histogram, r.k, pass) EXCEPT
                         !.finished = 0, !.previous_len = r.len, !.filter = 0]
              skips == Skips(pass, r.len)
              last == LastFilter(next,
                        IF skips THEN Source(pass, r.previous) ELSE bufs[OutBuf(pass)],
                        IF skips THEN n ELSE r.len, pass, out)
              filters == fused_last_filter /\ pass = NumPasses - 1
          IN  /\ counter' = IF filters THEN last.counter ELSE next
              /\ histogram' = IF pass = NumPasses - 1 THEN Scan(histogram) ELSE Empty
              /\ out' = IF filters THEN last.out ELSE out
  /\ UNCHANGED <<input, choice, where, bufs, pass>>

-----------------------------------------------------------------------------
(* last_filter_kernel, by all blocks.                                        *)
StartLast(b) ==
  /\ where = "last_filter" /\ block[b].pc = "start"
  /\ block' = [block EXCEPT ![b] =
       IF counter.previous_len = 0 THEN Ended
       ELSE [@ EXCEPT !.pc = "last", !.k = counter.k, !.kth = counter.kth,
                      !.previous = counter.previous_len]]
  /\ UNCHANGED <<input, choice, out, where, state, pass>>

LastFilterOne(b) ==
  LET r == block[b]
      inrow == r.previous > buf_len
      source == IF inrow THEN [i \in 0..(n - 1) |-> Element(i)] ELSE bufs[OutBuf(NumPasses - 1)]
  IN  /\ where = "last_filter" /\ r.pc = "last"
      /\ IF r.next >= (IF inrow THEN n ELSE r.previous)
         THEN block' = [block EXCEPT ![b] = Ended] /\ UNCHANGED <<out, counter>>
         ELSE LET e == source[r.next]
                  prefix == Prefix(e[1], NumPasses - 1)
              IN  \/ prefix < r.kth /\ ToOut(b, e)
                  \/ /\ prefix = r.kth
                     /\ counter' = [counter EXCEPT !.back = @ + 1]
                     /\ out' = IF counter.back < r.k
                               THEN [out EXCEPT ![k - 1 - counter.back] = e] ELSE out
                     /\ block' = [block EXCEPT ![b].next = @ + Blocks]
                  \/ prefix > r.kth /\ Drop(b)
      /\ UNCHANGED <<input, choice, where, bufs, histogram, pass>>

-----------------------------------------------------------------------------
(* radix_topk_one_block_kernel: all passes in one kernel.                    *)
StartOneBlock ==
  /\ where = "host" /\ one_block
  /\ (k = len => csr)
  /\ IF Short
     THEN out' = CopyRow(out) /\ where' = "selected" /\ UNCHANGED counter
     ELSE /\ counter' = [Fresh EXCEPT !.k = k, !.len = n, !.previous_len = n]
          /\ where' = "one_block"
          /\ UNCHANGED out
  /\ UNCHANGED <<input, choice, bufs, histogram, pass, block>>

OneBlockPass ==
  LET c == counter
      source == Source(pass, c.previous_len)
      m == Clip(IF c.previous_len > buf_len THEN len ELSE c.previous_len)
      equal == IF pass = 0 THEN 0..(m - 1) ELSE AtKth(source, m, pass - 1, c.kth)
      better == IF pass = 0 THEN {} ELSE Below(source, m, pass - 1, c.kth)
      counts == [x \in Buckets |-> Cardinality({i \in equal : Bucket(source[i][1], pass) = x})]
      next == [ChooseBucket(c, counts, c.k, pass) EXCEPT !.previous_len = c.len]
  IN  /\ where = "one_block"
      /\ histogram' = Scan(counts)
      /\ IF Skips(pass, c.len)
         THEN counter' = [next EXCEPT !.filter = 0] /\ UNCHANGED <<bufs, out>>
         ELSE /\ bufs' = [bufs EXCEPT ![OutBuf(pass)] =
                            Scatter(@, source, equal, LAMBDA i : Rank(equal, i))]
              /\ out' = Scatter(out, source, better, LAMBDA i : c.out + Rank(better, i))
              /\ counter' = [next EXCEPT !.filter = Cardinality(equal),
                                         !.out = @ + Cardinality(better)]
      /\ IF counter'.len = counter'.k \/ pass = NumPasses - 1
         THEN where' = "one_block_last" /\ UNCHANGED pass
         ELSE pass' = pass + 1 /\ UNCHANGED where
      /\ UNCHANGED <<input, choice, block>>

OneBlockLast ==
  LET m == counter.previous_len
      last == IF Skips(pass, m)
              THEN LastFilter(counter, [i \in 0..(n - 1) |-> Element(i)], n, pass, out)
              ELSE LastFilter(counter, bufs[OutBuf(pass)], m, pass, out)
  IN  /\ where = "one_block_last"
      /\ counter' = last.counter
      /\ out' = last.out
      /\ where' = "selected"
      /\ UNCHANGED <<input, choice, bufs, histogram, pass, block>>

RadixBlock(b) == \/ Start(b) \/ FilterAndHistogram(b) \/ MergeHistogram(b) \/ EndPass(b)
                 \/ StartLast(b) \/ LastFilterOne(b)
RadixHost == SelectAll \/ Launch \/ Finish \/ StartOneBlock \/ OneBlockPass \/ OneBlockLast
RadixNext == RadixHost \/ \E b \in DOMAIN block : RadixBlock(b)
RadixSpec == SelectInit /\ RadixInit /\ [][RadixNext]_radixvars
=============================================================================
