----------------------------- MODULE FusedL2Knn ------------------------------
(***************************************************************************)
(* spatial/knn/detail/fused_l2_knn-inl.cuh: the kernel that computes       *)
(* distances in tiles and keeps the k nearest of each query. The tiles of  *)
(* a row of tiles are divided among blocks (CTAs). Each keeps a list in    *)
(* its shared memory; the first one collects the lists of the others,      *)
(* which pass through the kernel's output one at a time, under a mutex     *)
(* that both sides spin on.                                                *)
(*                                                                         *)
(* The queries of a row of tiles move together: one stands for them. A     *)
(* kernel is run for every part of the index that is searched, and kernels *)
(* of several parts may be on the device together.                         *)
(***************************************************************************)
EXTENDS Integers, FiniteSets, Sequences, SequencesExt

CONSTANTS
  Inputs,    \* the distances: for every part, a sequence for each row of tiles
  Ks,        \* the numbers of neighbors asked for
  Infinity,  \* identity: no distance reaches it
  Nblk,      \* columns of a tile
  Slots      \* how many CTAs the device holds: minGridSize

(* There are parts and queries, and no part is empty.                        *)
ASSUME KernelAssumption ==
  /\ \A d \in Inputs :
       /\ d \in Seq(Seq(Seq(Nat))) /\ d # <<>> /\ d[1] # <<>>
       /\ \A p \in DOMAIN d : Len(d[p]) = Len(d[1]) /\ d[p][1] # <<>>
       /\ \A p \in DOMAIN d : \A y \in DOMAIN d[p] :
            Len(d[p][y]) = Len(d[p][1]) /\ \A c \in DOMAIN d[p][y] : d[p][y][c] < Infinity
  /\ Infinity \in Nat
  /\ Nblk \in Nat \ {0} /\ Slots \in Nat \ {0}
  /\ Ks \subseteq Nat \ {0}

VARIABLES
  dist,
  k,         \* numOfNN
  out,       \* out_dists and out_inds of every part
  running,   \* the kernels on the device, in the order they were launched
  mutexes,
  cta        \* the place and the memory of every CTA

input == <<dist, k>>
kernels == <<running, mutexes, cta>>

Parts == 0..(Len(dist) - 1)
Rows == 0..(Len(dist[1]) - 1)                     \* m, in tiles
Distances(p, y) == dist[p + 1][y + 1]
Size(p) == Len(dist[p + 1][1])                    \* n

-----------------------------------------------------------------------------
(* A neighbor is a pair of a distance and an index. A list has places for k, *)
(* the nearest first; where there is none it holds Nothing.                  *)
Ranks == 0..(k - 1)
Nothing == <<Infinity, -1>>
NoList == [x \in Ranks |-> Nothing]
Neighbor(p, y, c) == <<Distances(p, y)[c + 1], c>>

(* The k nearest of what is stored, wherever it is. A neighbor that is there *)
(* twice is counted twice.                                                   *)
Precedes(a, b) == a[1] < b[1] \/ (a[1] = b[1] /\ a[2] < b[2])
Near(e) == e[1] < Infinity
Found(s) == {j \in DOMAIN s : Near(s[j])}
Before(s, e) == {j \in Found(s) : Precedes(s[j], e)}
UpTo(s, e) == {j \in Found(s) : ~Precedes(e, s[j])}
Nearest(s) ==
  [x \in Ranks |-> IF Cardinality(Found(s)) <= x THEN Nothing
                   ELSE s[CHOOSE j \in Found(s) : /\ Cardinality(Before(s, s[j])) <= x
                                                   /\ x < Cardinality(UpTo(s, s[j]))]]
Joined(a, b) == [q \in ({1} \X (DOMAIN a)) \cup ({2} \X (DOMAIN b)) |->
                   IF q[1] = 1 THEN a[q[2]] ELSE b[q[2]]]

-----------------------------------------------------------------------------
(* launchConfigGenerator: as many CTAs as the device holds, or a few more.   *)
CeilDiv(a, b) == (a + b - 1) \div b
GridY == IF Len(dist[1]) > Slots THEN Slots ELSE Len(dist[1])
GridX(p) ==
  LET tiles == CeilDiv(Size(p), Nblk)
      fits == CeilDiv(Slots, GridY)
  IN  IF Slots = GridY \/ tiles = 1 THEN 1 ELSE IF fits >= tiles THEN tiles ELSE fits
Grid(p) == (0..(GridX(p) - 1)) \X (0..(GridY - 1))

NewCta(x, y, pc) == [pc |-> pc, x |-> x, row |-> y, tile |-> x,
                     list |-> NoList, heap |-> NoList, processed |-> 0]

KernelInit ==
  /\ dist \in Inputs
  /\ k \in Ks
  /\ out = [p \in Parts |-> [y \in Rows |-> NoList]]
  /\ running = <<>>
  /\ mutexes = [p \in Parts |-> [y \in Rows |-> 0]]
  /\ cta = [p \in Parts |-> <<>>]

(* fusedL2ExpKnnImpl: the mutexes are reset, and the kernel is launched.     *)
LaunchKernel(p) ==
  /\ running' = Append(running, p)
  /\ mutexes' = [mutexes EXCEPT ![p] = [y \in Rows |-> 0]]
  /\ cta' = [cta EXCEPT ![p] = [c \in Grid(p) |-> NewCta(c[1], c[2], "waiting")]]
  /\ UNCHANGED <<input, out>>

Through(p) == \A c \in DOMAIN cta[p] : cta[p][c].pc = "end"
EndKernel(p) ==
  /\ Through(p)
  /\ \E j \in DOMAIN running : running[j] = p /\ running' = RemoveAt(running, j)
  /\ UNCHANGED <<input, out, mutexes, cta>>

-----------------------------------------------------------------------------
(* The device takes CTAs in the order of their kernels, and of a kernel in   *)
(* the order of their numbers.                                               *)
Resident == UNION {{<<p, c>> : c \in {d \in DOMAIN cta[p] : cta[p][d].pc \notin {"waiting", "end"}}}
                   : p \in ToSet(running)}
Waiting(p) == {c \in DOMAIN cta[p] : cta[p][c].pc = "waiting"}
Number(p, c) == c[2] * GridX(p) + c[1]
FirstInLine(p, c) ==
  /\ \A d \in Waiting(p) : Number(p, c) <= Number(p, d)
  /\ \E i \in DOMAIN running : running[i] = p /\ \A j \in 1..(i - 1) : Waiting(running[j]) = {}

Move(p, c, r) == cta' = [cta EXCEPT ![p][c] = r]

Dispatch(p, c) ==
  /\ cta[p][c].pc = "waiting"
  /\ FirstInLine(p, c)
  /\ Cardinality(Resident) < Slots
  /\ Move(p, c, [cta[p][c] EXCEPT !.pc = "tile"])
  /\ UNCHANGED <<input, out, running, mutexes>>

(* What follows a row of tiles: the next one of this CTA.                    *)
NextRowAlways(r) == NewCta(r.x, r.row + GridY, "tile")
NextRow(r) ==
  IF r.row + GridY \in Rows THEN NewCta(r.x, r.row + GridY, "tile")
  ELSE [r EXCEPT !.pc = "end"]

(* epilog_lambda: all distances of the first tile, then those that are       *)
(* better than the last of the list. A CTA that is alone writes its list.    *)
Columns(p, tile) == {c \in 0..(Size(p) - 1) : c \div Nblk = tile}
WarpKFirst(list) == list[0][1]
WarpKTop(list) == list[k - 1][1]
Better(p, r) == {c \in Columns(p, r.tile) : Distances(p, r.row)[c + 1] < WarpKTop(r.list)}

Tile(p, c) ==
  LET r == cta[p][c]
      list == Nearest(Joined(r.list, [d \in Better(p, r) |-> Neighbor(p, r.row, d)]))
      next == r.tile + GridX(p)
      last == next * Nblk >= Size(p)
      new == [r EXCEPT !.list = list, !.tile = next]
  IN  /\ r.pc = "tile"
      /\ IF ~last THEN Move(p, c, new)
         ELSE IF GridX(p) = 1 THEN Move(p, c, NextRow(new))
         ELSE IF r.x = 0 THEN Move(p, c, [new EXCEPT !.pc = "take", !.heap = list])
         ELSE Move(p, c, [new EXCEPT !.pc = "acquire"])
      /\ out' = IF last /\ GridX(p) = 1 THEN [out EXCEPT ![p][r.row] = list] ELSE out
      /\ UNCHANGED <<input, running, mutexes>>

-----------------------------------------------------------------------------
(* rowEpilog_lambda. The mutex: 0, the output is free; 1, a producer is      *)
(* writing; -2, a list is there; -1, the consumer is reading.                *)
Grab(p, y, old, new) == mutexes' = [mutexes EXCEPT ![p][y] = new]
Swap(p, y, old, new) == mutexes[p][y] = old /\ mutexes' = [mutexes EXCEPT ![p][y] = new]
Set(p, y, new) == mutexes' = [mutexes EXCEPT ![p][y] = new]

Acquire(p, c) ==
  LET r == cta[p][c]
  IN  /\ r.pc = "acquire"
      /\ Swap(p, r.row, 0, 1)
      /\ Move(p, c, [r EXCEPT !.pc = "write"])
      /\ UNCHANGED <<input, out, running>>

Write(p, c) ==
  LET r == cta[p][c]
  IN  /\ r.pc = "write"
      /\ out' = [out EXCEPT ![p][r.row] = r.list]
      /\ Move(p, c, [r EXCEPT !.pc = "release"])
      /\ UNCHANGED <<input, running, mutexes>>

Release(p, c) ==
  LET r == cta[p][c]
  IN  /\ r.pc = "release"
      /\ Set(p, r.row, -2)
      /\ Move(p, c, NextRow(r))
      /\ UNCHANGED <<input, out, running>>

Take(p, c) ==
  LET r == cta[p][c]
  IN  /\ r.pc = "take" /\ r.processed < GridX(p) - 1
      /\ Swap(p, r.row, -2, -1)
      /\ Move(p, c, [r EXCEPT !.pc = "copy"])
      /\ UNCHANGED <<input, out, running>>

Copy(p, c) ==
  LET r == cta[p][c]
  IN  /\ r.pc = "copy"
      /\ Move(p, c, [r EXCEPT !.pc = "free", !.list = out[p][r.row]])
      /\ UNCHANGED <<input, out, running, mutexes>>

KeepTaken(p, c) ==
  LET r == cta[p][c]
  IN  /\ r.pc = "free"
      /\ Move(p, c, [r EXCEPT !.pc = "merge"])
      /\ UNCHANGED <<input, out, running, mutexes>>

Free(p, c) ==
  LET r == cta[p][c]
  IN  /\ r.pc = "free"
      /\ Set(p, r.row, 0)
      /\ Move(p, c, [r EXCEPT !.pc = "merge"])
      /\ UNCHANGED <<input, out, running>>

Merge(p, c) ==
  LET r == cta[p][c]
  IN  /\ r.pc = "merge"
      /\ Move(p, c, [r EXCEPT !.pc = "take", !.heap = Nearest(Joined(@, r.list)), !.processed = @ + 1])
      /\ UNCHANGED <<input, out, running, mutexes>>

Store(p, c) ==
  LET r == cta[p][c]
  IN  /\ r.pc = "take" /\ r.processed = GridX(p) - 1
      /\ out' = [out EXCEPT ![p][r.row] = r.heap]
      /\ Move(p, c, NextRow(r))
      /\ UNCHANGED <<input, running, mutexes>>

Cta(p, c) == \/ Dispatch(p, c) \/ Tile(p, c)
             \/ Acquire(p, c) \/ Write(p, c) \/ Release(p, c)
             \/ Take(p, c) \/ Copy(p, c) \/ Free(p, c) \/ Merge(p, c) \/ Store(p, c)
=============================================================================
