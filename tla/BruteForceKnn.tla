---------------------------- MODULE BruteForceKnn -----------------------------
(***************************************************************************)
(* neighbors/detail/knn_brute_force.cuh: the index is searched in parts,   *)
(* each on a stream of the handle's pool, with the fused kernel or by      *)
(* tiles of distances and matrix::select_k; the neighbors of the parts are *)
(* merged on the user's stream. The host only queues work, and waits once. *)
(***************************************************************************)
EXTENDS FusedL2Knn

CONSTANTS
  PoolSizes,  \* streams of the pool; 0: the handle has none
  Offsets,    \* the values of global_id_offset
  TileCols,   \* columns of a tile, as chooseTileSize has them
  Unknown     \* a number that is in memory nobody has written

NoOffset == -1

(* knn_merge_parts throws for more than 1024 neighbors.                      *)
ASSUME HostAssumption ==
  /\ PoolSizes \subseteq Nat /\ Offsets \subseteq Nat
  /\ TileCols \in Nat \ {0} /\ Unknown \in Int
  /\ Ks \subseteq 1..1024

VARIABLES
  metric,     \* fused, with a root or not, or tiled
  pool,
  offset,     \* global_id_offset
  cached,     \* the user's handle has its thrust policy already
  host,       \* the host's place in brute_force_knn_impl
  i,          \* the part it is at
  queue,      \* the work of every stream that has not ended; 0 is the user's
  prepared,   \* the queries have been transposed
  selected,   \* the tiles of every part that select_k is through with,
  copied,     \* and those that for_each has copied
  temp,       \* temp_out_distances and temp_out_indices of every part
  res,        \* res_D and res_I, when the parts have their own outputs
  roots       \* how often the root of the distances in res_D was taken

request == <<metric, pool, offset, cached>>
tiled == <<selected, copied, temp>>
hostvars == <<request, host, i, queue, prepared, tiled, res, roots>>
vars == <<input, out, kernels, hostvars>>

Streams == 0..pool
StreamOf(p) == IF pool = 0 THEN 0 ELSE 1 + (p % pool)  \* get_next_usable_stream
Several == Cardinality(Parts) > 1
Translated == offset # NoOffset

(* The handle of a part is a copy of the user's with another stream. A       *)
(* thrust policy that the user's handle has is copied with its stream.       *)
AnyPolicy(p) == 0
PolicyStream(p) == IF cached THEN 0 ELSE StreamOf(p)
InOrder(p) == PolicyStream(p) = StreamOf(p)

(* tile_cols. The neighbors of the tiles are copied unless one tile is all.  *)
Least(a, b) == IF a < b THEN a ELSE b
Cols(p) == IF Least(TileCols, Size(p)) < k THEN k ELSE Least(TileCols, Size(p))
Tiles(p) == CeilDiv(Size(p), Cols(p))
Split(p) == Cols(p) # Size(p)
Unwritten == [x \in Ranks |-> <<Unknown, Unknown>>]

Init ==
  /\ KernelInit
  /\ metric \in {"fused", "fused_sqrt", "tiled"}
  /\ metric # "tiled" => k <= 64
  /\ pool \in PoolSizes
  /\ offset \in Offsets \cup {NoOffset}
  /\ cached \in BOOLEAN
  /\ host = "start" /\ i = 0
  /\ queue = [s \in Streams |-> <<>>]
  /\ prepared = FALSE
  /\ selected = [p \in Parts |-> 0] /\ copied = [p \in Parts |-> 0]
  /\ temp = [p \in Parts |-> [t \in 0..(Tiles(p) - 1) |-> [y \in Rows |-> Unwritten]]]
  /\ res = [y \in Rows |-> NoList]
  /\ roots = 0

-----------------------------------------------------------------------------
(* The host.                                                                 *)
(* wait_stream_pool_on_stream comes after the transposition was queued.      *)
Prepare ==
  /\ host = "start"
  /\ queue' = [s \in Streams |-> IF s = 0 THEN <<<<"transpose">>>> ELSE <<<<"wait">>>>]
  /\ host' = "parts"
  /\ UNCHANGED <<input, out, kernels, request, i, prepared, tiled, res, roots>>

SearchPart ==
  /\ host = "parts" /\ i \in Parts
  /\ LET own == [queue EXCEPT ![StreamOf(i)] =
                   @ \o <<<<"search", i>>>> \o (IF metric = "fused_sqrt" THEN <<<<"root", i>>>> ELSE <<>>)]
         apart == metric = "tiled" /\ Split(i) /\ ~InOrder(i)
     IN  queue' = IF apart THEN [own EXCEPT ![PolicyStream(i)] = Append(@, <<"copies", i>>)] ELSE own
  /\ i' = i + 1
  /\ UNCHANGED <<input, out, kernels, request, host, prepared, tiled, res, roots>>

(* sync_stream_pool. Without a pool all work is on the user's stream.        *)
SyncStreamPool ==
  /\ host = "parts" /\ i \notin Parts
  /\ \A s \in Streams \ {0} : queue[s] = <<>>
  /\ queue' = IF Several \/ Translated THEN [queue EXCEPT ![0] = Append(@, <<"merge">>)] ELSE queue
  /\ host' = "returned"
  /\ UNCHANGED <<input, out, kernels, request, i, prepared, tiled, res, roots>>

-----------------------------------------------------------------------------
(* The streams: each does what comes first in its queue.                     *)
Turn(s, op) == queue[s] # <<>> /\ Head(queue[s])[1] = op
Part(s) == Head(queue[s])[2]
Pop(s) == queue' = [queue EXCEPT ![s] = Tail(@)]

Transpose ==
  /\ Turn(0, "transpose") /\ Pop(0)
  /\ prepared' = TRUE
  /\ UNCHANGED <<input, out, kernels, request, host, i, tiled, res, roots>>

Wait(s) ==
  /\ Turn(s, "wait") /\ prepared /\ Pop(s)
  /\ UNCHANGED <<input, out, kernels, request, host, i, prepared, tiled, res, roots>>

StartFused(s) ==
  /\ Turn(s, "search") /\ metric # "tiled"
  /\ LET p == Part(s) IN p \notin ToSet(running) /\ LaunchKernel(p)
  /\ UNCHANGED hostvars

EndFused(s) ==
  /\ Turn(s, "search") /\ metric # "tiled"
  /\ LET p == Part(s) IN p \in ToSet(running) /\ EndKernel(p)
  /\ Pop(s)
  /\ UNCHANGED <<request, host, i, prepared, tiled, res, roots>>

(* tiled_brute_force_knn: the nearest of each tile are selected into the     *)
(* output of the part, ...                                                   *)
Distance(p, y, c) == IF prepared THEN Distances(p, y)[c + 1] ELSE 0
TileNearest(p, y, t) ==
  Nearest([c \in {d \in 0..(Size(p) - 1) : d \div Cols(p) = t} |-> <<Distance(p, y, c), c>>])

SelectTile(s) ==
  /\ Turn(s, "search") /\ metric = "tiled"
  /\ LET p == Part(s)
         t == selected[p]
     IN  /\ t < Tiles(p)
         /\ Split(p) /\ InOrder(p) => copied[p] = t
         /\ out' = [out EXCEPT ![p] = [y \in Rows |-> TileNearest(p, y, t)]]
         /\ selected' = [selected EXCEPT ![p] = t + 1]
  /\ UNCHANGED <<input, kernels, request, host, i, queue, prepared, copied, temp, res, roots>>

(* ... from there copied side by side, on the stream of the policy, ...      *)
CopyTile(p) ==
  /\ temp' = [temp EXCEPT ![p][copied[p]] = out[p]]
  /\ copied' = [copied EXCEPT ![p] = @ + 1]
  /\ UNCHANGED <<input, out, kernels, request, host, i, prepared, selected, res, roots>>

CopyInOrder(s) ==
  /\ Turn(s, "search") /\ metric = "tiled"
  /\ LET p == Part(s) IN Split(p) /\ InOrder(p) /\ copied[p] < selected[p] /\ CopyTile(p)
  /\ UNCHANGED queue

CopyApart(s) ==
  /\ Turn(s, "copies")
  /\ LET p == Part(s) IN CopyTile(p) /\ IF copied[p] + 1 < Tiles(p) THEN UNCHANGED queue ELSE Pop(s)

(* ... and the nearest of those selected. Where a part has fewer than k      *)
(* elements select_k is called against its invariant, len >= k: its result   *)
(* is not specified.                                                         *)
Selection(p, y) ==
  Nearest([q \in (0..(Tiles(p) - 1)) \X Ranks |-> temp[p][q[1]][y][q[2]]])

EndTiled(s) ==
  /\ Turn(s, "search") /\ metric = "tiled"
  /\ LET p == Part(s) IN
       /\ selected[p] = Tiles(p)
       /\ Split(p) /\ InOrder(p) => copied[p] = Tiles(p)
       /\ \/ ~Split(p) /\ UNCHANGED out
          \/ Split(p) /\ out' = [out EXCEPT ![p] = [y \in Rows |-> Selection(p, y)]]
          \/ Size(p) < k /\ out' = [out EXCEPT ![p] = [y \in Rows |-> Unwritten]]
  /\ Pop(s)
  /\ UNCHANGED <<input, kernels, request, host, i, prepared, tiled, res, roots>>

(* The post-processing takes the root of res_D, whichever part it follows.   *)
Root(s) ==
  /\ Turn(s, "root") /\ Pop(s)
  /\ roots' = roots + 1
  /\ UNCHANGED <<input, out, kernels, request, host, i, prepared, tiled, res>>

(* knn_merge_parts: the nearest of all parts, with the ids of each part      *)
(* translated. The translations are the sizes summed up, or what was given   *)
(* for the first part; beyond that the code reads past the array.            *)
First[p \in Nat] == IF p = 0 THEN 0 ELSE First[p - 1] + Size(p - 1)
Translation(p) == IF ~Translated THEN First[p] ELSE IF p = 0 THEN offset ELSE Unknown
Translate(p, e) == <<e[1], e[2] + Translation(p)>>

MergeParts ==
  /\ Turn(0, "merge") /\ Pop(0)
  /\ res' = [y \in Rows |->
       Nearest([q \in Parts \X Ranks |-> Translate(q[1], out[q[1]][y][q[2]])])]
  /\ roots' = IF Several THEN 0 ELSE roots
  /\ UNCHANGED <<input, out, kernels, request, host, i, prepared, tiled>>

-----------------------------------------------------------------------------
Host == Prepare \/ SearchPart \/ SyncStreamPool
Stream(s) == Wait(s) \/ StartFused(s) \/ EndFused(s) \/ Root(s)
             \/ SelectTile(s) \/ CopyInOrder(s) \/ CopyApart(s) \/ EndTiled(s)
Device == \/ Transpose \/ MergeParts
          \/ \E s \in Streams : Stream(s)
          \/ \E p \in ToSet(running) : \E c \in DOMAIN cta[p] : Cta(p, c) /\ UNCHANGED hostvars
Next == Host \/ Device
Spec == Init /\ [][Next]_vars /\ WF_vars(Next)

-----------------------------------------------------------------------------
Lists == [Ranks -> Int \X Int]
Places == {"waiting", "tile", "acquire", "write", "release", "take", "copy", "free", "merge", "end"}

(* Type invariant; the device never holds more CTAs than fit, and a place    *)
(* beyond the last row of tiles is never reached.                            *)
TypeOK ==
  /\ host \in {"start", "parts", "returned"} /\ i \in 0..Len(dist)
  /\ prepared \in BOOLEAN /\ roots \in 0..Len(dist)
  /\ ToSet(running) \subseteq Parts /\ IsInjective(running)
  /\ mutexes \in [Parts -> [Rows -> {-2, -1, 0, 1}]]
  /\ out \in [Parts -> [Rows -> Lists]]
  /\ \A p \in Parts :
       /\ selected[p] \in 0..Tiles(p) /\ copied[p] \in 0..Tiles(p)
       /\ temp[p] \in [0..(Tiles(p) - 1) -> [Rows -> Lists]]
  /\ Cardinality(Resident) <= Slots
  /\ \A p \in Parts : \A c \in DOMAIN cta[p] : LET r == cta[p][c] IN
       /\ r.pc \in Places
       /\ r.x = c[1] /\ r.row \in Rows /\ r.tile \in Nat
       /\ r.processed \in 0..(GridX(p) - 1)
       /\ r.list \in Lists /\ r.heap \in Lists

(* The part of the output that belongs to a row of tiles is used by one CTA  *)
(* at a time, and the mutex says which side that is: no list is written over *)
(* while it is copied, or copied while it is written.                        *)
Uses(p, y) == {c \in DOMAIN cta[p] : cta[p][c].row = y /\ cta[p][c].pc \in {"write", "release", "copy", "free"}}
OneOwner ==
  \A p \in Parts, y \in Rows :
    /\ \A c, d \in Uses(p, y) : c = d
    /\ \A c \in Uses(p, y) : mutexes[p][y] = IF c[1] = 0 THEN -1 ELSE 1

Done == host = "returned" /\ \A s \in Streams : queue[s] = <<>>

(* The root that the metric asks for was taken of the distances returned,    *)
(* once: "Perform necessary post-processing".                                *)
Rooted == Done => roots = IF metric = "fused_sqrt" THEN 1 ELSE 0

(* The inputs that are answered rightly. Several parts get no root (see      *)
(* Rooted) and no translation is known for the second part. The tiled search *)
(* must not meet a part of fewer than k elements, nor copy the tiles of a    *)
(* part on the user's stream while it searches on one of the pool.           *)
Answered ==
  /\ Several => metric # "fused_sqrt" /\ ~Translated
  /\ metric = "tiled" => \A p \in Parts :
       Size(p) >= k /\ (Split(p) => ~cached \/ pool = 0)

(* When the call has returned and its work has ended, the result is the k    *)
(* nearest of all parts, in order, each once and under its own id, and with  *)
(* the root of its distance if the metric asks for it.                       *)
Result(y) == IF Several \/ Translated THEN res[y] ELSE out[0][y]
All(y) == UNION {{<<Distances(p, y)[c], First[p] + c - 1 + (IF Translated THEN offset ELSE 0)>>
                  : c \in 1..Size(p)} : p \in Parts}
NearestFound == Answered => Rooted /\ (Done =>
  \A y \in Rows :
    LET found == 0..((IF Cardinality(All(y)) < k THEN Cardinality(All(y)) ELSE k) - 1)
        chosen == {Result(y)[x] : x \in found}
    IN  /\ chosen \subseteq All(y)
        /\ \A x, z \in found : x < z => Result(y)[x] # Result(y)[z] /\ Result(y)[x][1] <= Result(y)[z][1]
        /\ \A e \in chosen, f \in All(y) \ chosen : e[1] <= f[1])

(* Every search ends, although the CTAs that wait for each other hold the    *)
(* places of those they wait for.                                            *)
SearchEnds == <>Done
=============================================================================
