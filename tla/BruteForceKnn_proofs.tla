------------------------- MODULE BruteForceKnn_proofs -------------------------
(***************************************************************************)
(* Proofs about BruteForceKnn, for any parts, rows of tiles, CTAs and      *)
(* device. The mutex of a row of tiles lets one CTA at a time use the      *)
(* place of the output through which the lists of that row pass            *)
(* (OwnerCorrect); what is stored are lists, and no more CTAs are on the   *)
(* device than fit (TypeCorrect); and what is found are the k nearest      *)
(* (NearestCorrect). For the last, a list is ranked for a set: it holds    *)
(* the neighbors of that set at their ranks. Every list on its way through *)
(* a kernel is ranked for the columns it stands for, no column is in two   *)
(* of them, and none is lost (KernelGood); so are the lists of a search by *)
(* tiles (Tilings); a part that was searched has its nearest, and so has   *)
(* the merged result (FoundInv). The order of what is queued (OrderInv)    *)
(* says that nothing is read before it is there.                           *)
(***************************************************************************)
EXTENDS BruteForceKnn, FiniteSetTheorems, NaturalsInduction, WellFoundedInduction, TLAPS

IsCta(r) == {"pc", "x", "row"} \subseteq DOMAIN r

(* What the code at a place knows of its CTA and of the mutex.               *)
CtaOK(p, c) ==
  LET r == cta[p][c]
  IN  /\ IsCta(r)
      /\ r.x = c[1] /\ r.row \in Rows
      /\ r.pc \in {"acquire", "write", "release"} => c[1] # 0
      /\ r.pc \in {"take", "copy", "free", "merge"} => c[1] = 0
      /\ r.pc \in {"write", "release"} => mutexes[p][r.row] = 1
      /\ r.pc \in {"copy", "free"} => mutexes[p][r.row] = -1

PartOK(p) ==
  /\ mutexes[p] \in [Rows -> Int]
  /\ cta[p] = [c \in DOMAIN cta[p] |-> cta[p][c]]
  /\ \A c \in DOMAIN cta[p] : CtaOK(p, c)
  /\ \A y \in Rows : \A c, d \in Uses(p, y) : c = d

IInv ==
  /\ dist \in Inputs
  /\ mutexes \in [Parts -> [Rows -> Int]]
  /\ cta = [p \in Parts |-> cta[p]]
  /\ \A p \in Parts : PartOK(p)

-----------------------------------------------------------------------------
(* The number of rows of tiles, and the rows of a grid among them.           *)
LEMMA GridRows ==
  ASSUME dist \in Inputs
  PROVE  /\ Len(dist) \in Nat \ {0} /\ Len(dist[1]) \in Nat
         /\ GridY \in Int
         /\ 0..(GridY - 1) \subseteq Rows
<1>1. dist \in Seq(Seq(Seq(Nat))) /\ dist # <<>>
  BY KernelAssumption
<1>2. Len(dist) \in Nat \ {0} /\ 1 \in DOMAIN dist
  BY <1>1
<1>3. dist[1] \in Seq(Seq(Nat))
  BY <1>1, <1>2
<1>4. Len(dist[1]) \in Nat
  BY <1>3
<1> QED
  BY <1>2, <1>4, KernelAssumption DEF GridY, Rows

LEMMA OutsideDomain ==
  ASSUME NEW S, NEW f, f = [q \in S |-> f[q]], NEW p, p \notin S, NEW v
  PROVE  [f EXCEPT ![p] = v] = f
OBVIOUS

(* Nothing that IInv speaks of has changed.                                  *)
LEMMA Unmoved ==
  ASSUME IInv, UNCHANGED <<dist, mutexes, cta>>
  PROVE  IInv'
BY DEF IInv, PartOK, CtaOK, IsCta, Uses, Parts, Rows

(* One CTA moves, and the mutex of its row may change with it.               *)
LEMMA Moved ==
  ASSUME IInv, NEW p \in Parts, NEW c \in DOMAIN cta[p], NEW r, NEW m \in [Rows -> Int],
         UNCHANGED dist,
         Move(p, c, r),
         mutexes' = [mutexes EXCEPT ![p] = m],
         \A y \in Rows \ {cta[p][c].row} : m[y] = mutexes[p][y],
         IsCta(r), r.x = c[1], r.row \in Rows,
         r.pc \in {"acquire", "write", "release"} => c[1] # 0,
         r.pc \in {"take", "copy", "free", "merge"} => c[1] = 0,
         r.pc \in {"write", "release", "copy", "free"} =>
           /\ r.row = cta[p][c].row
           /\ m[r.row] = IF r.pc \in {"write", "release"} THEN 1 ELSE -1
           /\ \A d \in Uses(p, r.row) : d = c,
         \A d \in Uses(p, cta[p][c].row) \ {c} : m[cta[p][c].row] = mutexes[p][cta[p][c].row]
  PROVE  IInv'
<1>1. /\ cta' = [cta EXCEPT ![p] = [cta[p] EXCEPT ![c] = r]]
      /\ DOMAIN cta = Parts
  BY DEF Move, IInv
<1>2. /\ \A q \in Parts \ {p} : cta'[q] = cta[q] /\ mutexes'[q] = mutexes[q]
      /\ cta'[p] = [cta[p] EXCEPT ![c] = r]
      /\ mutexes'[p] = m
      /\ Parts' = Parts /\ Rows' = Rows
  BY <1>1 DEF IInv, Parts, Rows
<1>3. /\ DOMAIN cta'[p] = DOMAIN cta[p]
      /\ cta'[p][c] = r
      /\ \A d \in DOMAIN cta[p] \ {c} : cta'[p][d] = cta[p][d]
  BY <1>2
<1>4. cta' = [q \in Parts |-> cta'[q]] /\ mutexes' \in [Parts -> [Rows -> Int]] /\ dist' \in Inputs
  BY <1>1 DEF IInv
<1>5. \A q \in Parts \ {p} : PartOK(q)'
  BY <1>2 DEF IInv, PartOK, CtaOK, IsCta, Uses
<1>6. PartOK(p)'
  <2>1. CtaOK(p, c)'
    BY <1>2, <1>3 DEF CtaOK, IsCta
  <2>2. ASSUME NEW d \in DOMAIN cta[p], d # c
        PROVE  CtaOK(p, d)'
    <3>1. CtaOK(p, d) /\ cta'[p][d] = cta[p][d]
      BY <1>3, <2>2 DEF IInv, PartOK
    <3>2. cta[p][d].pc \in {"write", "release", "copy", "free"} => m[cta[p][d].row] = mutexes[p][cta[p][d].row]
      BY <2>2, <3>1 DEF Uses, CtaOK
    <3> QED
      BY <1>2, <3>1, <3>2 DEF CtaOK, IsCta
  <2>3. ASSUME NEW y \in Rows, NEW d \in Uses(p, y)', NEW e \in Uses(p, y)'
        PROVE  d = e
    <3>1. /\ d \in DOMAIN cta[p] /\ e \in DOMAIN cta[p]
          /\ d # c => d \in Uses(p, y)
          /\ e # c => e \in Uses(p, y)
      BY <1>3, <2>3 DEF Uses
    <3>2. CASE d # c /\ e # c
      BY <3>1, <3>2 DEF IInv, PartOK
    <3>3. CASE d = c \/ e = c
      <4>1. r.pc \in {"write", "release", "copy", "free"} /\ r.row = y
        BY <1>3, <2>3, <3>3 DEF Uses
      <4> QED
        BY <3>1, <4>1
    <3> QED
      BY <3>2, <3>3
  <2> QED
    BY <1>2, <1>3, <2>1, <2>2, <2>3 DEF PartOK
<1> QED
  BY <1>2, <1>4, <1>5, <1>6 DEF IInv

-----------------------------------------------------------------------------
LEMMA InitInv == Init => IInv
<1> SUFFICES ASSUME Init PROVE IInv
  OBVIOUS
<1>1. /\ dist \in Inputs
      /\ mutexes = [p \in Parts |-> [y \in Rows |-> 0]]
      /\ cta = [p \in Parts |-> <<>>]
  BY DEF Init, KernelInit
<1>2. \A p \in Parts : PartOK(p)
  BY <1>1 DEF PartOK, Uses
<1> QED
  BY <1>1, <1>2 DEF IInv

LEMMA LaunchInv ==
  ASSUME IInv, NEW p, LaunchKernel(p)
  PROVE  IInv'
<1>1. CASE p \notin Parts
  <2>1. cta' = cta /\ mutexes' = mutexes /\ dist' = dist
    BY <1>1 DEF LaunchKernel, IInv, input
  <2> QED
    BY <2>1, Unmoved
<1>2. CASE p \in Parts
  <2>1. /\ cta' = [cta EXCEPT ![p] = [c \in Grid(p) |-> NewCta(c[1], c[2], "waiting")]]
        /\ mutexes' = [mutexes EXCEPT ![p] = [y \in Rows |-> 0]]
        /\ dist' = dist /\ Parts' = Parts /\ Rows' = Rows
    BY DEF LaunchKernel, input, Parts, Rows
  <2>2. \A c \in Grid(p) : c[2] \in Rows
    BY GridRows DEF Grid, IInv
  <2>3. \A q \in Parts \ {p} : PartOK(q)'
    BY <2>1 DEF IInv, PartOK, CtaOK, IsCta, Uses
  <2>4. /\ cta'[p] = [c \in Grid(p) |-> NewCta(c[1], c[2], "waiting")]
        /\ mutexes'[p] = [y \in Rows |-> 0]
    BY <1>2, <2>1 DEF IInv
  <2>5. \A c \in DOMAIN cta'[p] : CtaOK(p, c)' /\ cta'[p][c].pc = "waiting"
    BY <2>1, <2>2, <2>4 DEF CtaOK, IsCta, NewCta
  <2>6. PartOK(p)'
    <3>1. \A y \in Rows : Uses(p, y)' = {}
      BY <2>5 DEF Uses
    <3>2. mutexes'[p] \in [Rows -> Int]
      BY <2>4
    <3>3. cta'[p] = [c \in DOMAIN cta'[p] |-> cta'[p][c]]
      BY <2>4
    <3> QED
      BY <2>1, <2>5, <3>1, <3>2, <3>3 DEF PartOK
  <2>7. cta' = [q \in Parts |-> cta'[q]]
    BY <2>1 DEF IInv
  <2>8. mutexes' \in [Parts -> [Rows -> Int]]
    <3>1. [y \in Rows |-> 0] \in [Rows -> Int]
      OBVIOUS
    <3> QED
      BY <2>1, <3>1 DEF IInv
  <2> QED
    BY <2>1, <2>3, <2>6, <2>7, <2>8 DEF IInv
<1> QED
  BY <1>1, <1>2

(* A CTA of a running kernel moves.                                          *)
LEMMA CtaInv ==
  ASSUME IInv, NEW p, NEW c \in DOMAIN cta[p], Cta(p, c)
  PROVE  IInv'
<1> DEFINE r == cta[p][c]
<1>0. dist' = dist
  BY DEF Cta, Dispatch, Tile, Acquire, Write, Release, Take, Copy, Free, Merge, Store, input
<1>1. CASE p \notin Parts
  <2>1. PICK s : Move(p, c, s)
    BY DEF Cta, Dispatch, Tile, Acquire, Write, Release, Take, Copy, Free, Merge, Store
  <2>2. cta' = cta
    BY <1>1, <2>1, OutsideDomain DEF IInv, Move
  <2>3. mutexes' = mutexes \/ \E y, v : Set(p, y, v)
    BY DEF Cta, Dispatch, Tile, Acquire, Write, Release, Take, Copy, Free, Merge, Store, Swap, Set
  <2>4. mutexes = [q \in Parts |-> mutexes[q]]
    BY DEF IInv
  <2>5. mutexes' = mutexes
    BY <1>1, <2>3, <2>4, OutsideDomain DEF Set
  <2> QED
    BY <1>0, <2>2, <2>5, Unmoved
<1>2. CASE p \in Parts
  <2>1. /\ CtaOK(p, c)
        /\ IsCta(r) /\ r.x = c[1] /\ r.row \in Rows
        /\ mutexes[p] \in [Rows -> Int]
        /\ mutexes = [mutexes EXCEPT ![p] = mutexes[p]]
        /\ \A d, e \in Uses(p, r.row) : d = e
    BY <1>2 DEF IInv, PartOK, CtaOK
  <2>2. \A d \in Uses(p, r.row) : mutexes[p][r.row] = 1 \/ mutexes[p][r.row] = -1
    BY <1>2 DEF IInv, PartOK, CtaOK, Uses
  <2>3. r.pc \in {"write", "release", "copy", "free"} => c \in Uses(p, r.row)
    BY DEF Uses
  <2>4. /\ r.pc \in {"acquire", "write", "release"} => c[1] # 0
        /\ r.pc \in {"take", "copy", "free", "merge"} => c[1] = 0
        /\ r.pc \in {"write", "release"} => mutexes[p][r.row] = 1
        /\ r.pc \in {"copy", "free"} => mutexes[p][r.row] = -1
    BY <2>1 DEF CtaOK
  <2>5. ASSUME NEW s, IsCta(s), s.x = r.x, s.row = r.row
        PROVE  /\ IsCta(NextRow(s)) /\ NextRow(s).x = c[1] /\ NextRow(s).row \in Rows
               /\ NextRow(s).pc \in {"tile", "end"}
    BY <2>1, <2>5 DEF NextRow, NewCta, IsCta
  <2> HIDE DEF r
  <2>6. ASSUME NEW s, IsCta(s), s.x = c[1], s.row \in Rows, Move(p, c, s), UNCHANGED mutexes,
               s.pc \in {"acquire", "write", "release"} => c[1] # 0,
               s.pc \in {"take", "copy", "free", "merge"} => c[1] = 0,
               s.pc \in {"write", "release", "copy", "free"} =>
                 /\ r.pc \in (IF s.pc \in {"write", "release"} THEN {"write", "release"} ELSE {"copy", "free"})
                 /\ s.row = r.row
        PROVE  IInv'
    BY <1>0, <1>2, <2>1, <2>3, <2>4, <2>6, Moved DEF r
  <2>7. ASSUME NEW s, IsCta(s), s.x = c[1], s.row \in Rows, Move(p, c, s),
               NEW v \in Int, Set(p, r.row, v),
               s.pc \in {"acquire", "write", "release"} => c[1] # 0,
               s.pc \in {"take", "copy", "free", "merge"} => c[1] = 0,
               s.pc \in {"write", "release", "copy", "free"} =>
                 /\ v = IF s.pc \in {"write", "release"} THEN 1 ELSE -1
                 /\ s.row = r.row,
               Uses(p, r.row) \subseteq {c}
        PROVE  IInv'
    <3> DEFINE m == [mutexes[p] EXCEPT ![r.row] = v]
    <3>1. mutexes' = [mutexes EXCEPT ![p] = m] /\ m \in [Rows -> Int]
      BY <1>2, <2>1, <2>7 DEF Set
    <3>2. m[r.row] = v /\ \A y \in Rows \ {r.row} : m[y] = mutexes[p][y]
      BY <2>1
    <3> HIDE DEF m
    <3>3. /\ s.pc \in {"write", "release", "copy", "free"} =>
               /\ s.row = r.row
               /\ m[s.row] = IF s.pc \in {"write", "release"} THEN 1 ELSE -1
               /\ \A d \in Uses(p, s.row) : d = c
          /\ \A d \in Uses(p, r.row) \ {c} : m[r.row] = mutexes[p][r.row]
      BY <2>7, <3>2
    <3> QED
      BY <1>0, <1>2, <2>7, <3>1, <3>2, <3>3, Moved DEF r
  <2>8. CASE Dispatch(p, c)
    <3> DEFINE s == [r EXCEPT !.pc = "tile"]
    <3>1. IsCta(s) /\ s.x = c[1] /\ s.row = r.row /\ s.pc = "tile"
      BY <2>1 DEF IsCta
    <3>2. Move(p, c, s) /\ r.pc = "waiting" /\ UNCHANGED mutexes
      BY <2>8 DEF Dispatch, r
    <3> HIDE DEF s
    <3> QED
      BY <2>1, <2>4, <2>6, <3>1, <3>2
  <2>9. CASE Tile(p, c)
    <3>1. PICK list, next : LET new == [r EXCEPT !.list = list, !.tile = next] IN
            \/ Move(p, c, new)
            \/ Move(p, c, NextRow(new))
            \/ r.x = 0 /\ Move(p, c, [new EXCEPT !.pc = "take", !.heap = list])
            \/ r.x # 0 /\ Move(p, c, [new EXCEPT !.pc = "acquire"])
      BY <2>9 DEF Tile, r
    <3>2. r.pc = "tile" /\ UNCHANGED mutexes
      BY <2>9 DEF Tile, r
    <3> DEFINE new == [r EXCEPT !.list = list, !.tile = next]
               take == [new EXCEPT !.pc = "take", !.heap = list]
               acquire == [new EXCEPT !.pc = "acquire"]
    <3>3. IsCta(new) /\ new.x = r.x /\ new.row = r.row /\ new.pc = "tile"
      BY <2>1, <3>2 DEF IsCta
    <3>4. IsCta(take) /\ take.x = r.x /\ take.row = r.row /\ take.pc = "take"
      BY <3>3 DEF IsCta
    <3>5. IsCta(acquire) /\ acquire.x = r.x /\ acquire.row = r.row /\ acquire.pc = "acquire"
      BY <3>3 DEF IsCta
    <3>6. \/ Move(p, c, new) \/ Move(p, c, NextRow(new))
          \/ (r.x = 0 /\ Move(p, c, take)) \/ (r.x # 0 /\ Move(p, c, acquire))
      BY <3>1
    <3> HIDE DEF new, take, acquire
    <3>7. CASE Move(p, c, new)
      BY <2>1, <2>6, <3>2, <3>3, <3>7
    <3>8. CASE Move(p, c, NextRow(new))
      BY <2>5, <2>6, <3>2, <3>3, <3>8
    <3>9. CASE r.x = 0 /\ Move(p, c, take)
      BY <2>1, <2>6, <3>2, <3>4, <3>9
    <3>10. CASE r.x # 0 /\ Move(p, c, acquire)
      BY <2>1, <2>6, <3>2, <3>5, <3>10
    <3> QED
      BY <3>6, <3>7, <3>8, <3>9, <3>10
  <2>10. CASE Acquire(p, c)
    <3> DEFINE s == [r EXCEPT !.pc = "write"]
    <3>1. IsCta(s) /\ s.x = c[1] /\ s.row = r.row /\ s.pc = "write"
      BY <2>1 DEF IsCta
    <3>2. Move(p, c, s) /\ r.pc = "acquire" /\ Set(p, r.row, 1) /\ mutexes[p][r.row] = 0
      BY <2>10 DEF Acquire, Swap, Set, r
    <3>3. Uses(p, r.row) \subseteq {c}
      BY <2>2, <3>2
    <3> HIDE DEF s
    <3> QED
      BY <2>1, <2>4, <2>7, <3>1, <3>2, <3>3
  <2>11. CASE Write(p, c)
    <3> DEFINE s == [r EXCEPT !.pc = "release"]
    <3>1. IsCta(s) /\ s.x = c[1] /\ s.row = r.row /\ s.pc = "release"
      BY <2>1 DEF IsCta
    <3>2. Move(p, c, s) /\ r.pc = "write" /\ UNCHANGED mutexes
      BY <2>11 DEF Write, r
    <3> HIDE DEF s
    <3> QED
      BY <2>1, <2>4, <2>6, <3>1, <3>2
  <2>12. CASE Release(p, c)
    <3>1. Move(p, c, NextRow(r)) /\ r.pc = "release" /\ Set(p, r.row, -2)
      BY <2>12 DEF Release, r
    <3>2. Uses(p, r.row) \subseteq {c}
      BY <2>1, <2>3, <3>1
    <3> QED
      BY <2>1, <2>5, <2>7, <3>1, <3>2
  <2>13. CASE Take(p, c)
    <3> DEFINE s == [r EXCEPT !.pc = "copy"]
    <3>1. IsCta(s) /\ s.x = c[1] /\ s.row = r.row /\ s.pc = "copy"
      BY <2>1 DEF IsCta
    <3>2. Move(p, c, s) /\ r.pc = "take" /\ Set(p, r.row, -1) /\ mutexes[p][r.row] = -2
      BY <2>13 DEF Take, Swap, Set, r
    <3>3. Uses(p, r.row) \subseteq {c}
      BY <2>2, <3>2
    <3> HIDE DEF s
    <3> QED
      BY <2>1, <2>4, <2>7, <3>1, <3>2, <3>3
  <2>14. CASE Copy(p, c)
    <3> DEFINE s == [r EXCEPT !.pc = "free", !.list = out[p][r.row]]
    <3>1. IsCta(s) /\ s.x = c[1] /\ s.row = r.row /\ s.pc = "free"
      BY <2>1 DEF IsCta
    <3>2. Move(p, c, s) /\ r.pc = "copy" /\ UNCHANGED mutexes
      BY <2>14 DEF Copy, r
    <3> HIDE DEF s
    <3> QED
      BY <2>1, <2>4, <2>6, <3>1, <3>2
  <2>15. CASE Free(p, c)
    <3> DEFINE s == [r EXCEPT !.pc = "merge"]
    <3>1. IsCta(s) /\ s.x = c[1] /\ s.row = r.row /\ s.pc = "merge"
      BY <2>1 DEF IsCta
    <3>2. Move(p, c, s) /\ r.pc = "free" /\ Set(p, r.row, 0)
      BY <2>15 DEF Free, r
    <3>3. Uses(p, r.row) \subseteq {c}
      BY <2>1, <2>3, <3>2
    <3> HIDE DEF s
    <3> QED
      BY <2>1, <2>4, <2>7, <3>1, <3>2, <3>3
  <2>16. CASE Merge(p, c)
    <3> DEFINE s == [r EXCEPT !.pc = "take", !.heap = Nearest(Joined(@, r.list)), !.processed = @ + 1]
    <3>1. IsCta(s) /\ s.x = c[1] /\ s.row = r.row /\ s.pc = "take"
      BY <2>1 DEF IsCta
    <3>2. Move(p, c, s) /\ r.pc = "merge" /\ UNCHANGED mutexes
      BY <2>16 DEF Merge, r
    <3> HIDE DEF s
    <3> QED
      BY <2>1, <2>4, <2>6, <3>1, <3>2
  <2>17. CASE Store(p, c)
    <3>1. Move(p, c, NextRow(r)) /\ r.pc = "take" /\ UNCHANGED mutexes
      BY <2>17 DEF Store, r
    <3> QED
      BY <2>1, <2>5, <2>6, <3>1
  <2> QED
    BY <2>8, <2>9, <2>10, <2>11, <2>12, <2>13, <2>14, <2>15, <2>16, <2>17 DEF Cta
<1> QED
  BY <1>1, <1>2

LEMMA NextInv == IInv /\ [Next]_vars => IInv'
<1> SUFFICES ASSUME IInv, [Next]_vars PROVE IInv'
  OBVIOUS
<1>1. CASE Host \/ Transpose \/ MergeParts
  BY <1>1, Unmoved DEF Host, Prepare, SearchPart, SyncStreamPool, Transpose, MergeParts, input, kernels
<1>2. ASSUME NEW s \in Streams, Stream(s)
      PROVE  IInv'
  <2>1. CASE Wait(s) \/ EndFused(s) \/ Root(s)
    BY <2>1, Unmoved DEF Wait, EndFused, EndKernel, Root, input, kernels
  <2>3. CASE SelectTile(s) \/ CopyInOrder(s) \/ CopyApart(s) \/ EndTiled(s)
    BY <2>3, Unmoved DEF SelectTile, CopyInOrder, CopyApart, CopyTile, EndTiled, input, kernels
  <2>2. CASE StartFused(s)
    BY <2>2, LaunchInv DEF StartFused
  <2> QED
    BY <1>2, <2>1, <2>2, <2>3 DEF Stream
<1>3. ASSUME NEW p \in ToSet(running), NEW c \in DOMAIN cta[p], Cta(p, c)
      PROVE  IInv'
  BY <1>3, CtaInv
<1>4. CASE UNCHANGED vars
  BY <1>4, Unmoved DEF vars, input, kernels
<1> QED
  BY <1>1, <1>2, <1>3, <1>4 DEF Next, Device

THEOREM Invariance == Spec => []IInv
<1> QED
  BY InitInv, NextInv, PTL DEF Spec

(* The part of the output through which the lists of a row of tiles pass is   *)
(* used by one CTA at a time: rowEpilog_lambda's mutex keeps the first CTA   *)
(* from copying what others write, and them from writing over what it copies. *)
THEOREM OwnerCorrect == Spec => []OneOwner
<1>1. IInv => OneOwner
  <2> SUFFICES ASSUME IInv, NEW p \in Parts, NEW y \in Rows
               PROVE  /\ \A c, d \in Uses(p, y) : c = d
                      /\ \A c \in Uses(p, y) : mutexes[p][y] = IF c[1] = 0 THEN -1 ELSE 1
    BY DEF OneOwner
  <2> QED
    BY DEF IInv, PartOK, CtaOK, Uses
<1> QED
  BY <1>1, Invariance, PTL

-----------------------------------------------------------------------------
(* What a list of n places holds: the neighbors of a set, from the nearest.  *)
Lower(S, e) == {f \in S : Precedes(f, e)}
Best(n, a, S) == \A x \in 0..(n - 1) : x < Cardinality(S) =>
                   a[x] \in S /\ Cardinality(Lower(S, a[x])) = x
Blank(n, a, S) == \A x \in 0..(n - 1) : x >= Cardinality(S) => a[x][1] >= Infinity
Ranked(n, a, S) == a \in [0..(n - 1) -> Int \X Int] /\ Best(n, a, S) /\ Blank(n, a, S)

(* Of n columns, those that the CTAs in X of g look at, all and before a     *)
(* tile; and the neighbors of row y that are in the columns C of part p.     *)
TileAt(c) == c \div Nblk
Owner(g, c) == TileAt(c) % g
TileOf(n, t) == {c \in 0..(n - 1) : TileAt(c) = t}
Share(n, g, X) == {c \in 0..(n - 1) : Owner(g, c) \in X}
ShareTo(n, g, x, t) == {c \in Share(n, g, {x}) : TileAt(c) < t}
Cand(d, p, y, C) == {<<d[p + 1][y + 1][c + 1], c>> : c \in C}

(* The work that is queued on streams q once n parts were.                   *)
Parted == {"search", "root", "copies"} \X Nat
Work(n) == {<<"transpose">>, <<"wait">>, <<"merge">>} \cup ({"search", "root", "copies"} \X (0..(n - 1)))
Queued(q, op) == \E s \in DOMAIN q : \E a \in DOMAIN q[s] : q[s][a] = op
Once(q) == \A s, t \in DOMAIN q : \A a \in DOMAIN q[s], b \in DOMAIN q[t] :
             q[s][a] = q[t][b] /\ q[s][a] \in Parted => s = t /\ a = b
Popped(q, s, r) == q[s] # <<>> /\ r = [q EXCEPT ![s] = Tail(@)]
Added(q, s, op, r) == r = [q EXCEPT ![s] = Append(@, op)]
Rootless(q, n) == {p \in 0..(n - 1) : ~Queued(q, <<"root", p>>)}

CtaType(p) == [pc : Places, x : Nat, row : Rows, tile : Nat, list : Lists, heap : Lists,
               processed : 0..(GridX(p) - 1)]
CtasOK(p) ==
  /\ DOMAIN cta[p] \subseteq Grid(p)
  /\ \A c \in DOMAIN cta[p] :
       /\ cta[p][c] \in CtaType(p)
       /\ cta[p][c].pc \in {"copy", "free", "merge"} => cta[p][c].processed < GridX(p) - 1

QueueTypes ==
  /\ metric \in {"fused", "fused_sqrt", "tiled"} /\ pool \in PoolSizes /\ offset \in Offsets \cup {NoOffset}
  /\ host \in {"start", "parts", "returned"} /\ i \in 0..Len(dist)
  /\ prepared \in BOOLEAN /\ cached \in BOOLEAN /\ roots \in Nat
  /\ queue \in [Streams -> Seq(Work(i))] /\ Once(queue)
  /\ roots <= Cardinality(Rootless(queue, i))
KernelTypes ==
  /\ k \in Ks
  /\ running \in Seq(Parts) /\ IsInjective(running)
  /\ mutexes \in [Parts -> [Rows -> {-2, -1, 0, 1}]]
  /\ out \in [Parts -> [Rows -> Lists]]
  /\ IsFiniteSet(Resident) /\ Cardinality(Resident) <= Slots
  /\ \A p \in Parts : CtasOK(p)

(* The tiles of a part are copied apart from its search as long as that is   *)
(* queued and some are left.                                                 *)
Apart(p) == metric = "tiled" /\ Split(p) /\ ~InOrder(p)
TiledOK(p) ==
  /\ selected[p] \in 0..Tiles(p) /\ copied[p] \in 0..Tiles(p)
  /\ temp[p] \in [0..(Tiles(p) - 1) -> [Rows -> Lists]]
  /\ p >= i => selected[p] = 0 /\ copied[p] = 0
  /\ Queued(queue, <<"copies", p>>) => Apart(p) /\ copied[p] < Tiles(p)
TiledTypes ==
  /\ selected \in [Parts -> Int] /\ copied \in [Parts -> Int]
  /\ temp = [p \in Parts |-> temp[p]]
  /\ \A p \in Parts : TiledOK(p)
TypeInv == QueueTypes /\ KernelTypes /\ TiledTypes

(* Every set of natural numbers has a least one.                             *)
LEMMA NatLeast ==
  ASSUME NEW S \in SUBSET Nat, S # {}
  PROVE  \E x \in S : \A y \in S : x <= y
<1>. DEFINE Less == {p \in Nat \X Nat : p[1] < p[2]}
<1>1. IsWellFoundedOn(Less, Nat)
  BY NatLessThanWellFounded DEF OpToRel
<1>2. PICK x \in S : \A y \in S : ~(<<y, x>> \in Less)
  BY <1>1, WFMin, Zenon
<1>3. \A y \in S : ~(y < x)
  BY <1>2
<1>. QED BY <1>3

-----------------------------------------------------------------------------
(* Lists. Neighbors are ordered strictly, by distance and index.             *)
LEMMA Order ==
  /\ \A a \in Int \X Int : ~Precedes(a, a)
  /\ \A a, b \in Int \X Int : a = b \/ Precedes(a, b) \/ Precedes(b, a)
  /\ \A a, b \in Int \X Int : Precedes(a, b) => ~Precedes(b, a) /\ a[1] <= b[1]
  /\ \A a, b, c \in Int \X Int : Precedes(a, b) /\ Precedes(b, c) => Precedes(a, c)
BY SMT DEF Precedes

(* How many of a set precede its members tells them apart.                   *)
LEMMA RankFacts ==
  ASSUME NEW S \in SUBSET (Int \X Int), IsFiniteSet(S)
  PROVE  /\ Cardinality(S) \in Nat
         /\ \A e \in Int \X Int : IsFiniteSet(Lower(S, e)) /\ Cardinality(Lower(S, e)) \in Nat
         /\ \A e \in S : Cardinality(Lower(S, e)) < Cardinality(S)
         /\ \A e, f \in S : Precedes(e, f) => Cardinality(Lower(S, e)) < Cardinality(Lower(S, f))
         /\ \A e, f \in S : Cardinality(Lower(S, e)) = Cardinality(Lower(S, f)) => e = f
<1>1. Cardinality(S) \in Nat
  BY FS_CardinalityType
<1>2. ASSUME NEW e \in Int \X Int
      PROVE  IsFiniteSet(Lower(S, e)) /\ Cardinality(Lower(S, e)) \in Nat
  BY FS_Subset, FS_CardinalityType DEF Lower
<1>3. ASSUME NEW U, IsFiniteSet(U), NEW V \in SUBSET U, NEW e \in U, e \notin V
      PROVE  Cardinality(V) < Cardinality(U)
  <2>1. V \cup {e} \in SUBSET U
    BY <1>3
  <2>2. IsFiniteSet(V) /\ Cardinality(V) \in Nat /\ Cardinality(U) \in Nat
    BY <1>3, FS_Subset, FS_CardinalityType
  <2>3. Cardinality(V \cup {e}) = Cardinality(V) + 1 /\ Cardinality(V \cup {e}) <= Cardinality(U)
    BY <1>3, <2>1, <2>2, FS_AddElement, FS_Subset
  <2>. QED BY <2>2, <2>3
<1>4. ASSUME NEW e \in S
      PROVE  Cardinality(Lower(S, e)) < Cardinality(S)
  <2>1. Lower(S, e) \in SUBSET S /\ e \notin Lower(S, e)
    BY Order DEF Lower
  <2>. QED BY <1>3, <2>1
<1>5. ASSUME NEW e \in S, NEW f \in S, Precedes(e, f)
      PROVE  Cardinality(Lower(S, e)) < Cardinality(Lower(S, f))
  <2>1. Lower(S, e) \in SUBSET Lower(S, f) /\ e \in Lower(S, f) /\ e \notin Lower(S, e)
    BY <1>5, Order DEF Lower
  <2>. QED BY <1>2, <1>3, <2>1
<1>6. ASSUME NEW e \in S, NEW f \in S, Cardinality(Lower(S, e)) = Cardinality(Lower(S, f))
      PROVE  e = f
  <2>1. e \in Int \X Int /\ f \in Int \X Int
    OBVIOUS
  <2>2. Cardinality(Lower(S, e)) \in Nat /\ Cardinality(Lower(S, f)) \in Nat
    BY <1>2, <2>1
  <2>3. ~Precedes(e, f)
    BY <1>5, <1>6, <2>2
  <2>4. ~Precedes(f, e)
    BY <1>5, <1>6, <2>2
  <2>. QED BY <2>1, <2>3, <2>4, Order
<1>. QED BY <1>1, <1>2, <1>4, <1>5, <1>6

(* The ranks of a list.                                                      *)
LEMMA Interval ==
  ASSUME NEW n \in Nat
  PROVE  IsFiniteSet(0..(n - 1)) /\ Cardinality(0..(n - 1)) = n
<1>1. CASE n = 0
  <2>1. 0..(n - 1) = {}
    BY <1>1
  <2>. QED BY <1>1, <2>1, FS_EmptySet
<1>2. CASE n > 0
  <2>1. n - 1 \in Int /\ ~(0 > n - 1) /\ (n - 1) - 0 + 1 = n
    BY <1>2
  <2>. QED BY <2>1, FS_Interval
<1>. QED BY <1>1, <1>2

(* Every rank below the size of a set is that of a member.                   *)
LEMMA RankExists ==
  ASSUME NEW S \in SUBSET (Int \X Int), IsFiniteSet(S), NEW x \in Nat, x < Cardinality(S)
  PROVE  \E e \in S : Cardinality(Lower(S, e)) = x
<1>. DEFINE n == Cardinality(S)
            f == [e \in S |-> Cardinality(Lower(S, e))]
            R == 0..(n - 1)
<1>1. n \in Nat /\ \A e \in S : f[e] \in R
  BY RankFacts
<1>2. IsFiniteSet(R) /\ Cardinality(R) = n
  BY <1>1, Interval
<1>3. \A e, g \in S : f[e] = f[g] => e = g
  BY RankFacts
<1>4. f \in [S -> R]
  BY <1>1
<1>5. f \in Injection(S, R)
  BY <1>3, <1>4 DEF Injection, IsInjective
<1>. HIDE DEF f, R
<1>6. f \in Surjection(S, R)
  BY <1>2, <1>5, FS_Injection
<1>7. x \in R
  BY <1>1 DEF R
<1>8. PICK e \in S : f[e] = x
  BY <1>6, <1>7 DEF Surjection
<1>. QED BY <1>8 DEF f

(* The k nearest of a memory s, of which every neighbor of S that can be     *)
(* among the k nearest has one place.                                        *)
LEMMA NearestOf ==
  ASSUME k \in Nat \ {0}, NEW S \in SUBSET (Int \X Int), IsFiniteSet(S), \A e \in S : Near(e),
         NEW s, IsFiniteSet(DOMAIN s), \A j \in DOMAIN s : s[j] \in Int \X Int,
         \A j \in Found(s) : s[j] \in S,
         \A h, j \in Found(s) : s[h] = s[j] => h = j,
         \A e \in S : Cardinality(Lower(S, e)) < k => \E j \in Found(s) : s[j] = e
  PROVE  Ranked(k, Nearest(s), S)
<1>1. IsFiniteSet(Found(s)) /\ Cardinality(Found(s)) \in Nat
  BY FS_Subset, FS_CardinalityType DEF Found
<1>2. \A e : /\ Before(s, e) \in SUBSET Found(s) /\ UpTo(s, e) \in SUBSET Found(s)
             /\ IsFiniteSet(Before(s, e)) /\ IsFiniteSet(UpTo(s, e))
             /\ Cardinality(Before(s, e)) \in Nat /\ Cardinality(UpTo(s, e)) \in Nat
             /\ Cardinality(UpTo(s, e)) <= Cardinality(Found(s))
  BY <1>1, FS_Subset, FS_CardinalityType DEF Before, UpTo
<1>3. ASSUME NEW x \in Ranks, x < Cardinality(S)
      PROVE  Nearest(s)[x] \in S /\ Cardinality(Lower(S, Nearest(s)[x])) = x
  <2>1. x \in Nat /\ x < k
    BY DEF Ranks
  <2>2. PICK e \in S : Cardinality(Lower(S, e)) = x
    BY <1>3, <2>1, RankExists
  <2>3. PICK h \in Found(s) : s[h] = e
    BY <2>1, <2>2
  <2>4. \A f \in Lower(S, e) : \E j \in Found(s) : s[j] = f
    <3>1. SUFFICES ASSUME NEW f \in Lower(S, e) PROVE \E j \in Found(s) : s[j] = f
      OBVIOUS
    <3>2. f \in S /\ Precedes(f, e)
      BY DEF Lower
    <3>3. Cardinality(Lower(S, f)) < Cardinality(Lower(S, e)) /\ Cardinality(Lower(S, f)) \in Nat
      BY <3>2, RankFacts
    <3>. QED BY <2>1, <2>2, <3>2, <3>3
  <2>5. Cardinality(Before(s, e)) = x
    <3>. DEFINE g == [j \in Before(s, e) |-> s[j]]
                B == Before(s, e)
                L == Lower(S, e)
    <3>1. \A j \in B : g[j] \in L
      BY DEF Before, Lower, Found
    <3>2. \A h1, j \in B : g[h1] = g[j] => h1 = j
      BY DEF Before
    <3>3. \A f \in L : \E j \in B : g[j] = f
      <4>1. SUFFICES ASSUME NEW f \in L PROVE \E j \in B : g[j] = f
        OBVIOUS
      <4>2. PICK j \in Found(s) : s[j] = f
        BY <2>4
      <4>3. j \in B
        BY <4>2 DEF Before, Lower
      <4>. QED BY <4>2, <4>3
    <3>4. g \in [B -> L]
      BY <3>1
    <3>5. g \in Injection(B, L)
      BY <3>2, <3>4 DEF Injection, IsInjective
    <3>. HIDE DEF g, B, L
    <3>6. g \in Surjection(B, L)
      BY <3>3, <3>4 DEF Surjection
    <3>7. IsFiniteSet(L)
      BY RankFacts DEF L
    <3>8. Cardinality(B) = Cardinality(L)
      BY <3>5, <3>6, <3>7, FS_Injection
    <3>. QED BY <2>2, <3>8 DEF B, L
  <2>6. x + 1 <= Cardinality(UpTo(s, e))
    <3>1. Before(s, e) \cup {h} \in SUBSET UpTo(s, e) /\ h \notin Before(s, e)
      BY <2>3, Order DEF Before, UpTo, Found
    <3>2. Cardinality(Before(s, e) \cup {h}) = x + 1
      BY <1>2, <2>5, <3>1, FS_AddElement
    <3>3. Cardinality(Before(s, e) \cup {h}) <= Cardinality(UpTo(s, e))
      BY <1>2, <3>1, FS_Subset
    <3>. QED BY <3>2, <3>3
  <2>7. ~(Cardinality(Found(s)) <= x)
    BY <1>1, <1>2, <2>1, <2>6
  <2>. DEFINE Is(j) == Cardinality(Before(s, s[j])) <= x /\ x < Cardinality(UpTo(s, s[j]))
  <2>8. Is(h)
    BY <1>2, <2>1, <2>3, <2>5, <2>6
  <2>9. ASSUME NEW j \in Found(s), Is(j) PROVE s[j] = e
    <3>1. s[j] \in Int \X Int /\ e \in Int \X Int
      BY DEF Found
    <3>2. ~Precedes(s[j], e)
      <4>1. SUFFICES ASSUME Precedes(s[j], e) PROVE FALSE
        OBVIOUS
      <4>2. UpTo(s, s[j]) \in SUBSET Before(s, e)
        <5>1. SUFFICES ASSUME NEW f \in UpTo(s, s[j]) PROVE f \in Before(s, e)
          OBVIOUS
        <5>2. f \in Found(s) /\ ~Precedes(s[j], s[f]) /\ s[f] \in Int \X Int
          BY DEF UpTo, Found
        <5>. QED BY <3>1, <4>1, <5>2, Order DEF Before
      <4>3. Cardinality(UpTo(s, s[j])) <= Cardinality(Before(s, e))
        BY <1>2, <4>2, FS_Subset
      <4>. QED BY <1>2, <2>1, <2>5, <2>9, <4>3
    <3>3. ~Precedes(e, s[j])
      <4>1. SUFFICES ASSUME Precedes(e, s[j]) PROVE FALSE
        OBVIOUS
      <4>2. UpTo(s, e) \in SUBSET Before(s, s[j])
        <5>1. SUFFICES ASSUME NEW f \in UpTo(s, e) PROVE f \in Before(s, s[j])
          OBVIOUS
        <5>2. f \in Found(s) /\ ~Precedes(e, s[f]) /\ s[f] \in Int \X Int
          BY DEF UpTo, Found
        <5>. QED BY <3>1, <4>1, <5>2, Order DEF Before
      <4>3. Cardinality(UpTo(s, e)) <= Cardinality(Before(s, s[j]))
        BY <1>2, <4>2, FS_Subset
      <4>. QED BY <1>2, <2>1, <2>6, <2>9, <4>3
    <3>. QED BY <3>1, <3>2, <3>3, Order
  <2>10. Nearest(s)[x] = s[CHOOSE j \in Found(s) : Is(j)]
    BY <2>7 DEF Nearest
  <2>. HIDE DEF Is
  <2>11. Nearest(s)[x] = e
    BY <2>8, <2>9, <2>10
  <2>. QED BY <2>2, <2>11
<1>4. ASSUME NEW x \in Ranks, x >= Cardinality(S)
      PROVE  Nearest(s)[x] = Nothing
  <2>. DEFINE F == Found(s)
              g == [j \in F |-> s[j]]
  <2>1. g \in [F -> S] /\ \A h, j \in F : g[h] = g[j] => h = j
    OBVIOUS
  <2>2. g \in Injection(F, S)
    BY <2>1 DEF Injection, IsInjective
  <2>. HIDE DEF g, F
  <2>3. Cardinality(F) <= Cardinality(S)
    BY <2>2, FS_Injection
  <2>4. Cardinality(F) <= x
    BY <1>1, <1>4, <2>3, RankFacts DEF Ranks, F
  <2>. QED BY <2>4 DEF Nearest, F
<1>5. Nothing \in Int \X Int /\ Nothing[1] >= Infinity
  BY KernelAssumption DEF Nothing
<1>6. Nearest(s) \in Lists
  <2>1. \A x \in Ranks : Nearest(s)[x] \in Int \X Int
    BY <1>3, <1>4, <1>5, RankFacts DEF Ranks
  <2>2. Nearest(s) = [x \in Ranks |-> Nearest(s)[x]]
    BY DEF Nearest
  <2>. QED BY <2>1, <2>2 DEF Lists
<1>. QED BY <1>3, <1>4, <1>5, <1>6 DEF Ranked, Best, Blank, Ranks, Lists

(* What a ranked list has in its places.                                     *)
LEMMA RankedFacts ==
  ASSUME k \in Nat \ {0}, NEW S \in SUBSET (Int \X Int), IsFiniteSet(S), \A e \in S : Near(e),
         NEW a, \A x \in Ranks : a[x][1] \in Int, Best(k, a, S), Blank(k, a, S)
  PROVE  /\ \A x \in Ranks : Near(a[x]) => x < Cardinality(S) /\ a[x] \in S
         /\ \A x, z \in Ranks : Near(a[x]) /\ Near(a[z]) /\ a[x] = a[z] => x = z
         /\ \A e \in S : Cardinality(Lower(S, e)) < k =>
              Cardinality(Lower(S, e)) \in Ranks /\ a[Cardinality(Lower(S, e))] = e
<1>1. ASSUME NEW x \in Ranks, Near(a[x])
      PROVE  x < Cardinality(S) /\ a[x] \in S /\ Cardinality(Lower(S, a[x])) = x
  <2>1. x \in Nat /\ Cardinality(S) \in Nat
    BY RankFacts DEF Ranks
  <2>2. x < Cardinality(S)
    <3>1. SUFFICES ASSUME x >= Cardinality(S) PROVE FALSE
      BY <2>1
    <3>2. a[x][1] >= Infinity
      BY <3>1 DEF Blank, Ranks
    <3>. QED BY <1>1, <3>2, KernelAssumption DEF Near
  <2>. QED BY <2>2 DEF Best, Ranks
<1>2. ASSUME NEW e \in S, Cardinality(Lower(S, e)) < k
      PROVE  Cardinality(Lower(S, e)) \in Ranks /\ a[Cardinality(Lower(S, e))] = e
  <2>. DEFINE x == Cardinality(Lower(S, e))
  <2>1. x \in Nat /\ x < Cardinality(S)
    BY RankFacts
  <2>2. x \in Ranks
    BY <1>2, <2>1 DEF Ranks
  <2>3. a[x] \in S /\ Cardinality(Lower(S, a[x])) = x
    BY <2>1, <2>2 DEF Best, Ranks
  <2>4. a[x] = e
    BY <2>3, RankFacts
  <2>. QED BY <2>2, <2>4
<1>. QED BY <1>1, <1>2

(* Fewer precede a neighbor in a smaller set.                                *)
LEMMA LowerIn ==
  ASSUME NEW S, IsFiniteSet(S), NEW T \in SUBSET S, NEW e
  PROVE  /\ IsFiniteSet(Lower(S, e)) /\ Cardinality(Lower(S, e)) \in Nat
         /\ IsFiniteSet(Lower(T, e)) /\ Cardinality(Lower(T, e)) \in Nat
         /\ Cardinality(Lower(T, e)) <= Cardinality(Lower(S, e))
<1>1. Lower(S, e) \in SUBSET S /\ Lower(T, e) \in SUBSET Lower(S, e)
  BY DEF Lower
<1>2. IsFiniteSet(Lower(S, e))
  BY <1>1, FS_Subset
<1>. QED BY <1>1, <1>2, FS_Subset, FS_CardinalityType

(* The lists of several sets that have nothing in common, put together.      *)
Together(I, Q, A, s, S) ==
  /\ IsFiniteSet(I)
  /\ \A h \in I : /\ Q[h] \in SUBSET (Int \X Int) /\ IsFiniteSet(Q[h]) /\ \A e \in Q[h] : Near(e)
                  /\ Best(k, A[h], Q[h]) /\ Blank(k, A[h], Q[h])
  /\ \A g, h \in I : g # h => Q[g] \cap Q[h] = {}
  /\ DOMAIN s = I \X Ranks
  /\ \A h \in I, x \in Ranks : s[<<h, x>>] \in Int \X Int /\ s[<<h, x>>] = A[h][x]
  /\ S = UNION {Q[h] : h \in I} /\ IsFiniteSet(S)

(* The k nearest of several lists are those of their union.                  *)
LEMMA NearestOfMany ==
  ASSUME k \in Nat \ {0}, NEW I, NEW Q, NEW A, NEW s, NEW S, Together(I, Q, A, s, S)
  PROVE  Ranked(k, Nearest(s), S)
<1>. USE DEF Together
<1>1. S \in SUBSET (Int \X Int) /\ \A e \in S : Near(e)
  OBVIOUS
<1>2. IsFiniteSet(DOMAIN s)
  <2>1. IsFiniteSet(Ranks)
    BY Interval DEF Ranks
  <2>. QED BY <2>1, FS_Product
<1>7. ASSUME NEW h \in I, NEW x \in Ranks
      PROVE  A[h][x][1] \in Int
  <2>1. s[<<h, x>>] \in Int \X Int
    OBVIOUS
  <2>. QED BY <2>1
<1>8. \A j \in DOMAIN s : s[j] \in Int \X Int
  OBVIOUS
<1>3. ASSUME NEW j \in Found(s)
      PROVE  \E h \in I, x \in Ranks : j = <<h, x>> /\ Near(A[h][x]) /\ s[j] = A[h][x]
                                       /\ A[h][x] \in Q[h]
  <2>1. j \in I \X Ranks /\ Near(s[j])
    BY DEF Found
  <2>2. PICK h \in I, x \in Ranks : j = <<h, x>>
    BY <2>1
  <2>3. Near(A[h][x])
    BY <2>1, <2>2
  <2>4. A[h][x] \in Q[h]
    BY <1>7, <2>3, RankedFacts
  <2>. QED BY <2>2, <2>3, <2>4
<1>4. \A j \in Found(s) : s[j] \in S
  BY <1>3
<1>5. ASSUME NEW i1 \in Found(s), NEW i2 \in Found(s), s[i1] = s[i2]
      PROVE  i1 = i2
  <2>1. PICK h1 \in I, x1 \in Ranks :
          i1 = <<h1, x1>> /\ Near(A[h1][x1]) /\ s[i1] = A[h1][x1] /\ A[h1][x1] \in Q[h1]
    BY <1>3
  <2>2. PICK h2 \in I, x2 \in Ranks :
          i2 = <<h2, x2>> /\ Near(A[h2][x2]) /\ s[i2] = A[h2][x2] /\ A[h2][x2] \in Q[h2]
    BY <1>3
  <2>3. h1 = h2
    BY <1>5, <2>1, <2>2
  <2>4. x1 = x2
    BY <1>5, <2>1, <2>2, <2>3, <1>7, RankedFacts
  <2>. QED BY <2>1, <2>2, <2>3, <2>4
<1>6. ASSUME NEW e \in S, Cardinality(Lower(S, e)) < k
      PROVE  \E j \in Found(s) : s[j] = e
  <2>1. PICK h \in I : e \in Q[h]
    OBVIOUS
  <2>. DEFINE x == Cardinality(Lower(Q[h], e))
  <2>2. x < k
    <3>1. Q[h] \in SUBSET S
      OBVIOUS
    <3>. QED BY <1>6, <3>1, LowerIn
  <2>3. x \in Ranks /\ A[h][x] = e
    BY <1>7, <2>1, <2>2, RankedFacts
  <2>. HIDE DEF x
  <2>4. <<h, x>> \in Found(s) /\ s[<<h, x>>] = e
    BY <1>1, <2>3 DEF Found
  <2>. QED BY <2>4
<1>. QED BY <1>1, <1>2, <1>8, <1>4, <1>5, <1>6, NearestOf

(* Two lists.                                                                *)
LEMMA NearestOfTwo ==
  ASSUME k \in Nat \ {0}, NEW S \in SUBSET (Int \X Int), NEW T \in SUBSET (Int \X Int),
         IsFiniteSet(S), IsFiniteSet(T), \A e \in S \cup T : Near(e), S \cap T = {},
         NEW a, NEW b, Ranked(k, a, S), Ranked(k, b, T)
  PROVE  Ranked(k, Nearest(Joined(a, b)), S \cup T)
<1>. DEFINE I == {1, 2}
            Q == [h \in I |-> IF h = 1 THEN S ELSE T]
            A == [h \in I |-> IF h = 1 THEN a ELSE b]
            s == Joined(a, b)
<1>1. DOMAIN a = Ranks /\ DOMAIN b = Ranks
      /\ \A x \in Ranks : a[x] \in Int \X Int /\ b[x] \in Int \X Int
  BY DEF Ranked, Lists, Ranks
<1>2. DOMAIN s = I \X Ranks
  BY <1>1 DEF Joined
<1>3. \A h \in I, x \in Ranks : s[<<h, x>>] = A[h][x]
  BY <1>1 DEF Joined
<1>4. \A j \in DOMAIN s : s[j] \in Int \X Int
  BY <1>1, <1>2 DEF Joined
<1>5. /\ \A h \in I : Q[h] \in SUBSET (Int \X Int)
      /\ \A h \in I : IsFiniteSet(Q[h]) /\ \A e \in Q[h] : Near(e)
      /\ \A h \in I : Best(k, A[h], Q[h]) /\ Blank(k, A[h], Q[h])
  BY DEF Ranked
<1>6. \A g, h \in I : g # h => Q[g] \cap Q[h] = {}
  OBVIOUS
<1>7. UNION {Q[h] : h \in I} = S \cup T
  OBVIOUS
<1>8. IsFiniteSet(S \cup T) /\ IsFiniteSet(I)
  <2>1. IsFiniteSet({1}) /\ IsFiniteSet({2})
    BY FS_Singleton
  <2>2. {1} \cup {2} = I
    OBVIOUS
  <2>3. IsFiniteSet({1} \cup {2})
    BY <2>1, FS_Union
  <2>4. IsFiniteSet(S \cup T)
    BY FS_Union
  <2>. HIDE DEF I
  <2>. QED BY <2>2, <2>3, <2>4
<1>. HIDE DEF I, Q, A, s
<1>9. Ranked(k, Nearest(s), S \cup T)
  <2>. DEFINE U == S \cup T
  <2>1. U = UNION {Q[h] : h \in I} /\ IsFiniteSet(U)
    BY <1>7, <1>8
  <2>. HIDE DEF U
  <2>2. Ranked(k, Nearest(s), U)
    <3>1. Together(I, Q, A, s, U)
      BY <1>2, <1>3, <1>4, <1>5, <1>6, <1>8, <2>1 DEF Together
    <3>. QED BY <3>1, NearestOfMany
  <2>. QED BY <2>2 DEF U
<1>. QED BY <1>9 DEF s

(* The sizes of the index and of the grid of a part.                         *)
LEMMA CeilDivFacts ==
  ASSUME NEW a \in Nat \ {0}, NEW b \in Nat \ {0}
  PROVE  CeilDiv(a, b) \in Nat \ {0}
<1>1. a + b - 1 >= b /\ a + b - 1 \in Nat
  OBVIOUS
<1>2. (a + b - 1) \div b \in Int /\ b * ((a + b - 1) \div b) <= a + b - 1
      /\ a + b - 1 < b * ((a + b - 1) \div b) + b
  BY <1>1
<1>3. (a + b - 1) \div b >= 1
  <2>1. SUFFICES ASSUME (a + b - 1) \div b <= 0 PROVE FALSE
    BY <1>2
  <2>2. b * ((a + b - 1) \div b) <= 0
    BY <1>2, <2>1
  <2>. QED BY <1>1, <1>2, <2>2
<1>. QED BY <1>2, <1>3 DEF CeilDiv

(* The shape of an input.                                                    *)
LEMMA Shapes ==
  ASSUME dist \in Inputs
  PROVE  /\ GridY \in Nat \ {0} /\ GridY <= Len(dist[1]) /\ Len(dist[1]) \in Nat \ {0}
         /\ \A p \in Parts : /\ Size(p) \in Nat \ {0} /\ GridX(p) \in Nat \ {0}
                             /\ \A y \in Rows : \A c \in 0..(Size(p) - 1) :
                                  dist[p + 1][y + 1][c + 1] \in Nat /\ dist[p + 1][y + 1][c + 1] < Infinity
<1>1. dist \in Seq(Seq(Seq(Nat))) /\ dist # <<>> /\ dist[1] # <<>>
  BY KernelAssumption
<1>2. dist[1] \in Seq(Seq(Nat))
  BY <1>1
<1>3. Len(dist[1]) \in Nat \ {0}
  BY <1>1, <1>2
<1>4. GridY \in Nat \ {0} /\ GridY <= Len(dist[1])
  BY <1>3, KernelAssumption DEF GridY
<1>5. ASSUME NEW p \in Parts
      PROVE  /\ Size(p) \in Nat \ {0} /\ GridX(p) \in Nat \ {0}
             /\ \A y \in Rows : \A c \in 0..(Size(p) - 1) :
                  dist[p + 1][y + 1][c + 1] \in Nat /\ dist[p + 1][y + 1][c + 1] < Infinity
  <2>1. p + 1 \in DOMAIN dist
    BY <1>1 DEF Parts
  <2>2. dist[p + 1] \in Seq(Seq(Nat)) /\ Len(dist[p + 1]) = Len(dist[1]) /\ dist[p + 1][1] # <<>>
    BY <1>1, <2>1, KernelAssumption
  <2>3. dist[p + 1][1] \in Seq(Nat)
    BY <1>3, <2>2
  <2>4. Size(p) \in Nat \ {0}
    BY <2>2, <2>3 DEF Size
  <2>5. GridX(p) \in Nat \ {0}
    <3>1. CeilDiv(Size(p), Nblk) \in Nat \ {0} /\ CeilDiv(Slots, GridY) \in Nat \ {0}
      BY <1>4, <2>4, CeilDivFacts, KernelAssumption
    <3>. QED BY <3>1 DEF GridX
  <2>6. ASSUME NEW y \in Rows, NEW c \in 0..(Size(p) - 1)
        PROVE  dist[p + 1][y + 1][c + 1] \in Nat /\ dist[p + 1][y + 1][c + 1] < Infinity
    <3>1. y + 1 \in DOMAIN dist[p + 1]
      BY <1>3, <2>2 DEF Rows
    <3>2. Len(dist[p + 1][y + 1]) = Size(p)
      BY <2>1, <3>1, KernelAssumption DEF Size
    <3>3. dist[p + 1][y + 1] \in Seq(Nat)
      BY <2>2, <3>1
    <3>4. c + 1 \in DOMAIN dist[p + 1][y + 1]
      BY <2>4, <3>2, <3>3
    <3>. QED BY <2>1, <3>1, <3>3, <3>4, KernelAssumption
  <2>. QED BY <2>4, <2>5, <2>6
<1>. QED BY <1>3, <1>4, <1>5

(* The nearest of any memory make a list.                                    *)
LEMMA NearestIsList ==
  ASSUME k \in Nat \ {0}, NEW s, IsFiniteSet(DOMAIN s), \A j \in DOMAIN s : s[j] \in Int \X Int
  PROVE  Nearest(s) \in Lists
<1>. DEFINE F == Found(s)
            N(e) == Cardinality(UpTo(s, e))
<1>1. IsFiniteSet(F) /\ Cardinality(F) \in Nat
  BY FS_Subset, FS_CardinalityType DEF Found
<1>2. \A j \in F : s[j] \in Int \X Int
  BY DEF Found
<1>3. \A e : /\ IsFiniteSet(Before(s, e)) /\ Cardinality(Before(s, e)) \in Nat
             /\ IsFiniteSet(UpTo(s, e)) /\ N(e) \in Nat /\ N(e) <= Cardinality(F)
  BY <1>1, FS_Subset, FS_CardinalityType DEF Before, UpTo
<1>4. ASSUME NEW x \in Nat, x < Cardinality(F)
      PROVE  \E j \in F : Cardinality(Before(s, s[j])) <= x /\ x < N(s[j])
  <2>. DEFINE Largest(T) == {j \in T : \A h \in T : N(s[h]) <= N(s[j])}
  <2>1. ASSUME NEW T \in SUBSET F, T # {}
        PROVE  \E j \in T : T \in SUBSET UpTo(s, s[j])
    <3>1. PICK n \in {Cardinality(F) - N(s[j]) : j \in T} :
            \A m \in {Cardinality(F) - N(s[j]) : j \in T} : n <= m
      <4>1. {Cardinality(F) - N(s[j]) : j \in T} \in SUBSET Nat
        BY <1>1, <1>3
      <4>2. {Cardinality(F) - N(s[j]) : j \in T} # {}
        BY <2>1
      <4>. HIDE DEF F, N
      <4>. QED BY <4>1, <4>2, NatLeast
    <3>2. PICK j \in T : n = Cardinality(F) - N(s[j])
      BY <3>1
    <3>4. \A h \in T : N(s[h]) <= N(s[j])
      <4>1. SUFFICES ASSUME NEW h \in T PROVE N(s[h]) <= N(s[j])
        OBVIOUS
      <4>2. n <= Cardinality(F) - N(s[h])
        BY <3>1
      <4>. HIDE DEF F, N
      <4>3. Cardinality(F) \in Nat /\ N(s[j]) \in Nat /\ N(s[h]) \in Nat
        BY <1>1, <1>3
      <4>. QED BY <3>2, <4>2, <4>3
    <3>3. ASSUME NEW h \in T
          PROVE  h \in UpTo(s, s[j])
      <4>1. SUFFICES ASSUME Precedes(s[j], s[h]) PROVE FALSE
        BY DEF UpTo
      <4>2. UpTo(s, s[j]) \in SUBSET UpTo(s, s[h]) /\ h \in UpTo(s, s[h]) /\ h \notin UpTo(s, s[j])
        <5>1. s[j] \in Int \X Int /\ s[h] \in Int \X Int /\ h \in Found(s)
          BY <1>2
        <5>2. h \in UpTo(s, s[h]) /\ h \notin UpTo(s, s[j])
          BY <4>1, <5>1, Order DEF UpTo
        <5>3. ASSUME NEW g \in UpTo(s, s[j])
              PROVE  g \in UpTo(s, s[h])
          <6>1. g \in Found(s) /\ s[g] \in Int \X Int /\ ~Precedes(s[j], s[g])
            BY <1>2 DEF UpTo
          <6>2. ~Precedes(s[h], s[g])
            BY <4>1, <5>1, <6>1, Order
          <6>. QED BY <6>1, <6>2 DEF UpTo
        <5>. QED BY <5>2, <5>3
      <4>3. N(s[j]) <= N(s[h]) /\ N(s[j]) # N(s[h])
        BY <1>3, <4>2, FS_Subset
      <4>. QED BY <1>3, <3>4, <4>3
    <3>. QED BY <3>3
  <2>2. PICK l \in F : F \in SUBSET UpTo(s, s[l])
    <3>1. F # {}
      BY <1>1, <1>4, FS_EmptySet
    <3>. HIDE DEF F
    <3>. QED BY <2>1, <3>1
  <2>3. N(s[l]) = Cardinality(F)
    <3>1. UpTo(s, s[l]) = F
      BY <2>2 DEF UpTo
    <3>. QED BY <3>1
  <2>4. PICK n \in {N(s[j]) : j \in {h \in F : x < N(s[h])}} :
          \A m \in {N(s[j]) : j \in {h \in F : x < N(s[h])}} : n <= m
    <3>1. {N(s[j]) : j \in {h \in F : x < N(s[h])}} \in SUBSET Nat
      BY <1>3
    <3>2. {N(s[j]) : j \in {h \in F : x < N(s[h])}} # {}
      BY <1>4, <2>3
    <3>. HIDE DEF F, N
    <3>. QED BY <3>1, <3>2, NatLeast
  <2>5. PICK j \in F : x < N(s[j]) /\ \A h \in F : x < N(s[h]) => N(s[j]) <= N(s[h])
    BY <2>4
  <2>6. Cardinality(Before(s, s[j])) <= x
    <3>1. SUFFICES ASSUME x < Cardinality(Before(s, s[j])) PROVE FALSE
      BY <1>3
    <3>2. Before(s, s[j]) # {}
      BY <3>1, FS_EmptySet
    <3>3. Before(s, s[j]) \in SUBSET F
      BY DEF Before
    <3>. HIDE DEF F, N
    <3>4. PICK h \in Before(s, s[j]) : Before(s, s[j]) \in SUBSET UpTo(s, s[h])
      BY <2>1, <3>2, <3>3
    <3>. USE DEF F, N
    <3>5. x < N(s[h])
      BY <1>3, <3>1, <3>4, FS_Subset
    <3>6. UpTo(s, s[h]) \in SUBSET UpTo(s, s[j]) /\ j \in UpTo(s, s[j]) /\ j \notin UpTo(s, s[h])
      <4>1. s[j] \in Int \X Int /\ s[h] \in Int \X Int /\ j \in Found(s) /\ Precedes(s[h], s[j])
        BY <1>2, <3>3 DEF Before
      <4>2. j \in UpTo(s, s[j]) /\ j \notin UpTo(s, s[h])
        BY <4>1, Order DEF UpTo
      <4>3. ASSUME NEW g \in UpTo(s, s[h])
            PROVE  g \in UpTo(s, s[j])
        <5>1. g \in Found(s) /\ s[g] \in Int \X Int /\ ~Precedes(s[h], s[g])
          BY <1>2 DEF UpTo
        <5>2. ~Precedes(s[j], s[g])
          BY <4>1, <5>1, Order
        <5>. QED BY <5>1, <5>2 DEF UpTo
      <4>. QED BY <4>2, <4>3
    <3>7. N(s[h]) <= N(s[j]) /\ N(s[h]) # N(s[j])
      BY <1>3, <3>6, FS_Subset
    <3>. QED BY <1>3, <2>5, <3>3, <3>4, <3>5, <3>7
  <2>. QED BY <2>5, <2>6
<1>5. ASSUME NEW x \in Ranks
      PROVE  Nearest(s)[x] \in Int \X Int
  <2>1. CASE Cardinality(F) <= x
    BY <2>1, KernelAssumption DEF Nearest, Nothing
  <2>2. CASE ~(Cardinality(F) <= x)
    <3>1. x \in Nat /\ x < Cardinality(F)
      BY <1>1, <2>2 DEF Ranks
    <3>2. \E j \in F : Cardinality(Before(s, s[j])) <= x /\ x < N(s[j])
      BY <1>4, <3>1
    <3>3. Nearest(s)[x] = s[CHOOSE j \in F : Cardinality(Before(s, s[j])) <= x /\ x < N(s[j])]
      BY <2>2 DEF Nearest
    <3>4. (CHOOSE j \in F : Cardinality(Before(s, s[j])) <= x /\ x < N(s[j])) \in F
      BY <3>2
    <3>. QED BY <1>2, <3>3, <3>4
  <2>. QED BY <2>1, <2>2
<1>6. Nearest(s) = [x \in Ranks |-> Nearest(s)[x]]
  BY DEF Nearest
<1>. QED BY <1>5, <1>6 DEF Lists

(* The head of a queue is taken.                                             *)
LEMMA PopFacts ==
  ASSUME NEW D, NEW W, NEW q \in [D -> Seq(W)], NEW s \in D, NEW r, Popped(q, s, r)
  PROVE  /\ r \in [D -> Seq(W)] /\ DOMAIN r = D /\ DOMAIN q = D
         /\ Head(q[s]) \in W /\ q[s][1] = Head(q[s])
         /\ \A t \in D \ {s} : r[t] = q[t]
         /\ Len(q[s]) \in Nat \ {0} /\ Len(r[s]) = Len(q[s]) - 1
         /\ \A t \in D : DOMAIN q[t] = 1..Len(q[t]) /\ DOMAIN r[t] = 1..Len(r[t])
         /\ \A a \in 1..(Len(q[s]) - 1) : r[s][a] = q[s][a + 1]
<1>. USE DEF Popped
<1>1. q[s] \in Seq(W) /\ Tail(q[s]) \in Seq(W)
  OBVIOUS
<1>2. r[s] = Tail(q[s]) /\ \A t \in D \ {s} : r[t] = q[t]
  OBVIOUS
<1>3. r \in [D -> Seq(W)] /\ DOMAIN r = D /\ DOMAIN q = D
  BY <1>1
<1>4. /\ Head(q[s]) \in W /\ q[s][1] = Head(q[s])
      /\ Len(q[s]) \in Nat \ {0} /\ Len(Tail(q[s])) = Len(q[s]) - 1
      /\ \A a \in 1..(Len(q[s]) - 1) : Tail(q[s])[a] = q[s][a + 1]
  BY <1>1
<1>5. \A t \in D : DOMAIN q[t] = 1..Len(q[t]) /\ DOMAIN r[t] = 1..Len(r[t])
  BY <1>3
<1>. QED BY <1>2, <1>3, <1>4, <1>5

(* What is taken from a queue is in none any more, if it was work of a       *)
(* part.                                                                     *)
LEMMA PopOnce ==
  ASSUME NEW D, NEW W, NEW q \in [D -> Seq(W)], NEW s \in D, NEW r, Popped(q, s, r), Once(q)
  PROVE  /\ Once(r)
         /\ \A op : Queued(r, op) => Queued(q, op)
         /\ \A op : Queued(q, op) /\ op # Head(q[s]) => Queued(r, op)
         /\ Head(q[s]) \in Parted => ~Queued(r, Head(q[s]))
<1>1. /\ r \in [D -> Seq(W)] /\ DOMAIN r = D /\ DOMAIN q = D
      /\ Head(q[s]) \in W /\ q[s][1] = Head(q[s])
      /\ \A t \in D \ {s} : r[t] = q[t]
      /\ Len(q[s]) \in Nat \ {0} /\ Len(r[s]) = Len(q[s]) - 1
      /\ \A t \in D : DOMAIN q[t] = 1..Len(q[t]) /\ DOMAIN r[t] = 1..Len(r[t])
      /\ \A a \in 1..(Len(q[s]) - 1) : r[s][a] = q[s][a + 1]
  BY PopFacts
<1>. DEFINE From(t, a) == IF t = s THEN a + 1 ELSE a
<1>2. ASSUME NEW t \in D, NEW a \in DOMAIN r[t]
      PROVE  /\ From(t, a) \in DOMAIN q[t] /\ q[t][From(t, a)] = r[t][a]
             /\ a \in Int /\ (t = s => From(t, a) # 1)
  <2>1. CASE t = s
    BY <1>1, <2>1
  <2>2. CASE t # s
    BY <1>1, <2>2
  <2>. QED BY <2>1, <2>2
<1>3. ASSUME NEW t \in D, NEW a \in DOMAIN q[t], ~(t = s /\ a = 1)
      PROVE  \E b \in DOMAIN r[t] : r[t][b] = q[t][a]
  <2>1. CASE t = s
    <3>1. a - 1 \in DOMAIN r[t] /\ r[t][a - 1] = q[t][a]
      BY <1>1, <1>3, <2>1
    <3>. QED BY <3>1
  <2>2. CASE t # s
    BY <1>1, <2>2
  <2>. QED BY <2>1, <2>2
<1>4. Once(r)
  <2>1. SUFFICES ASSUME NEW t \in D, NEW u \in D, NEW a \in DOMAIN r[t], NEW b \in DOMAIN r[u],
                        r[t][a] = r[u][b], r[t][a] \in Parted
                 PROVE  t = u /\ a = b
    BY <1>1 DEF Once
  <2>2. t = u /\ From(t, a) = From(u, b)
    BY <1>1, <1>2, <2>1 DEF Once
  <2>. QED BY <1>2, <2>2
<1>5. ASSUME NEW op, Queued(r, op)
      PROVE  Queued(q, op)
  BY <1>1, <1>2, <1>5 DEF Queued
<1>6. ASSUME NEW op, Queued(q, op), op # Head(q[s])
      PROVE  Queued(r, op)
  <2>1. PICK t \in D : \E a \in DOMAIN q[t] : q[t][a] = op
    BY <1>1, <1>6 DEF Queued
  <2>2. PICK a \in DOMAIN q[t] : q[t][a] = op
    BY <2>1
  <2>3. ~(t = s /\ a = 1)
    BY <1>1, <1>6, <2>2
  <2>. QED BY <1>1, <1>3, <2>2, <2>3 DEF Queued
<1>7. ASSUME Head(q[s]) \in Parted, Queued(r, Head(q[s]))
      PROVE  FALSE
  <2>1. PICK t \in D : \E a \in DOMAIN r[t] : r[t][a] = Head(q[s])
    BY <1>1, <1>7 DEF Queued
  <2>2. PICK a \in DOMAIN r[t] : r[t][a] = Head(q[s])
    BY <2>1
  <2>3. 1 \in DOMAIN q[s] /\ q[s][1] = q[t][From(t, a)] /\ From(t, a) \in DOMAIN q[t]
    BY <1>1, <1>2, <2>2
  <2>4. t = s /\ From(t, a) = 1
    BY <1>1, <1>7, <2>3 DEF Once
  <2>. QED BY <1>2, <2>4
<1>. QED BY <1>4, <1>5, <1>6, <1>7

(* An operation is put at the end of a queue.                                *)
LEMMA AddFacts ==
  ASSUME NEW D, NEW W, NEW q \in [D -> Seq(W)], NEW s \in D, NEW op \in W, NEW r, Added(q, s, op, r)
  PROVE  /\ r \in [D -> Seq(W)] /\ DOMAIN r = D /\ DOMAIN q = D
         /\ \A t \in D \ {s} : r[t] = q[t]
         /\ Len(q[s]) \in Nat /\ Len(r[s]) = Len(q[s]) + 1
         /\ \A t \in D : DOMAIN q[t] = 1..Len(q[t]) /\ DOMAIN r[t] = 1..Len(r[t])
         /\ r[s][Len(q[s]) + 1] = op
         /\ \A a \in 1..Len(q[s]) : r[s][a] = q[s][a]
<1>. USE DEF Added
<1>1. q[s] \in Seq(W) /\ Append(q[s], op) \in Seq(W)
  OBVIOUS
<1>2. r[s] = Append(q[s], op) /\ \A t \in D \ {s} : r[t] = q[t]
  OBVIOUS
<1>3. r \in [D -> Seq(W)] /\ DOMAIN r = D /\ DOMAIN q = D
  BY <1>1
<1>4. /\ Len(q[s]) \in Nat /\ Len(Append(q[s], op)) = Len(q[s]) + 1
      /\ Append(q[s], op)[Len(q[s]) + 1] = op
      /\ \A a \in 1..Len(q[s]) : Append(q[s], op)[a] = q[s][a]
  BY <1>1
<1>5. \A t \in D : DOMAIN q[t] = 1..Len(q[t]) /\ DOMAIN r[t] = 1..Len(r[t])
  BY <1>3
<1>. QED BY <1>2, <1>3, <1>4, <1>5

(* What was queued stays, and one operation is new.                          *)
LEMMA AddOne ==
  ASSUME NEW D, NEW W, NEW q \in [D -> Seq(W)], NEW t \in D, NEW op \in W, NEW r, Added(q, t, op, r)
  PROVE  \A s \in D : /\ \A a \in DOMAIN q[s] : a \in DOMAIN r[s] /\ r[s][a] = q[s][a]
                      /\ \A a \in DOMAIN r[s] : a \in DOMAIN q[s] \/ r[s][a] = op
<1>1. /\ \A s \in D \ {t} : r[s] = q[s]
      /\ Len(q[t]) \in Nat /\ Len(r[t]) = Len(q[t]) + 1
      /\ \A s \in D : DOMAIN q[s] = 1..Len(q[s]) /\ DOMAIN r[s] = 1..Len(r[s])
      /\ r[t][Len(q[t]) + 1] = op
      /\ \A a \in 1..Len(q[t]) : r[t][a] = q[t][a]
  BY AddFacts
<1>. QED BY SMTT(20), <1>1

(* What is new in the queues is queued once.                                 *)
LEMMA AddOnce ==
  ASSUME NEW D, NEW W, NEW q \in [D -> Seq(W)], NEW s \in D, NEW op \in W, NEW r, Added(q, s, op, r), Once(q),
         op \in Parted => ~Queued(q, op)
  PROVE  /\ Once(r)
         /\ \A o : Queued(r, o) <=> Queued(q, o) \/ o = op
<1>1. /\ r \in [D -> Seq(W)] /\ DOMAIN r = D /\ DOMAIN q = D
      /\ \A t \in D \ {s} : r[t] = q[t]
      /\ Len(q[s]) \in Nat /\ Len(r[s]) = Len(q[s]) + 1
      /\ \A t \in D : DOMAIN q[t] = 1..Len(q[t]) /\ DOMAIN r[t] = 1..Len(r[t])
      /\ r[s][Len(q[s]) + 1] = op
      /\ \A a \in 1..Len(q[s]) : r[s][a] = q[s][a]
  BY AddFacts
<1>. DEFINE New(t, a) == t = s /\ a = Len(q[s]) + 1
<1>2. ASSUME NEW t \in D, NEW a \in DOMAIN r[t], ~New(t, a)
      PROVE  a \in DOMAIN q[t] /\ q[t][a] = r[t][a]
  BY <1>1, <1>2
<1>3. ASSUME NEW t \in D, NEW a \in DOMAIN q[t]
      PROVE  a \in DOMAIN r[t] /\ q[t][a] = r[t][a]
  BY SMTT(20), <1>1
<1>4. \A t \in D : \A a \in DOMAIN r[t] : /\ New(t, a) => r[t][a] = op
                                          /\ r[t][a] = op /\ op \in Parted => New(t, a)
  BY <1>1, <1>2 DEF Queued
<1>5. Once(r)
  <2>1. SUFFICES ASSUME NEW t \in D, NEW u \in D, NEW a \in DOMAIN r[t], NEW b \in DOMAIN r[u],
                        r[t][a] = r[u][b], r[t][a] \in Parted
                 PROVE  t = u /\ a = b
    BY <1>1 DEF Once
  <2>2. CASE New(t, a)
    BY <1>4, <2>1, <2>2
  <2>3. CASE ~New(t, a)
    <3>1. ~New(u, b)
      BY <1>4, <2>1, <2>3
    <3>. QED BY <1>1, <1>2, <2>1, <2>3, <3>1 DEF Once
  <2>. QED BY <2>2, <2>3
<1>6. ASSUME NEW o, Queued(r, o)
      PROVE  Queued(q, o) \/ o = op
  <2>1. PICK t \in D : \E a \in DOMAIN r[t] : r[t][a] = o
    BY <1>1, <1>6 DEF Queued
  <2>2. PICK a \in DOMAIN r[t] : r[t][a] = o
    BY <2>1
  <2>. QED BY <1>1, <1>2, <1>4, <2>2 DEF Queued
<1>7. ASSUME NEW o, Queued(q, o)
      PROVE  Queued(r, o)
  BY <1>1, <1>3, <1>7 DEF Queued
<1>8. Queued(r, op)
  <2>1. Len(q[s]) + 1 \in DOMAIN r[s]
    BY <1>1
  <2>. QED BY <1>1, <2>1 DEF Queued
<1>. QED BY <1>5, <1>6, <1>7, <1>8

(* Work is added at the end of a queue.                                      *)
LEMMA AppendOne ==
  ASSUME NEW W, NEW z \in Seq(W), NEW y \in W
  PROVE  z \o <<y>> = Append(z, y) /\ z \o <<>> = z /\ Append(z, y) \in Seq(W)
OBVIOUS

-----------------------------------------------------------------------------
(* The types of a kernel's lists and CTAs.                                   *)
LEMMA TileList ==
  ASSUME IInv, KernelTypes, NEW p \in Parts, NEW c \in DOMAIN cta[p]
  PROVE  LET s == Joined(cta[p][c].list, [d \in Better(p, cta[p][c]) |-> Neighbor(p, cta[p][c].row, d)])
         IN  IsFiniteSet(DOMAIN s) /\ \A j \in DOMAIN s : s[j] \in Int \X Int
<1>. DEFINE r == cta[p][c]
            B == Better(p, r)
            b == [d \in B |-> Neighbor(p, r.row, d)]
            s == Joined(r.list, b)
<1>1. r \in CtaType(p)
  BY DEF KernelTypes, CtasOK
<1>2. r.list \in Lists /\ r.row \in Rows
  BY <1>1 DEF CtaType
<1>3. k \in Nat \ {0}
  BY KernelAssumption DEF KernelTypes
<1>4. B \subseteq 0..(Size(p) - 1) /\ Size(p) \in Nat
  BY Shapes DEF IInv, Better, Columns
<1>5. \A d \in B : Neighbor(p, r.row, d) \in Int \X Int
  BY <1>2, <1>4, Shapes DEF IInv, Neighbor, Distances
<1>6. IsFiniteSet(B)
  BY <1>4, Interval, FS_Subset
<1>7. IsFiniteSet(Ranks)
  BY <1>3, Interval DEF Ranks
<1>. HIDE DEF r, B
<1>8. DOMAIN s = ({1} \X Ranks) \cup ({2} \X B)
  BY <1>2 DEF Joined, Lists
<1>9. IsFiniteSet(DOMAIN s)
  <2>1. IsFiniteSet({1}) /\ IsFiniteSet({2})
    BY FS_Singleton
  <2>2. IsFiniteSet({1} \X Ranks) /\ IsFiniteSet({2} \X B)
    BY <1>6, <1>7, <2>1, FS_Product
  <2>3. IsFiniteSet(({1} \X Ranks) \cup ({2} \X B))
    BY <2>2, FS_Union
  <2>. QED BY <1>8, <2>3
<1>10. ASSUME NEW j \in DOMAIN s
       PROVE  s[j] \in Int \X Int
  <2>1. CASE j \in {1} \X Ranks
    <3>1. s[j] = r.list[j[2]] /\ j[2] \in Ranks
      BY <1>8, <2>1 DEF Joined
    <3>. QED BY <1>2, <3>1 DEF Lists
  <2>2. CASE j \in {2} \X B
    <3>1. s[j] = b[j[2]] /\ j[2] \in B
      BY <1>8, <2>2 DEF Joined
    <3>. QED BY <1>5, <3>1
  <2>. QED BY <1>8, <2>1, <2>2
<1>. HIDE DEF s
<1>. QED BY <1>9, <1>10 DEF s, B, r

(* Two lists put together are a list.                                        *)
LEMMA JoinedLists ==
  ASSUME k \in Nat \ {0}, NEW a \in Lists, NEW b \in Lists
  PROVE  IsFiniteSet(DOMAIN Joined(a, b)) /\ \A j \in DOMAIN Joined(a, b) : Joined(a, b)[j] \in Int \X Int
<1>1. DOMAIN Joined(a, b) = ({1} \X Ranks) \cup ({2} \X Ranks)
  BY DEF Joined, Lists
<1>2. IsFiniteSet(DOMAIN Joined(a, b))
  <2>1. IsFiniteSet({1}) /\ IsFiniteSet({2}) /\ IsFiniteSet(Ranks)
    BY FS_Singleton, Interval DEF Ranks
  <2>2. IsFiniteSet({1} \X Ranks) /\ IsFiniteSet({2} \X Ranks)
    BY <2>1, FS_Product
  <2>3. IsFiniteSet(({1} \X Ranks) \cup ({2} \X Ranks))
    BY <2>2, FS_Union
  <2>. QED BY <1>1, <2>3
<1>3. ASSUME NEW j \in DOMAIN Joined(a, b)
      PROVE  Joined(a, b)[j] \in Int \X Int
  BY <1>1 DEF Joined, Lists
<1>. QED BY <1>2, <1>3

(* A CTA that begins with a row of tiles.                                    *)
LEMMA NewCtaType ==
  ASSUME IInv, KernelTypes, NEW p \in Parts, NEW x \in Nat, NEW y \in Rows, NEW pc \in Places
  PROVE  NewCta(x, y, pc) \in CtaType(p)
<1>1. NoList \in Lists
  BY KernelAssumption DEF NoList, Nothing, Lists
<1>2. 0 \in 0..(GridX(p) - 1)
  BY Shapes DEF IInv
<1>. QED BY <1>1, <1>2 DEF NewCta, CtaType

(* A CTA that goes on with its next row of tiles.                            *)
LEMMA NextRowType ==
  ASSUME IInv, KernelTypes, NEW p \in Parts, NEW r \in CtaType(p)
  PROVE  NextRow(r) \in CtaType(p) /\ NextRow(r).pc \in {"tile", "end"} /\ NextRow(r).x = r.x
<1>1. CASE r.row + GridY \in Rows
  BY <1>1, NewCtaType DEF NextRow, CtaType, Places, NewCta
<1>2. CASE r.row + GridY \notin Rows
  BY <1>2 DEF NextRow, CtaType, Places
<1>. QED BY <1>1, <1>2

(* What a step of a CTA does to its own memory.                              *)
CtaMoves(p, c, r) ==
  /\ Move(p, c, r)
  /\ r \in CtaType(p) /\ r.x = cta[p][c].x
  /\ r.pc \in {"copy", "free", "merge"} => r.processed < GridX(p) - 1
  /\ r.pc \notin {"waiting", "end"} /\ cta[p][c].pc \in {"waiting", "end"} => Cardinality(Resident) < Slots

(* What a step of a CTA leaves in its memory.                                *)
LEMMA CtaStep ==
  ASSUME IInv, KernelTypes, NEW p \in Parts, NEW c \in DOMAIN cta[p], Cta(p, c)
  PROVE  \E r : CtaMoves(p, c, r)
<1>. DEFINE r == cta[p][c]
<1>0. r \in CtaType(p) /\ (r.pc \in {"copy", "free", "merge"} => r.processed < GridX(p) - 1)
      /\ k \in Nat \ {0} /\ GridX(p) \in Nat \ {0}
  BY Shapes, KernelAssumption DEF KernelTypes, CtasOK, IInv
<1>. HIDE DEF r
<1>a. ASSUME NEW n, Move(p, c, n), n \in CtaType(p), n.x = r.x,
             n.pc \notin {"copy", "free", "merge"}, r.pc \notin {"waiting", "end"}
      PROVE  \E q : CtaMoves(p, c, q)
  BY <1>a DEF CtaMoves, r
<1>1. CASE Dispatch(p, c)
  <2>. DEFINE n == [r EXCEPT !.pc = "tile"]
  <2>1. n \in CtaType(p) /\ n.x = r.x /\ n.pc = "tile"
    BY <1>0 DEF CtaType, Places
  <2>2. Move(p, c, n) /\ Cardinality(Resident) < Slots
    BY <1>1 DEF Dispatch, r
  <2>. HIDE DEF n
  <2>3. CtaMoves(p, c, n)
    BY <2>1, <2>2 DEF CtaMoves, r
  <2>. QED BY <2>3
<1>2. CASE Tile(p, c)
  <2>. DEFINE list == Nearest(Joined(r.list, [d \in Better(p, r) |-> Neighbor(p, r.row, d)]))
              next == r.tile + GridX(p)
              new == [r EXCEPT !.list = list, !.tile = next]
              take == [new EXCEPT !.pc = "take", !.heap = list]
              acquire == [new EXCEPT !.pc = "acquire"]
  <2>1. list \in Lists
    BY <1>0, TileList, NearestIsList DEF r
  <2>2. next \in Nat
    BY <1>0 DEF CtaType
  <2>3. r.pc = "tile" /\ (Move(p, c, new) \/ Move(p, c, NextRow(new)) \/ Move(p, c, take) \/ Move(p, c, acquire))
    BY <1>2 DEF Tile, r
  <2>. HIDE DEF list, next
  <2>4. new \in CtaType(p) /\ new.x = r.x /\ new.pc = "tile"
    BY <1>0, <2>1, <2>2, <2>3 DEF CtaType
  <2>. HIDE DEF new
  <2>5. /\ take \in CtaType(p) /\ take.x = r.x /\ take.pc = "take"
        /\ acquire \in CtaType(p) /\ acquire.x = r.x /\ acquire.pc = "acquire"
    BY <2>1, <2>4 DEF CtaType, Places
  <2>6. NextRow(new) \in CtaType(p) /\ NextRow(new).x = r.x /\ NextRow(new).pc \in {"tile", "end"}
    BY <2>4, NextRowType
  <2>. HIDE DEF take, acquire
  <2>. QED BY <1>a, <2>3, <2>4, <2>5, <2>6
<1>3. CASE Acquire(p, c)
  <2>. DEFINE n == [r EXCEPT !.pc = "write"]
  <2>1. n \in CtaType(p) /\ n.x = r.x /\ n.pc = "write"
    BY <1>0 DEF CtaType, Places
  <2>2. Move(p, c, n) /\ r.pc = "acquire"
    BY <1>3 DEF Acquire, r
  <2>. HIDE DEF n
  <2>. QED BY <1>a, <2>1, <2>2
<1>4. CASE Write(p, c)
  <2>. DEFINE n == [r EXCEPT !.pc = "release"]
  <2>1. n \in CtaType(p) /\ n.x = r.x /\ n.pc = "release"
    BY <1>0 DEF CtaType, Places
  <2>2. Move(p, c, n) /\ r.pc = "write"
    BY <1>4 DEF Write, r
  <2>. HIDE DEF n
  <2>. QED BY <1>a, <2>1, <2>2
<1>5. CASE Release(p, c) \/ Store(p, c)
  <2>1. Move(p, c, NextRow(r)) /\ r.pc \in {"release", "take"}
    BY <1>5 DEF Release, Store, r
  <2>2. NextRow(r) \in CtaType(p) /\ NextRow(r).x = r.x /\ NextRow(r).pc \in {"tile", "end"}
    BY <1>0, NextRowType
  <2>. QED BY <1>a, <2>1, <2>2
<1>6. CASE Take(p, c)
  <2>. DEFINE n == [r EXCEPT !.pc = "copy"]
  <2>1. n \in CtaType(p) /\ n.x = r.x /\ n.pc = "copy" /\ n.processed = r.processed
    BY <1>0 DEF CtaType, Places
  <2>2. Move(p, c, n) /\ r.pc = "take" /\ r.processed < GridX(p) - 1
    BY <1>6 DEF Take, r
  <2>. HIDE DEF n
  <2>3. CtaMoves(p, c, n)
    BY <2>1, <2>2 DEF CtaMoves, r
  <2>. QED BY <2>3
<1>7. CASE Copy(p, c)
  <2>. DEFINE n == [r EXCEPT !.pc = "free", !.list = out[p][r.row]]
  <2>1. out[p][r.row] \in Lists
    BY <1>0 DEF KernelTypes, CtaType
  <2>2. n \in CtaType(p) /\ n.x = r.x /\ n.pc = "free" /\ n.processed = r.processed
    BY <1>0, <2>1 DEF CtaType, Places
  <2>3. Move(p, c, n) /\ r.pc = "copy"
    BY <1>7 DEF Copy, r
  <2>. HIDE DEF n
  <2>4. CtaMoves(p, c, n)
    BY <1>0, <2>2, <2>3 DEF CtaMoves, r
  <2>. QED BY <2>4
<1>8. CASE Free(p, c)
  <2>. DEFINE n == [r EXCEPT !.pc = "merge"]
  <2>1. n \in CtaType(p) /\ n.x = r.x /\ n.pc = "merge" /\ n.processed = r.processed
    BY <1>0 DEF CtaType, Places
  <2>2. Move(p, c, n) /\ r.pc = "free"
    BY <1>8 DEF Free, r
  <2>. HIDE DEF n
  <2>3. CtaMoves(p, c, n)
    BY <1>0, <2>1, <2>2 DEF CtaMoves, r
  <2>. QED BY <2>3
<1>9. CASE Merge(p, c)
  <2>. DEFINE heap == Nearest(Joined(r.heap, r.list))
              n == [r EXCEPT !.pc = "take", !.heap = heap, !.processed = r.processed + 1]
  <2>1. heap \in Lists
    <3>1. r.heap \in Lists /\ r.list \in Lists
      BY <1>0 DEF CtaType
    <3>. QED BY <1>0, <3>1, JoinedLists, NearestIsList
  <2>2. Move(p, c, n) /\ r.pc = "merge"
    BY <1>9 DEF Merge, r
  <2>. HIDE DEF heap
  <2>3. r.processed + 1 \in 0..(GridX(p) - 1)
    BY <1>0, <2>2 DEF CtaType
  <2>4. n \in CtaType(p) /\ n.x = r.x /\ n.pc = "take"
    BY <1>0, <2>1, <2>3 DEF CtaType, Places
  <2>. HIDE DEF n
  <2>. QED BY <1>a, <2>2, <2>4
<1>. QED BY <1>1, <1>2, <1>3, <1>4, <1>5, <1>6, <1>7, <1>8, <1>9 DEF Cta

(* A function of two arguments is changed at one place.                      *)
LEMMA Update ==
  ASSUME NEW A, NEW B, NEW S, NEW f \in [A -> [B -> S]], NEW a \in A, NEW b \in B, NEW v \in S
  PROVE  [f EXCEPT ![a][b] = v] \in [A -> [B -> S]]
<1>1. f[a] \in [B -> S]
  OBVIOUS
<1>2. [f[a] EXCEPT ![b] = v] \in [B -> S]
  BY <1>1
<1>. QED BY <1>2

(* The output and the mutexes keep their types.                              *)
LEMMA CtaOutput ==
  ASSUME IInv, KernelTypes, NEW p \in Parts, NEW c \in DOMAIN cta[p], Cta(p, c)
  PROVE  /\ mutexes' \in [Parts -> [Rows -> {-2, -1, 0, 1}]]
         /\ out' \in [Parts -> [Rows -> Lists]]
         /\ UNCHANGED <<input, running>>
<1>. DEFINE r == cta[p][c]
<1>0. r \in CtaType(p) /\ k \in Nat \ {0}
  BY KernelAssumption DEF KernelTypes, CtasOK
<1>1. r.row \in Rows /\ r.list \in Lists /\ r.heap \in Lists
  BY <1>0 DEF CtaType
<1>2. UNCHANGED <<input, running>>
  BY DEF Cta, Dispatch, Tile, Acquire, Write, Release, Take, Copy, Free, Merge, Store
<1>3. \E v \in {-2, -1, 0, 1} : mutexes' = mutexes \/ mutexes' = [mutexes EXCEPT ![p][r.row] = v]
  BY DEF Cta, Dispatch, Tile, Acquire, Write, Release, Take, Copy, Free, Merge, Store, Swap, Set
<1>4. Nearest(Joined(r.list, [d \in Better(p, r) |-> Neighbor(p, r.row, d)])) \in Lists
  BY <1>0, TileList, NearestIsList
<1>5. \E a \in Lists : out' = out \/ out' = [out EXCEPT ![p][r.row] = a]
  <2>1. CASE Tile(p, c)
    BY <1>4, <2>1 DEF Tile
  <2>2. CASE ~Tile(p, c)
    BY <1>1, <2>2 DEF Cta, Dispatch, Acquire, Write, Release, Take, Copy, Free, Merge, Store
  <2>. QED BY <2>1, <2>2
<1>6. mutexes' \in [Parts -> [Rows -> {-2, -1, 0, 1}]]
  <2>1. PICK v \in {-2, -1, 0, 1} : mutexes' = mutexes \/ mutexes' = [mutexes EXCEPT ![p][r.row] = v]
    BY <1>3
  <2>2. mutexes \in [Parts -> [Rows -> {-2, -1, 0, 1}]]
    BY DEF KernelTypes
  <2>. HIDE DEF r
  <2>3. [mutexes EXCEPT ![p][r.row] = v] \in [Parts -> [Rows -> {-2, -1, 0, 1}]]
    BY <1>1, <2>2, Update
  <2>. QED BY <2>1, <2>2, <2>3
<1>7. out' \in [Parts -> [Rows -> Lists]]
  <2>1. PICK a \in Lists : out' = out \/ out' = [out EXCEPT ![p][r.row] = a]
    BY <1>5
  <2>2. out \in [Parts -> [Rows -> Lists]]
    BY DEF KernelTypes
  <2>. HIDE DEF r
  <2>3. [out EXCEPT ![p][r.row] = a] \in [Parts -> [Rows -> Lists]]
    BY <1>1, <2>2, Update
  <2>. QED BY <2>1, <2>2, <2>3
<1>. QED BY <1>2, <1>6, <1>7

(* The input decides the shapes of the kernels.                              *)
LEMMA Frame ==
  ASSUME UNCHANGED input
  PROVE  /\ Parts' = Parts /\ Rows' = Rows /\ Ranks' = Ranks /\ Lists' = Lists /\ GridY' = GridY
         /\ \A p : Size(p)' = Size(p) /\ GridX(p)' = GridX(p) /\ Grid(p)' = Grid(p) /\ CtaType(p)' = CtaType(p)
<1>1. dist' = dist /\ k' = k
  BY DEF input
<1>2. Parts' = Parts /\ Rows' = Rows /\ Ranks' = Ranks /\ Lists' = Lists /\ GridY' = GridY
  BY <1>1 DEF Parts, Rows, Ranks, Lists, GridY
<1>3. ASSUME NEW p PROVE Size(p)' = Size(p) /\ GridX(p)' = GridX(p) /\ Grid(p)' = Grid(p)
  BY <1>1, <1>2 DEF Size, GridX, Grid
<1>4. ASSUME NEW p PROVE CtaType(p)' = CtaType(p)
  BY <1>2, <1>3 DEF CtaType
<1>. QED BY <1>2, <1>3, <1>4

(* The types when no kernel moves.                                           *)
LEMMA KernelsSame ==
  ASSUME KernelTypes, UNCHANGED <<input, kernels>>, out' \in [Parts -> [Rows -> Lists]]
  PROVE  KernelTypes'
<1>1. /\ Parts' = Parts /\ Rows' = Rows /\ Lists' = Lists
      /\ \A p : GridX(p)' = GridX(p) /\ Grid(p)' = Grid(p) /\ CtaType(p)' = CtaType(p)
      /\ k' = k /\ running' = running /\ mutexes' = mutexes /\ cta' = cta
  BY Frame DEF input, kernels
<1>2. Resident' = Resident
  BY <1>1 DEF Resident
<1>3. \A p \in Parts : CtasOK(p)'
  BY <1>1 DEF KernelTypes, CtasOK
<1>. QED BY <1>1, <1>2, <1>3 DEF KernelTypes

(* The CTAs on the device are those that were, fewer, or there was room.     *)
LEMMA ResidentFacts ==
  ASSUME NEW q
  PROVE  q \in Resident <=> \E p \in ToSet(running) : \E c \in DOMAIN cta[p] :
                              q = <<p, c>> /\ cta[p][c].pc \notin {"waiting", "end"}
BY DEF Resident

(* Fewer CTAs are on the device when none came.                              *)
LEMMA ResidentLess ==
  ASSUME KernelTypes, Resident' \subseteq Resident
  PROVE  IsFiniteSet(Resident') /\ Cardinality(Resident') <= Slots
<1>1. IsFiniteSet(Resident') /\ Cardinality(Resident') <= Cardinality(Resident)
  BY FS_Subset DEF KernelTypes
<1>2. Cardinality(Resident') \in Nat /\ Cardinality(Resident) \in Nat
  BY <1>1, FS_CardinalityType DEF KernelTypes
<1>. QED BY <1>1, <1>2, KernelAssumption DEF KernelTypes

(* The types when a kernel is launched: all its CTAs wait.                   *)
LEMMA KernelLaunch ==
  ASSUME IInv, KernelTypes, NEW p \in Parts, p \notin ToSet(running), LaunchKernel(p)
  PROVE  KernelTypes'
<1>. DEFINE new == [c \in Grid(p) |-> NewCta(c[1], c[2], "waiting")]
<1>0. UNCHANGED <<input, out>>
  BY DEF LaunchKernel
<1>1. /\ Parts' = Parts /\ Rows' = Rows /\ Lists' = Lists
      /\ \A q : GridX(q)' = GridX(q) /\ Grid(q)' = Grid(q) /\ CtaType(q)' = CtaType(q)
      /\ k' = k /\ out' = out
  BY <1>0, Frame DEF input
<1>2. /\ running' = Append(running, p)
      /\ mutexes' = [mutexes EXCEPT ![p] = [y \in Rows |-> 0]]
      /\ cta'[p] = new /\ \A q \in Parts \ {p} : cta'[q] = cta[q]
  BY DEF LaunchKernel, IInv
<1>3. running' \in Seq(Parts) /\ IsInjective(running')
  <2>1. running \in Seq(Parts)
    BY DEF KernelTypes
  <2>2. running' \in Seq(Parts) /\ DOMAIN running' = 1..(Len(running) + 1)
        /\ \A j \in 1..Len(running) : running'[j] = running[j] /\ running[j] # p
    BY <1>2, <2>1 DEF ToSet
  <2>3. running'[Len(running) + 1] = p /\ Len(running) \in Nat /\ DOMAIN running = 1..Len(running)
    BY <1>2, <2>1
  <2>4. \A a, b \in 1..Len(running) : running[a] = running[b] => a = b
    BY <2>3 DEF KernelTypes, IsInjective
  <2>5. ASSUME NEW a \in DOMAIN running', NEW b \in DOMAIN running', running'[a] = running'[b]
        PROVE  a = b
    <3>1. a \in 1..Len(running) \/ a = Len(running) + 1
      BY <2>2, <2>3
    <3>2. b \in 1..Len(running) \/ b = Len(running) + 1
      BY <2>2, <2>3
    <3>. QED BY <2>2, <2>3, <2>4, <2>5, <3>1, <3>2
  <2>. QED BY <2>2, <2>5 DEF IsInjective
<1>4. mutexes' \in [Parts -> [Rows -> {-2, -1, 0, 1}]]
  BY <1>2 DEF KernelTypes
<1>5. ToSet(running') = ToSet(running) \cup {p}
  <2>1. running \in Seq(Parts)
    BY DEF KernelTypes
  <2>. QED BY SMTT(20), <1>2, <2>1 DEF ToSet
<1>6. ToSet(running) \subseteq Parts
  BY DEF KernelTypes, ToSet
<1>7. Resident' \subseteq Resident
  <2>1. SUFFICES ASSUME NEW q \in Resident' PROVE q \in Resident
    OBVIOUS
  <2>2. PICK u \in ToSet(running') : \E c \in DOMAIN cta'[u] :
               q = <<u, c>> /\ cta'[u][c].pc \notin {"waiting", "end"}
    BY DEF Resident
  <2>3. u # p
    BY <1>2, <2>2 DEF NewCta
  <2>4. u \in ToSet(running) /\ cta'[u] = cta[u]
    BY <1>2, <1>5, <1>6, <2>3
  <2>. QED BY <2>2, <2>4, ResidentFacts
<1>8. CtasOK(p)'
  <2>1. ASSUME NEW c \in Grid(p)
        PROVE  new[c] \in CtaType(p) /\ new[c].pc = "waiting"
    <3>1. c[1] \in Nat /\ c[2] \in Rows
      BY GridRows, Shapes DEF Grid, IInv
    <3>2. NewCta(c[1], c[2], "waiting") \in CtaType(p)
      BY <3>1, NewCtaType DEF Places
    <3>. QED BY <3>2 DEF NewCta
  <2>. HIDE DEF new
  <2>2. DOMAIN new = Grid(p)
    BY DEF new
  <2>. QED BY <1>1, <1>2, <2>1, <2>2 DEF CtasOK
<1>9. \A q \in Parts \ {p} : CtasOK(q)'
  BY <1>1, <1>2 DEF KernelTypes, CtasOK
<1>. QED BY <1>1, <1>3, <1>4, <1>7, <1>8, <1>9, ResidentLess DEF KernelTypes

(* The types when a kernel ends.                                             *)
LEMMA KernelEnd ==
  ASSUME IInv, KernelTypes, NEW p, EndKernel(p)
  PROVE  KernelTypes' /\ ToSet(running') = ToSet(running) \ {p}
<1>1. UNCHANGED <<input, out, mutexes, cta>>
  BY DEF EndKernel
<1>2. /\ Parts' = Parts /\ Rows' = Rows /\ Lists' = Lists
      /\ \A q : GridX(q)' = GridX(q) /\ Grid(q)' = Grid(q) /\ CtaType(q)' = CtaType(q)
      /\ k' = k /\ out' = out /\ mutexes' = mutexes /\ cta' = cta
  BY <1>1, Frame DEF input
<1>3. PICK j \in DOMAIN running : running[j] = p /\ running' = RemoveAt(running, j)
  BY DEF EndKernel
<1>4. running \in Seq(Parts) /\ Len(running) \in Nat /\ DOMAIN running = 1..Len(running)
  BY DEF KernelTypes
<1>. DEFINE at(a) == IF a < j THEN a ELSE a + 1
<1>5. /\ running' \in Seq(Parts) /\ DOMAIN running' = 1..(Len(running) - 1)
      /\ \A a \in 1..(Len(running) - 1) : running'[a] = running[at(a)] /\ at(a) \in DOMAIN running
  <2>1. running' = [a \in 1..(Len(running) - 1) |-> running[at(a)]]
    <3>1. SubSeq(running, 1, j - 1) \in Seq(Parts) /\ Len(SubSeq(running, 1, j - 1)) = j - 1
          /\ \A a \in 1..(j - 1) : SubSeq(running, 1, j - 1)[a] = running[a]
      BY <1>3, <1>4
    <3>2. /\ SubSeq(running, j + 1, Len(running)) \in Seq(Parts)
          /\ Len(SubSeq(running, j + 1, Len(running))) = Len(running) - j
          /\ \A a \in 1..(Len(running) - j) : SubSeq(running, j + 1, Len(running))[a] = running[a + j]
      BY <1>3, <1>4
    <3>3. /\ running' \in Seq(Parts) /\ Len(running') = Len(running) - 1
          /\ \A a \in 1..(j - 1) : running'[a] = running[a]
          /\ \A a \in j..(Len(running) - 1) : running'[a] = running[a + 1]
      <4>. DEFINE A == SubSeq(running, 1, j - 1)
                  B == SubSeq(running, j + 1, Len(running))
      <4>1. running' = A \o B
        BY <1>3 DEF RemoveAt
      <4>2. /\ A \in Seq(Parts) /\ Len(A) = j - 1 /\ \A a \in 1..(j - 1) : A[a] = running[a]
            /\ B \in Seq(Parts) /\ Len(B) = Len(running) - j
            /\ \A a \in 1..(Len(running) - j) : B[a] = running[a + j]
        BY <3>1, <3>2
      <4>. HIDE DEF A, B
      <4>3. /\ A \o B \in Seq(Parts) /\ Len(A \o B) = Len(running) - 1
            /\ \A a \in 1..(j - 1) : (A \o B)[a] = A[a]
            /\ \A a \in j..(Len(running) - 1) : (A \o B)[a] = B[a - (j - 1)]
        <5>1. /\ A \o B \in Seq(Parts) /\ Len(A \o B) = Len(A) + Len(B)
              /\ \A a \in 1..(Len(A) + Len(B)) : (A \o B)[a] = IF a <= Len(A) THEN A[a] ELSE B[a - Len(A)]
          BY SMTT(20), <4>2
        <5>2. Len(A) + Len(B) = Len(running) - 1
          BY <1>3, <1>4, <4>2
        <5>3. j \in 1..Len(running) /\ Len(A) = j - 1
          BY <1>3, <1>4, <4>2
        <5>4. ASSUME NEW a \in 1..(j - 1) PROVE (A \o B)[a] = A[a]
          BY <1>4, <5>1, <5>2, <5>3
        <5>5. ASSUME NEW a \in j..(Len(running) - 1) PROVE (A \o B)[a] = B[a - (j - 1)]
          BY <1>4, <5>1, <5>2, <5>3
        <5>. QED BY <5>1, <5>2, <5>4, <5>5
      <4>4. ASSUME NEW a \in j..(Len(running) - 1)
            PROVE  B[a - (j - 1)] = running[a + 1]
        <5>1. a - (j - 1) \in 1..(Len(running) - j) /\ (a - (j - 1)) + j = a + 1
          BY <1>3, <1>4
        <5>. QED BY <4>2, <5>1
      <4>. QED BY <4>1, <4>2, <4>3, <4>4
    <3>4. running' = [a \in 1..(Len(running) - 1) |-> running'[a]]
      BY <3>3
    <3>5. \A a \in 1..(Len(running) - 1) : running'[a] = running[at(a)]
      BY <1>3, <1>4, <3>3
    <3>. QED BY <3>4, <3>5
  <2>2. \A a \in 1..(Len(running) - 1) : at(a) \in DOMAIN running /\ running[at(a)] \in Parts
    BY <1>3, <1>4
  <2>. HIDE DEF at
  <2>. QED BY <1>4, <2>1, <2>2
<1>6. IsInjective(running')
  <2>1. SUFFICES ASSUME NEW a \in DOMAIN running', NEW b \in DOMAIN running', running'[a] = running'[b]
                 PROVE  a = b
    BY DEF IsInjective
  <2>2. at(a) = at(b)
    BY <1>5, <2>1 DEF KernelTypes, IsInjective
  <2>. QED BY <1>3, <1>4, <1>5, <2>2
<1>7. ToSet(running') = ToSet(running) \ {p}
  <2>1. ASSUME NEW q \in ToSet(running')
        PROVE  q \in ToSet(running) \ {p}
    <3>1. PICK a \in DOMAIN running' : running'[a] = q
      BY <2>1 DEF ToSet
    <3>2. q = running[at(a)] /\ at(a) # j /\ at(a) \in DOMAIN running
      BY <1>3, <1>4, <1>5, <3>1
    <3>3. q # running[j]
      BY <1>3, <3>2 DEF KernelTypes, IsInjective
    <3>. QED BY <1>3, <3>2, <3>3 DEF ToSet
  <2>2. ASSUME NEW q \in ToSet(running) \ {p}
        PROVE  q \in ToSet(running')
    <3>1. PICK b \in DOMAIN running : running[b] = q
      BY <2>2 DEF ToSet
    <3>2. b # j
      BY <1>3, <2>2, <3>1
    <3>3. PICK a \in 1..(Len(running) - 1) : at(a) = b
      <4>1. CASE b < j
        BY <1>3, <1>4, <4>1
      <4>2. CASE b > j
        <5>1. b - 1 \in 1..(Len(running) - 1) /\ at(b - 1) = b
          BY <1>3, <1>4, <4>2
        <5>. QED BY <5>1
      <4>. QED BY <1>3, <1>4, <3>2, <4>1, <4>2
    <3>. QED BY <1>5, <3>1, <3>3 DEF ToSet
  <2>. QED BY <2>1, <2>2
<1>8. Resident' \subseteq Resident
  BY <1>2, <1>7 DEF Resident
<1>9. \A q \in Parts : CtasOK(q)'
  BY <1>2 DEF KernelTypes, CtasOK
<1>. QED BY <1>2, <1>5, <1>6, <1>7, <1>8, <1>9, ResidentLess DEF KernelTypes

(* The types when a CTA moves: only Dispatch brings one to the device.       *)
LEMMA KernelStep ==
  ASSUME IInv, KernelTypes, NEW p \in ToSet(running), NEW c \in DOMAIN cta[p], Cta(p, c)
  PROVE  KernelTypes'
<1>0. p \in Parts
  BY DEF KernelTypes, ToSet
<1>1. PICK r : CtaMoves(p, c, r)
  BY <1>0, CtaStep
<1>2. UNCHANGED <<input, running>>
  BY <1>0, CtaOutput
<1>3. /\ Parts' = Parts /\ Rows' = Rows /\ Lists' = Lists
      /\ \A q : GridX(q)' = GridX(q) /\ Grid(q)' = Grid(q) /\ CtaType(q)' = CtaType(q)
      /\ k' = k /\ running' = running
  BY <1>2, Frame DEF input
<1>4. mutexes' \in [Parts -> [Rows -> {-2, -1, 0, 1}]] /\ out' \in [Parts -> [Rows -> Lists]]
  BY <1>0, CtaOutput
<1>6. /\ \A q \in Parts \ {p} : cta'[q] = cta[q]
      /\ DOMAIN cta'[p] = DOMAIN cta[p] /\ cta'[p][c] = r
      /\ \A d \in DOMAIN cta[p] \ {c} : cta'[p][d] = cta[p][d]
  <2>1. cta' = [cta EXCEPT ![p] = [cta[p] EXCEPT ![c] = r]] /\ DOMAIN cta = Parts
    BY <1>1 DEF CtaMoves, Move, IInv
  <2>. QED BY <1>0, <2>1
<1>7. \A q \in Parts : CtasOK(q)'
  <2>1. \A q \in Parts \ {p} : CtasOK(q)'
    BY <1>3, <1>6 DEF KernelTypes, CtasOK
  <2>2. CtasOK(p)'
    BY <1>0, <1>1, <1>3, <1>6 DEF KernelTypes, CtasOK, CtaMoves
  <2>. QED BY <2>1, <2>2
<1>8. IsFiniteSet(Resident') /\ Cardinality(Resident') <= Slots
  <2>1. ASSUME NEW q \in Resident', q # <<p, c>>
        PROVE  q \in Resident
    <3>1. PICK u \in ToSet(running) : \E d \in DOMAIN cta'[u] :
               q = <<u, d>> /\ cta'[u][d].pc \notin {"waiting", "end"}
      BY <1>3 DEF Resident
    <3>2. PICK d \in DOMAIN cta'[u] : q = <<u, d>> /\ cta'[u][d].pc \notin {"waiting", "end"}
      BY <3>1
    <3>3. u \in Parts
      BY DEF KernelTypes, ToSet
    <3>4. d \in DOMAIN cta[u] /\ cta'[u][d] = cta[u][d]
      BY <1>6, <2>1, <3>2, <3>3
    <3>. QED BY <3>2, <3>4, ResidentFacts
  <2>2. CASE <<p, c>> \notin Resident' \/ <<p, c>> \in Resident
    <3>1. Resident' \subseteq Resident
      BY <2>1, <2>2
    <3>. QED BY <3>1, ResidentLess
  <2>3. CASE <<p, c>> \in Resident' /\ <<p, c>> \notin Resident
    <3>1. r.pc \notin {"waiting", "end"}
      BY <1>6, <2>3 DEF Resident
    <3>2. cta[p][c].pc \in {"waiting", "end"}
      BY <2>3, ResidentFacts
    <3>3. Cardinality(Resident) < Slots
      BY <1>1, <3>1, <3>2 DEF CtaMoves
    <3>4. Resident' \in SUBSET (Resident \cup {<<p, c>>})
      BY <2>1
    <3>5. IsFiniteSet(Resident) /\ Cardinality(Resident) \in Nat
      BY FS_CardinalityType DEF KernelTypes
    <3>. DEFINE e == <<p, c>>
    <3>. HIDE DEF e
    <3>6. IsFiniteSet(Resident \cup {e}) /\ Cardinality(Resident \cup {e}) = Cardinality(Resident) + 1
      BY <2>3, <3>5, FS_AddElement DEF e
    <3>7. IsFiniteSet(Resident') /\ Cardinality(Resident') <= Cardinality(Resident \cup {e})
      BY <3>4, <3>6, FS_Subset DEF e
    <3>8. Cardinality(Resident') \in Nat
      BY <3>7, FS_CardinalityType
    <3>. QED BY <3>3, <3>5, <3>6, <3>7, <3>8, KernelAssumption
  <2>. QED BY <2>2, <2>3
<1>. QED BY <1>3, <1>4, <1>7, <1>8 DEF KernelTypes

-----------------------------------------------------------------------------
(* The queues of the streams.                                                *)
LEMMA RootlessFacts ==
  ASSUME NEW q, NEW n \in Nat
  PROVE  IsFiniteSet(Rootless(q, n)) /\ Cardinality(Rootless(q, n)) \in Nat
<1>1. Rootless(q, n) \in SUBSET (0..(n - 1))
  BY DEF Rootless
<1>. QED BY <1>1, Interval, FS_Subset, FS_CardinalityType

(* More parts have no root queued.                                           *)
LEMMA RootlessMore ==
  ASSUME NEW q, NEW n \in Nat, NEW r, NEW m \in Nat, Rootless(q, n) \subseteq Rootless(r, m)
  PROVE  Cardinality(Rootless(q, n)) <= Cardinality(Rootless(r, m))
BY RootlessFacts, FS_Subset

(* The types when what is first in a queue is done.                          *)
LEMMA QueuePop ==
  ASSUME dist \in Inputs, QueueTypes, NEW s \in Streams, queue[s] # <<>>, Pop(s),
         UNCHANGED <<dist, request, host, i>>, prepared' \in BOOLEAN,
         roots' \in {0, roots} \/ (roots' = roots + 1 /\ Head(queue[s])[1] = "root")
  PROVE  QueueTypes'
<1>1. queue \in [Streams -> Seq(Work(i))] /\ Once(queue) /\ Popped(queue, s, queue')
  BY DEF QueueTypes, Pop, Popped
<1>2. queue' \in [Streams -> Seq(Work(i))] /\ Head(queue[s]) \in Work(i)
  BY <1>1, PopFacts
<1>3. /\ Once(queue')
      /\ \A op : Queued(queue', op) => Queued(queue, op)
      /\ Head(queue[s]) \in Parted => ~Queued(queue', Head(queue[s]))
  BY <1>1, PopOnce
<1>4. Streams' = Streams /\ Work(i)' = Work(i) /\ i' = i /\ i \in Nat /\ roots \in Nat
  BY GridRows DEF Streams, request, QueueTypes
<1>5. Rootless(queue, i) \subseteq Rootless(queue', i)
  BY <1>3 DEF Rootless
<1>6. roots' \in Nat /\ roots' <= Cardinality(Rootless(queue', i))
  <2>1. CASE roots' \in {0, roots}
    <3>1. Cardinality(Rootless(queue, i)) <= Cardinality(Rootless(queue', i))
      BY <1>4, <1>5, RootlessMore
    <3>2. Cardinality(Rootless(queue', i)) \in Nat /\ Cardinality(Rootless(queue, i)) \in Nat
      BY <1>4, RootlessFacts
    <3>. QED BY <1>4, <2>1, <3>1, <3>2 DEF QueueTypes
  <2>2. CASE roots' = roots + 1 /\ Head(queue[s])[1] = "root"
    <3>1. PICK p \in 0..(i - 1) : Head(queue[s]) = <<"root", p>>
      BY <1>2, <1>4, <2>2 DEF Work
    <3>2. <<"root", p>> \in Parted
      BY DEF Parted
    <3>3. ~Queued(queue', <<"root", p>>) /\ Queued(queue, <<"root", p>>)
      <4>1. queue[s][1] = <<"root", p>> /\ 1 \in DOMAIN queue[s] /\ s \in DOMAIN queue
        BY <1>1, <3>1, PopFacts
      <4>. QED BY <1>3, <3>1, <3>2, <4>1 DEF Queued
    <3>4. p \notin Rootless(queue, i) /\ Rootless(queue, i) \cup {p} \in SUBSET Rootless(queue', i)
      BY <1>5, <3>3 DEF Rootless
    <3>5. /\ IsFiniteSet(Rootless(queue, i)) /\ Cardinality(Rootless(queue, i)) \in Nat
          /\ IsFiniteSet(Rootless(queue', i)) /\ Cardinality(Rootless(queue', i)) \in Nat
      BY <1>4, RootlessFacts
    <3>6. Cardinality(Rootless(queue, i) \cup {p}) = Cardinality(Rootless(queue, i)) + 1
      BY <3>4, <3>5, FS_AddElement
    <3>7. Cardinality(Rootless(queue, i) \cup {p}) <= Cardinality(Rootless(queue', i))
      BY <3>4, <3>5, FS_Subset
    <3>8. roots <= Cardinality(Rootless(queue, i))
      BY DEF QueueTypes
    <3>. QED BY <1>4, <2>2, <3>5, <3>6, <3>7, <3>8
  <2>. QED BY <2>1, <2>2
<1>. QED BY <1>2, <1>3, <1>4, <1>6 DEF QueueTypes, request

(* The types when the host begins.                                           *)
LEMMA QueuePrepare ==
  ASSUME dist \in Inputs, QueueTypes, Prepare
  PROVE  QueueTypes'
<1>1. /\ queue' = [s \in Streams |-> IF s = 0 THEN <<<<"transpose">>>> ELSE <<<<"wait">>>>]
      /\ host' = "parts" /\ UNCHANGED <<dist, request, i, prepared, roots>>
  BY DEF Prepare, input
<1>2. Streams' = Streams /\ i' = i /\ i \in Nat /\ roots \in Nat
  BY <1>1, GridRows DEF Streams, request, QueueTypes
<1>3. queue' \in [Streams -> Seq(Work(i))]
  <2>1. <<"transpose">> \in Work(i) /\ <<"wait">> \in Work(i)
    BY DEF Work
  <2>. QED BY <1>1, <2>1
<1>4. \A s \in Streams : \A a \in DOMAIN queue'[s] : queue'[s][a] \in {<<"transpose">>, <<"wait">>}
  BY <1>1
<1>5. DOMAIN queue' = Streams
  BY <1>1
<1>6. \A op \in Parted : op \notin {<<"transpose">>, <<"wait">>}
  BY DEF Parted
<1>7. Once(queue') /\ \A op \in Parted : ~Queued(queue', op)
  BY <1>4, <1>5, <1>6 DEF Once, Queued
<1>8. Rootless(queue, i) \subseteq Rootless(queue', i)
  BY <1>2, <1>7 DEF Rootless, Parted
<1>9. roots <= Cardinality(Rootless(queue', i))
  <2>1. Cardinality(Rootless(queue, i)) <= Cardinality(Rootless(queue', i))
    BY <1>2, <1>8, RootlessMore
  <2>2. Cardinality(Rootless(queue', i)) \in Nat /\ Cardinality(Rootless(queue, i)) \in Nat
    BY <1>2, RootlessFacts
  <2>. QED BY <1>2, <2>1, <2>2 DEF QueueTypes
<1>. QED BY <1>1, <1>2, <1>3, <1>7, <1>9 DEF QueueTypes, request

(* Two operations are put at the ends of queues.                             *)
LEMMA AddTwo ==
  ASSUME NEW D, NEW W, NEW q \in [D -> Seq(W)], NEW t \in D, NEW u \in D, NEW x \in W, NEW y \in W,
         NEW q1, NEW q2, Added(q, t, x, q1), Added(q1, u, y, q2), Once(q),
         x # y, ~Queued(q, x), ~Queued(q, y)
  PROVE  /\ q2 \in [D -> Seq(W)] /\ Once(q2)
         /\ \A o : Queued(q2, o) <=> Queued(q, o) \/ o = x \/ o = y
         /\ \A s \in D : \A a \in DOMAIN q[s] : a \in DOMAIN q2[s] /\ q2[s][a] = q[s][a]
         /\ \A s \in D : \A a \in DOMAIN q2[s] : a \in DOMAIN q[s] \/ q2[s][a] \in {x, y}
<1>7. /\ q1 \in [D -> Seq(W)] /\ Once(q1)
      /\ \A o : Queued(q1, o) <=> Queued(q, o) \/ o = x
  BY AddFacts, AddOnce
<1>8. ~Queued(q1, y)
  BY <1>7
<1>9. /\ q2 \in [D -> Seq(W)] /\ Once(q2)
      /\ \A o : Queued(q2, o) <=> Queued(q1, o) \/ o = y
  <2>1. q1 \in [D -> Seq(W)] /\ Once(q1)
    BY <1>7
  <2>2. q2 \in [D -> Seq(W)]
    BY <2>1, AddFacts
  <2>3. Once(q2) /\ \A o : Queued(q2, o) <=> Queued(q1, o) \/ o = y
    BY <1>8, <2>1, AddOnce, SMTT(60)
  <2>. QED BY <2>2, <2>3
<1>10. \A s \in D : /\ \A a \in DOMAIN q[s] : a \in DOMAIN q1[s] /\ q1[s][a] = q[s][a]
                    /\ \A a \in DOMAIN q1[s] : a \in DOMAIN q[s] \/ q1[s][a] = x
  BY AddOne
<1>11. \A s \in D : /\ \A a \in DOMAIN q1[s] : a \in DOMAIN q2[s] /\ q2[s][a] = q1[s][a]
                    /\ \A a \in DOMAIN q2[s] : a \in DOMAIN q1[s] \/ q2[s][a] = y
  <2>1. q1 \in [D -> Seq(W)]
    BY <1>7
  <2>. QED BY <2>1, AddOne
<1>12. ASSUME NEW s \in D, NEW a \in DOMAIN q[s]
       PROVE  a \in DOMAIN q2[s] /\ q2[s][a] = q[s][a]
  BY <1>10, <1>11
<1>13. ASSUME NEW s \in D, NEW a \in DOMAIN q2[s], a \notin DOMAIN q[s]
       PROVE  q2[s][a] \in {x, y}
  <2>1. CASE a \in DOMAIN q1[s]
    BY <1>10, <1>11, <1>13, <2>1
  <2>2. CASE a \notin DOMAIN q1[s]
    BY <1>11, <2>2
  <2>. QED BY <2>1, <2>2
<1>. QED BY <1>7, <1>9, <1>12, <1>13

(* The streams that a part uses.                                             *)
LEMMA PartStreams ==
  ASSUME dist \in Inputs, QueueTypes, NEW p \in Nat
  PROVE  StreamOf(p) \in Streams /\ PolicyStream(p) \in Streams /\ 0 \in Streams
<1>1. pool \in Nat
  BY HostAssumption DEF QueueTypes
<1>2. CASE pool = 0
  BY <1>2 DEF StreamOf, PolicyStream, Streams
<1>3. CASE pool # 0
  <2>1. p % pool \in 0..(pool - 1)
    BY <1>1, <1>3
  <2>. QED BY <1>1, <1>3, <2>1 DEF StreamOf, PolicyStream, Streams
<1>. QED BY <1>2, <1>3

(* What the host has queued for a part, and only that, is new.               *)
LEMMA SearchPartQueue ==
  ASSUME dist \in Inputs, QueueTypes, SearchPart
  PROVE  /\ i \in Nat /\ i' = i + 1 /\ Streams' = Streams
         /\ queue' \in [Streams -> Seq(Work(i'))] /\ Once(queue')
         /\ \A s \in Streams : \A a \in DOMAIN queue[s] : a \in DOMAIN queue'[s] /\ queue'[s][a] = queue[s][a]
         /\ \A s \in Streams : \A a \in DOMAIN queue'[s] :
              a \in DOMAIN queue[s] \/ queue'[s][a] \in {<<"search", i>>, <<"root", i>>, <<"copies", i>>}
         /\ \A op : Queued(queue', op) <=>
              \/ Queued(queue, op) \/ op = <<"search", i>>
              \/ metric = "fused_sqrt" /\ op = <<"root", i>>
              \/ Apart(i) /\ op = <<"copies", i>>
         /\ ~Queued(queue, <<"search", i>>) /\ ~Queued(queue, <<"root", i>>)
<1>. DEFINE t == StreamOf(i)
            u == PolicyStream(i)
            W == Work(i + 1)
            x == <<"search", i>>
            y == <<"root", i>>
            z == <<"copies", i>>
            q1 == [queue EXCEPT ![t] = Append(@, x)]
            q2 == [q1 EXCEPT ![t] = Append(@, y)]
            q3 == [q1 EXCEPT ![u] = Append(@, z)]
<1>1. i \in Nat /\ i' = i + 1
  BY GridRows DEF QueueTypes, SearchPart
<1>2. t \in Streams /\ u \in Streams /\ Streams' = Streams
  BY <1>1, PartStreams DEF Streams, SearchPart, request
<1>3. queue \in [Streams -> Seq(W)] /\ Once(queue)
  <2>1. Work(i) \subseteq W
    BY <1>1 DEF Work
  <2>. HIDE DEF W
  <2>2. \A s \in Streams : queue[s] \in Seq(W)
    BY <2>1 DEF QueueTypes
  <2>. QED BY <2>2 DEF QueueTypes
<1>4. ~Queued(queue, <<"search", i>>) /\ ~Queued(queue, <<"root", i>>) /\ ~Queued(queue, <<"copies", i>>)
  <2>1. <<"search", i>> \notin Work(i) /\ <<"root", i>> \notin Work(i) /\ <<"copies", i>> \notin Work(i)
    BY <1>1 DEF Work
  <2>2. \A s \in DOMAIN queue : \A a \in DOMAIN queue[s] : queue[s][a] \in Work(i)
    BY DEF QueueTypes
  <2>. QED BY <2>1, <2>2 DEF Queued
<1>5. /\ <<"search", i>> \in W /\ <<"root", i>> \in W /\ <<"copies", i>> \in W
      /\ <<"search", i>> # <<"root", i>> /\ <<"search", i>> # <<"copies", i>>
  BY <1>1 DEF Work
<1>6. /\ metric = "fused_sqrt" => queue' = q2 /\ ~Apart(i)
      /\ metric # "fused_sqrt" => queue' = IF Apart(i) THEN q3 ELSE q1
  <2>. DEFINE own == [queue EXCEPT ![t] =
                @ \o <<<<"search", i>>>> \o (IF metric = "fused_sqrt" THEN <<<<"root", i>>>> ELSE <<>>)]
  <2>1. queue[t] \in Seq(W)
    BY <1>2, <1>3
  <2>2. queue' = IF Apart(i) THEN [own EXCEPT ![u] = Append(@, z)] ELSE own
    BY DEF SearchPart, Apart
  <2>a. metric = "fused_sqrt" => ~Apart(i)
    BY DEF Apart
  <2>. HIDE DEF x, y, z, W
  <2>3. queue[t] \o <<x>> = Append(queue[t], x) /\ queue[t] \o <<x>> \in Seq(W)
    BY <1>5, <2>1, AppendOne DEF x
  <2>4. queue[t] \o <<x>> \o <<>> = Append(queue[t], x)
    BY <1>5, <2>1, <2>3, AppendOne DEF x
  <2>5. queue[t] \o <<x>> \o <<y>> = Append(Append(queue[t], x), y)
    <3>. DEFINE w == queue[t] \o <<x>>
    <3>1. w \in Seq(W) /\ y \in W
      BY <1>5, <2>3 DEF y
    <3>. HIDE DEF w
    <3>2. w \o <<y>> = Append(w, y)
      BY <3>1, AppendOne
    <3>. QED BY <2>3, <3>2 DEF w
  <2>6. q1 = [queue EXCEPT ![t] = Append(queue[t], x)]
    BY DEF x
  <2>7. q2 = [queue EXCEPT ![t] = Append(Append(queue[t], x), y)]
    BY <1>2, <1>3, <2>6 DEF y
  <2>8. ASSUME metric = "fused_sqrt" PROVE own = q2
    <3>1. own = [queue EXCEPT ![t] = queue[t] \o <<x>> \o <<y>>]
      BY <2>8 DEF x, y
    <3>. HIDE DEF q2, own
    <3>. QED BY <2>5, <2>7, <2>8, <3>1
  <2>9. ASSUME metric # "fused_sqrt" PROVE own = q1
    <3>1. own = [queue EXCEPT ![t] = queue[t] \o <<x>> \o <<>>]
      BY <2>9 DEF x, y
    <3>. HIDE DEF q1, own
    <3>. QED BY <2>4, <2>6, <2>9, <3>1
  <2>. HIDE DEF own, q1, q2, u
  <2>. QED BY <2>2, <2>a, <2>8, <2>9
<1>b. /\ x \in W /\ y \in W /\ z \in W /\ x # y /\ x # z
      /\ ~Queued(queue, x) /\ ~Queued(queue, y) /\ ~Queued(queue, z)
  BY <1>4, <1>5
<1>a. Added(queue, t, x, q1) /\ Added(q1, t, y, q2) /\ Added(q1, u, z, q3)
  BY DEF Added
<1>. HIDE DEF W, x, y, z, q1, q2, q3, t, u
<1>7. CASE metric = "fused_sqrt"
  <2>1. /\ queue' \in [Streams -> Seq(W)] /\ Once(queue')
        /\ \A o : Queued(queue', o) <=> Queued(queue, o) \/ o = x \/ o = y
        /\ \A s \in Streams : \A a \in DOMAIN queue[s] : a \in DOMAIN queue'[s] /\ queue'[s][a] = queue[s][a]
        /\ \A s \in Streams : \A a \in DOMAIN queue'[s] : a \in DOMAIN queue[s] \/ queue'[s][a] \in {x, y}
    BY <1>2, <1>3, <1>6, <1>7, <1>b, <1>a, AddTwo
  <2>. QED BY <1>1, <1>2, <1>4, <1>6, <1>7, <2>1 DEF W, x, y
<1>8. CASE metric # "fused_sqrt" /\ Apart(i)
  <2>1. /\ queue' \in [Streams -> Seq(W)] /\ Once(queue')
        /\ \A o : Queued(queue', o) <=> Queued(queue, o) \/ o = x \/ o = z
        /\ \A s \in Streams : \A a \in DOMAIN queue[s] : a \in DOMAIN queue'[s] /\ queue'[s][a] = queue[s][a]
        /\ \A s \in Streams : \A a \in DOMAIN queue'[s] : a \in DOMAIN queue[s] \/ queue'[s][a] \in {x, z}
    BY <1>2, <1>3, <1>6, <1>8, <1>b, <1>a, AddTwo
  <2>. QED BY <1>1, <1>2, <1>4, <1>6, <1>8, <2>1 DEF W, x, z
<1>9. CASE metric # "fused_sqrt" /\ ~Apart(i)
  <2>0. queue' = q1
    BY <1>6, <1>9
  <2>1. /\ queue' \in [Streams -> Seq(W)] /\ Once(queue')
        /\ \A o : Queued(queue', o) <=> Queued(queue, o) \/ o = x
    BY <1>2, <1>3, <1>b, <1>a, <2>0, AddFacts, AddOnce
  <2>2. \A s \in Streams : /\ \A a \in DOMAIN queue[s] : a \in DOMAIN queue'[s] /\ queue'[s][a] = queue[s][a]
                           /\ \A a \in DOMAIN queue'[s] : a \in DOMAIN queue[s] \/ queue'[s][a] = x
    BY <1>2, <1>3, <1>b, <1>a, <2>0, AddOne
  <2>. QED BY <1>1, <1>2, <1>4, <1>9, <2>1, <2>2 DEF W, x
<1>. QED BY <1>7, <1>8, <1>9

(* The types when the search of a part is queued.                            *)
LEMMA QueueSearchPart ==
  ASSUME dist \in Inputs, QueueTypes, SearchPart
  PROVE  QueueTypes'
<1>1. UNCHANGED <<dist, request, host, prepared, roots>> /\ i \in Parts /\ roots \in Nat
  BY DEF SearchPart, input, QueueTypes
<1>2. /\ i \in Nat /\ i' = i + 1 /\ Streams' = Streams
      /\ queue' \in [Streams -> Seq(Work(i'))] /\ Once(queue')
      /\ \A op : Queued(queue', op) <=>
              \/ Queued(queue, op) \/ op = <<"search", i>>
              \/ metric = "fused_sqrt" /\ op = <<"root", i>>
              \/ Apart(i) /\ op = <<"copies", i>>
  BY SearchPartQueue
<1>3. i' \in 0..Len(dist)
  BY <1>1, <1>2, GridRows DEF Parts
<1>4. Rootless(queue, i) \subseteq Rootless(queue', i')
  <2>1. SUFFICES ASSUME NEW p \in Rootless(queue, i) PROVE p \in Rootless(queue', i')
    OBVIOUS
  <2>2. p \in 0..(i - 1) /\ ~Queued(queue, <<"root", p>>)
    BY DEF Rootless
  <2>3. <<"root", p>> # <<"search", i>> /\ <<"root", p>> # <<"root", i>> /\ <<"root", p>> # <<"copies", i>>
    BY <1>2, <2>2
  <2>. QED BY <1>2, <2>2, <2>3 DEF Rootless
<1>5. roots <= Cardinality(Rootless(queue', i'))
  <2>1. Cardinality(Rootless(queue, i)) <= Cardinality(Rootless(queue', i'))
    BY <1>2, <1>3, <1>4, RootlessMore
  <2>2. Cardinality(Rootless(queue', i')) \in Nat /\ Cardinality(Rootless(queue, i)) \in Nat
    BY <1>2, <1>3, RootlessFacts
  <2>. QED BY <1>1, <2>1, <2>2 DEF QueueTypes
<1>. QED BY <1>1, <1>2, <1>3, <1>5 DEF QueueTypes, request

(* The types when the host has waited for the pool.                          *)
LEMMA QueueSync ==
  ASSUME dist \in Inputs, QueueTypes, SyncStreamPool
  PROVE  QueueTypes'
<1>1. /\ UNCHANGED <<dist, request, i, prepared, roots>> /\ host' = "returned"
      /\ queue' = queue \/ queue' = [queue EXCEPT ![0] = Append(@, <<"merge">>)]
  BY DEF SyncStreamPool, input
<1>2. Streams' = Streams /\ i' = i /\ i \in Nat /\ 0 \in Streams
  BY <1>1, GridRows, HostAssumption DEF Streams, request, QueueTypes
<1>3. CASE queue' = queue
  BY <1>1, <1>2, <1>3 DEF QueueTypes, request
<1>4. CASE queue' = [queue EXCEPT ![0] = Append(@, <<"merge">>)]
  <2>. DEFINE x == <<"merge">>
  <2>1. x \in Work(i) /\ x \notin Parted
    BY DEF Work, Parted
  <2>2. queue \in [Streams -> Seq(Work(i))] /\ Once(queue) /\ Added(queue, 0, x, queue')
    BY <1>4 DEF QueueTypes, Added
  <2>. HIDE DEF x
  <2>3. queue' \in [Streams -> Seq(Work(i))]
    BY <1>2, <2>1, <2>2, AddFacts
  <2>4. Once(queue') /\ \A o : Queued(queue', o) <=> Queued(queue, o) \/ o = x
    BY <1>2, <2>1, <2>2, AddOnce
  <2>5. Rootless(queue', i) = Rootless(queue, i)
    BY <2>4 DEF Rootless, x
  <2>. QED BY <1>1, <1>2, <2>3, <2>4, <2>5 DEF QueueTypes, request
<1>. QED BY <1>1, <1>3, <1>4

-----------------------------------------------------------------------------
(* The tiles of a part.                                                      *)
LEMMA TileShape ==
  ASSUME dist \in Inputs, k \in Ks, NEW p \in Parts
  PROVE  Cols(p) \in Nat \ {0} /\ Tiles(p) \in Nat \ {0} /\ (~Split(p) => Tiles(p) = 1)
<1>1. k \in Nat \ {0} /\ Size(p) \in Nat \ {0}
  BY KernelAssumption, Shapes
<1>2. Cols(p) \in Nat \ {0}
  BY <1>1, HostAssumption DEF Cols, Least
<1>3. Tiles(p) \in Nat \ {0}
  BY <1>1, <1>2, CeilDivFacts DEF Tiles
<1>4. ASSUME ~Split(p) PROVE Tiles(p) = 1
  <2>. DEFINE n == Size(p)
  <2>1. Tiles(p) = CeilDiv(n, n)
    BY <1>4 DEF Tiles, Split
  <2>. HIDE DEF n
  <2>2. n \in Nat \ {0}
    BY <1>1 DEF n
  <2>. DEFINE v == (n + n - 1) \div n
  <2>3. v \in Int /\ n * v <= n + n - 1 /\ n + n - 1 < n * v + n
    BY <2>2
  <2>4. v = CeilDiv(n, n)
    BY DEF CeilDiv
  <2>. HIDE DEF v
  <2>5. v \in Nat \ {0}
    BY <2>1, <2>4, <1>3
  <2>6. v < 2
    <3>1. SUFFICES ASSUME v >= 2 PROVE FALSE
      BY <2>3
    <3>2. n * v >= n * 2
      BY <2>2, <2>3, <3>1
    <3>. QED BY <2>2, <2>3, <3>2
  <2>. QED BY <2>1, <2>4, <2>5, <2>6
<1>. QED BY <1>2, <1>3, <1>4

(* The input and the request decide how a part is tiled.                     *)
LEMMA TiledFrame ==
  ASSUME UNCHANGED <<input, request>>
  PROVE  \A p : /\ Cols(p)' = Cols(p) /\ Tiles(p)' = Tiles(p) /\ (Split(p)' <=> Split(p))
                /\ (Apart(p)' <=> Apart(p))
<1>1. k' = k /\ metric' = metric /\ pool' = pool /\ cached' = cached /\ \A p : Size(p)' = Size(p)
  BY Frame DEF input, request
<1>2. ASSUME NEW p PROVE Cols(p)' = Cols(p) /\ Tiles(p)' = Tiles(p) /\ (Split(p)' <=> Split(p))
  BY <1>1 DEF Cols, Tiles, Split
<1>3. ASSUME NEW p PROVE InOrder(p)' <=> InOrder(p)
  BY <1>1 DEF InOrder, PolicyStream, StreamOf
<1>. QED BY <1>1, <1>2, <1>3 DEF Apart

(* The initial states have the types.                                        *)
LEMMA InitTypes == Init => TypeInv
<1>. SUFFICES ASSUME Init PROVE TypeInv
  OBVIOUS
<1>1. /\ dist \in Inputs /\ k \in Ks /\ k \in Nat \ {0}
      /\ out = [p \in Parts |-> [y \in Rows |-> NoList]]
      /\ running = <<>> /\ mutexes = [p \in Parts |-> [y \in Rows |-> 0]]
      /\ cta = [p \in Parts |-> <<>>]
  BY KernelAssumption DEF Init, KernelInit
<1>2. NoList \in Lists
  BY KernelAssumption DEF NoList, Nothing, Lists
<1>3. KernelTypes
  <2>1. Resident = {}
    BY <1>1 DEF Resident, ToSet
  <2>2. IsFiniteSet(Resident) /\ Cardinality(Resident) <= Slots
    BY <2>1, FS_EmptySet, KernelAssumption
  <2>3. running \in Seq(Parts) /\ IsInjective(running)
    BY <1>1 DEF IsInjective
  <2>4. \A p \in Parts : CtasOK(p)
    BY <1>1 DEF CtasOK
  <2>. QED BY <1>1, <1>2, <2>2, <2>3, <2>4 DEF KernelTypes
<1>a. /\ metric \in {"fused", "fused_sqrt", "tiled"} /\ pool \in PoolSizes /\ offset \in Offsets \cup {NoOffset}
      /\ host = "start" /\ i = 0 /\ prepared = FALSE /\ cached \in BOOLEAN /\ roots = 0
      /\ queue = [s \in Streams |-> <<>>]
      /\ selected = [p \in Parts |-> 0] /\ copied = [p \in Parts |-> 0]
      /\ temp = [p \in Parts |-> [t \in 0..(Tiles(p) - 1) |-> [y \in Rows |-> Unwritten]]]
  BY DEF Init
<1>4. QueueTypes
  <2>2. Once(queue) /\ queue \in [Streams -> Seq(Work(i))]
    BY <1>a DEF Once
  <2>3. roots <= Cardinality(Rootless(queue, i))
    <3>1. Cardinality(Rootless(queue, i)) \in Nat
      BY <1>a, RootlessFacts
    <3>. QED BY <1>a, <3>1
  <2>4. i \in 0..Len(dist) /\ roots \in Nat
    BY <1>1, <1>a, GridRows
  <2>. QED BY <1>a, <2>2, <2>3, <2>4 DEF QueueTypes
<1>5. TiledTypes
  <2>1. Unwritten \in Lists
    BY HostAssumption DEF Unwritten, Lists
  <2>2. \A op : ~Queued(queue, op)
    BY <1>a DEF Queued
  <2>3. ASSUME NEW p \in Parts PROVE TiledOK(p)
    <3>1. Tiles(p) \in Nat \ {0}
      BY <1>1, TileShape
    <3>2. temp[p] = [t \in 0..(Tiles(p) - 1) |-> [y \in Rows |-> Unwritten]]
      BY <1>a
    <3>3. temp[p] \in [0..(Tiles(p) - 1) -> [Rows -> Lists]]
      BY <2>1, <3>2
    <3>. QED BY <1>a, <2>2, <3>1, <3>3 DEF TiledOK
  <2>. QED BY <1>a, <2>3 DEF TiledTypes
<1>. QED BY <1>3, <1>4, <1>5 DEF TypeInv

(* What select_k stores of a tile is a list.                                 *)
LEMMA TileNearestList ==
  ASSUME IInv, KernelTypes, NEW p \in Parts, NEW y \in Rows, NEW t
  PROVE  TileNearest(p, y, t) \in Lists
<1>1. k \in Nat \ {0} /\ Size(p) \in Nat \ {0} /\ Infinity \in Nat
  BY KernelAssumption, Shapes DEF KernelTypes, IInv
<1>4. \A c \in 0..(Size(p) - 1) : Distance(p, y, c) \in Int
  BY Shapes DEF IInv, Distance, Distances
<1>. DEFINE C == {d \in 0..(Size(p) - 1) : d \div Cols(p) = t}
            s == [c \in C |-> <<Distance(p, y, c), c>>]
<1>5. IsFiniteSet(C)
  BY <1>1, Interval, FS_Subset
<1>6. \A c \in DOMAIN s : s[c] \in Int \X Int
  BY <1>4
<1>7. IsFiniteSet(DOMAIN s)
  BY <1>5
<1>. HIDE DEF s
<1>8. Nearest(s) \in Lists
  BY <1>1, <1>6, <1>7, NearestIsList
<1>. QED BY <1>8 DEF TileNearest, s

(* So is what it selects of all tiles.                                       *)
LEMMA SelectionList ==
  ASSUME IInv, KernelTypes, TiledTypes, NEW p \in Parts, NEW y \in Rows
  PROVE  Selection(p, y) \in Lists
<1>1. k \in Nat \ {0} /\ Tiles(p) \in Nat \ {0} /\ temp[p] \in [0..(Tiles(p) - 1) -> [Rows -> Lists]]
  BY KernelAssumption, TileShape DEF KernelTypes, IInv, TiledTypes, TiledOK
<1>. DEFINE D == (0..(Tiles(p) - 1)) \X Ranks
            s == [q \in D |-> temp[p][q[1]][y][q[2]]]
<1>2. IsFiniteSet(D)
  <2>1. IsFiniteSet(0..(Tiles(p) - 1)) /\ IsFiniteSet(Ranks)
    BY <1>1, Interval DEF Ranks
  <2>. QED BY <2>1, FS_Product
<1>3. \A q \in D : s[q] \in Int \X Int
  <2>1. SUFFICES ASSUME NEW q \in D PROVE temp[p][q[1]][y][q[2]] \in Int \X Int
    OBVIOUS
  <2>2. q[1] \in 0..(Tiles(p) - 1) /\ q[2] \in Ranks
    OBVIOUS
  <2>3. temp[p][q[1]][y] \in Lists
    BY <1>1, <2>2
  <2>. QED BY <2>2, <2>3 DEF Lists
<1>4. DOMAIN s = D
  OBVIOUS
<1>. HIDE DEF s, D
<1>5. Nearest(s) \in Lists
  BY <1>1, <1>2, <1>3, <1>4, NearestIsList
<1>. QED BY <1>5 DEF Selection, s, D

(* The tiles when none is selected or copied.                                *)
LEMMA TiledStays ==
  ASSUME dist \in Inputs, QueueTypes, KernelTypes, TiledTypes, UNCHANGED <<input, request, tiled>>, i' \in {i, i + 1},
         \A p \in Parts : Queued(queue', <<"copies", p>>) => Queued(queue, <<"copies", p>>) \/ (p = i /\ Apart(p))
  PROVE  TiledTypes'
<1>1. /\ selected' = selected /\ copied' = copied /\ temp' = temp
      /\ Parts' = Parts /\ Rows' = Rows /\ Lists' = Lists
      /\ \A p : Tiles(p)' = Tiles(p) /\ (Apart(p)' <=> Apart(p))
  BY Frame, TiledFrame DEF tiled
<1>2. i \in Int /\ \A p \in Parts : p \in Int
  BY DEF QueueTypes, Parts
<1>3. \A p \in Parts : Tiles(p) \in Nat \ {0}
  BY TileShape DEF KernelTypes
<1>4. ASSUME NEW p \in Parts
      PROVE  TiledOK(p)'
  <2>1. TiledOK(p)
    BY DEF TiledTypes
  <2>2. Queued(queue', <<"copies", p>>) => Apart(p) /\ copied[p] < Tiles(p)
    BY <1>2, <1>3, <2>1 DEF TiledOK
  <2>3. p >= i' => p >= i
    BY <1>2
  <2>. QED BY <1>1, <2>1, <2>2, <2>3 DEF TiledOK
<1>. QED BY <1>1, <1>4 DEF TiledTypes

(* The tiles when what is first in a queue is done.                          *)
LEMMA TiledPop ==
  ASSUME dist \in Inputs, QueueTypes, KernelTypes, TiledTypes, UNCHANGED <<input, request, i, tiled>>,
         NEW s \in Streams, queue[s] # <<>>, Pop(s)
  PROVE  TiledTypes'
<1>1. queue \in [Streams -> Seq(Work(i))] /\ Once(queue) /\ Popped(queue, s, queue')
  BY DEF QueueTypes, Pop, Popped
<1>2. \A op : Queued(queue', op) => Queued(queue, op)
  BY <1>1, PopOnce
<1>3. i' \in {i, i + 1}
  OBVIOUS
<1>. QED BY <1>2, <1>3, TiledStays

(* An entry of an entry is changed.                                          *)
LEMMA Entry ==
  ASSUME NEW S, NEW f, f = [q \in S |-> f[q]], NEW p \in S, NEW t, NEW v, NEW g, g = [f EXCEPT ![p][t] = v]
  PROVE  /\ g = [q \in S |-> g[q]] /\ g[p] = [f[p] EXCEPT ![t] = v]
         /\ \A q \in S : q # p => g[q] = f[q]
OBVIOUS

(* What is at the head of a queue.                                           *)
LEMMA TurnFacts ==
  ASSUME dist \in Inputs, QueueTypes, NEW s \in Streams, NEW op, Turn(s, op)
  PROVE  /\ queue[s] # <<>> /\ Head(queue[s]) \in Work(i) /\ queue[s][1] = Head(queue[s])
         /\ 1 \in DOMAIN queue[s] /\ s \in DOMAIN queue /\ DOMAIN queue = Streams
         /\ op \in {"search", "root", "copies"} => \E p \in 0..(i - 1) : p \in Parts /\ Head(queue[s]) = <<op, p>>
         /\ op \notin {"search", "root", "copies"} => Head(queue[s]) = <<op>>
<1>1. queue[s] # <<>> /\ Head(queue[s])[1] = op /\ queue[s] \in Seq(Work(i))
  BY DEF Turn, QueueTypes
<1>2. Head(queue[s]) \in Work(i) /\ 1 \in DOMAIN queue[s] /\ queue[s][1] = Head(queue[s])
  BY <1>1
<1>3. ASSUME op \in {"search", "root", "copies"}
      PROVE  \E p \in 0..(i - 1) : p \in Parts /\ Head(queue[s]) = <<op, p>>
  <2>1. PICK p \in 0..(i - 1) : Head(queue[s]) = <<op, p>>
    BY <1>1, <1>2, <1>3 DEF Work
  <2>2. p \in Parts
    BY GridRows DEF Parts, QueueTypes
  <2>. QED BY <2>1, <2>2
<1>4. ASSUME op \notin {"search", "root", "copies"}
      PROVE  Head(queue[s]) = <<op>>
  BY <1>1, <1>2, <1>4 DEF Work
<1>. QED BY <1>1, <1>2, <1>3, <1>4 DEF QueueTypes

(* The types when the host and the streams do nothing.                       *)
LEMMA QueuesSame ==
  ASSUME QueueTypes, UNCHANGED <<dist, request, host, i, queue, prepared, roots>>
  PROVE  QueueTypes'
BY DEF QueueTypes, request, Streams, Work

(* A tile is searched.                                                       *)
LEMMA SelectTypes ==
  ASSUME IInv, TypeInv, NEW s \in Streams, SelectTile(s)
  PROVE  TypeInv'
<1>1. PICK p \in 0..(i - 1) : p \in Parts /\ Head(queue[s]) = <<"search", p>>
  BY TurnFacts DEF SelectTile, TypeInv, IInv
<1>. DEFINE v == [y \in Rows |-> TileNearest(p, y, selected[p])]
<1>2. /\ selected[p] < Tiles(p)
      /\ out' = [out EXCEPT ![p] = v] /\ selected' = [selected EXCEPT ![p] = selected[p] + 1]
      /\ UNCHANGED <<input, kernels, request, host, i, queue, prepared, copied, temp, res, roots>>
  <2>1. Part(s) = p
    BY <1>1 DEF Part
  <2>. QED BY <2>1 DEF SelectTile
<1>3. v \in [Rows -> Lists]
  BY <1>1, TileNearestList DEF TypeInv
<1>. HIDE DEF v
<1>4. out' \in [Parts -> [Rows -> Lists]]
  BY <1>2, <1>3 DEF TypeInv, KernelTypes
<1>5. QueueTypes' /\ KernelTypes'
  BY <1>2, <1>4, QueuesSame, KernelsSame DEF TypeInv, input
<1>6. /\ Parts' = Parts /\ Rows' = Rows /\ Lists' = Lists /\ i \in Int
      /\ \A q : Tiles(q)' = Tiles(q) /\ (Apart(q)' <=> Apart(q))
      /\ \A q \in Parts : TiledOK(q)
      /\ selected \in [Parts -> Int]
  <2>1. UNCHANGED <<input, request>>
    BY <1>2
  <2>2. Parts' = Parts /\ Rows' = Rows /\ Lists' = Lists
    BY <2>1, Frame
  <2>3. \A q : Tiles(q)' = Tiles(q) /\ (Apart(q)' <=> Apart(q))
    BY <2>1, TiledFrame
  <2>4. i \in Int
    BY DEF TypeInv, QueueTypes
  <2>5. selected \in [Parts -> Int] /\ \A q \in Parts : TiledOK(q)
    BY DEF TypeInv, TiledTypes
  <2>. QED BY <2>2, <2>3, <2>4, <2>5
<1>7. selected' \in [Parts -> Int] /\ selected'[p] = selected[p] + 1 /\ \A q \in Parts \ {p} : selected'[q] = selected[q]
  BY <1>1, <1>2, <1>6
<1>8. ASSUME NEW q \in Parts PROVE TiledOK(q)'
  <2>1. TiledOK(q)
    BY <1>6
  <2>2. Tiles(q) \in Nat
    BY TileShape DEF TypeInv, KernelTypes, IInv
  <2>3. selected'[q] \in 0..Tiles(q) /\ (q >= i => selected'[q] = 0)
    <3>1. CASE q = p
      BY <1>1, <1>2, <1>6, <1>7, <2>1, <2>2, <3>1 DEF TiledOK
    <3>2. CASE q # p
      BY <1>7, <2>1, <3>2 DEF TiledOK
    <3>. QED BY <3>1, <3>2
  <2>. QED BY <1>2, <1>6, <2>1, <2>3 DEF TiledOK
<1>9. TiledTypes'
  BY <1>2, <1>6, <1>7, <1>8 DEF TiledTypes, TypeInv
<1>. QED BY <1>5, <1>9 DEF TypeInv

(* A tile is copied: of a part whose search is queued, or of one that is     *)
(* copied apart, which is then at its end or not.                            *)
LEMMA CopyTypes ==
  ASSUME IInv, TypeInv, NEW p \in 0..(i - 1), p \in Parts, CopyTile(p), copied[p] < Tiles(p), QueueTypes',
         \A q \in Parts : Queued(queue', <<"copies", q>>) => Queued(queue, <<"copies", q>>),
         Queued(queue', <<"copies", p>>) => copied[p] + 1 < Tiles(p)
  PROVE  TypeInv'
<1>1. /\ temp' = [temp EXCEPT ![p][copied[p]] = out[p]] /\ copied' = [copied EXCEPT ![p] = copied[p] + 1]
      /\ UNCHANGED <<input, out, kernels, request, i, selected>>
  BY DEF CopyTile
<1>2. KernelTypes'
  <2>1. out' \in [Parts -> [Rows -> Lists]]
    BY <1>1 DEF TypeInv, KernelTypes
  <2>. QED BY <1>1, <2>1, KernelsSame DEF TypeInv
<1>3. /\ Parts' = Parts /\ Rows' = Rows /\ Lists' = Lists /\ i \in Int
      /\ \A q : Tiles(q)' = Tiles(q) /\ (Apart(q)' <=> Apart(q))
      /\ \A q \in Parts : TiledOK(q)
      /\ copied \in [Parts -> Int] /\ temp = [q \in Parts |-> temp[q]] /\ out[p] \in [Rows -> Lists]
  BY <1>1, Frame, TiledFrame DEF TypeInv, TiledTypes, QueueTypes, KernelTypes
<1>4. copied' \in [Parts -> Int] /\ copied'[p] = copied[p] + 1 /\ \A q \in Parts \ {p} : copied'[q] = copied[q]
  BY <1>1, <1>3
<1>5. /\ temp' = [q \in Parts |-> temp'[q]] /\ temp'[p] = [temp[p] EXCEPT ![copied[p]] = out[p]]
      /\ \A q \in Parts : q # p => temp'[q] = temp[q]
  BY <1>1, <1>3, Entry
<1>6. ASSUME NEW q \in Parts PROVE TiledOK(q)'
  <2>1. TiledOK(q)
    BY <1>3
  <2>2. Tiles(q) \in Nat
    BY TileShape DEF TypeInv, KernelTypes, IInv
  <2>3. /\ copied'[q] \in 0..Tiles(q) /\ (q >= i => copied'[q] = 0)
        /\ temp'[q] \in [0..(Tiles(q) - 1) -> [Rows -> Lists]]
        /\ Queued(queue', <<"copies", q>>) => Apart(q) /\ copied'[q] < Tiles(q)
    <3>1. CASE q = p
      <4>1. copied'[q] \in 0..Tiles(q) /\ (q >= i => copied'[q] = 0)
        BY <1>3, <1>4, <2>1, <2>2, <3>1 DEF TiledOK
      <4>2. temp'[q] \in [0..(Tiles(q) - 1) -> [Rows -> Lists]]
        BY <1>3, <1>5, <2>1, <3>1 DEF TiledOK
      <4>3. Queued(queue', <<"copies", q>>) => Apart(q) /\ copied'[q] < Tiles(q)
        BY <1>4, <2>1, <3>1 DEF TiledOK
      <4>. QED BY <4>1, <4>2, <4>3
    <3>2. CASE q # p
      BY <1>4, <1>5, <2>1, <3>2 DEF TiledOK
    <3>. QED BY <3>1, <3>2
  <2>. QED BY <1>1, <1>3, <2>1, <2>3 DEF TiledOK
<1>7. TiledTypes'
  BY <1>1, <1>3, <1>4, <1>5, <1>6 DEF TiledTypes, TypeInv
<1>. QED BY <1>2, <1>7 DEF TypeInv

(* A tile is copied on the stream of the search.                             *)
LEMMA InOrderTypes ==
  ASSUME IInv, TypeInv, NEW s \in Streams, CopyInOrder(s)
  PROVE  TypeInv'
<1>1. PICK p \in 0..(i - 1) : p \in Parts /\ Head(queue[s]) = <<"search", p>>
  BY TurnFacts DEF CopyInOrder, TypeInv, IInv
<1>2. InOrder(p) /\ copied[p] < selected[p] /\ CopyTile(p) /\ queue' = queue
  <2>1. Part(s) = p
    BY <1>1 DEF Part
  <2>. QED BY <2>1 DEF CopyInOrder
<1>3. QueueTypes'
  BY <1>2, QueuesSame DEF TypeInv, CopyTile, input
<1>4. TiledOK(p)
  BY <1>1 DEF TypeInv, TiledTypes
<1>5. copied[p] < Tiles(p)
  <2>1. Tiles(p) \in Nat
    BY <1>1, TileShape DEF TypeInv, KernelTypes, IInv
  <2>. QED BY <1>2, <1>4, <2>1 DEF TiledOK
<1>6. \A q : Queued(queue', <<"copies", q>>) => Queued(queue, <<"copies", q>>)
  BY <1>2
<1>7. ~Queued(queue', <<"copies", p>>)
  BY <1>2, <1>4 DEF TiledOK, Apart
<1>. QED BY <1>1, <1>2, <1>3, <1>5, <1>6, <1>7, CopyTypes

(* A tile is copied on the user's stream.                                    *)
LEMMA ApartTypes ==
  ASSUME IInv, TypeInv, NEW s \in Streams, CopyApart(s)
  PROVE  TypeInv'
<1>1. /\ queue[s] # <<>> /\ s \in DOMAIN queue /\ 1 \in DOMAIN queue[s] /\ queue[s][1] = Head(queue[s])
      /\ \E p \in 0..(i - 1) : p \in Parts /\ Head(queue[s]) = <<"copies", p>>
  BY TurnFacts DEF CopyApart, TypeInv, IInv
<1>2. PICK p \in 0..(i - 1) : p \in Parts /\ Head(queue[s]) = <<"copies", p>>
  BY <1>1
<1>3. CopyTile(p) /\ IF copied[p] + 1 < Tiles(p) THEN UNCHANGED queue ELSE Pop(s)
  <2>1. Part(s) = p
    BY <1>2 DEF Part
  <2>. QED BY <2>1 DEF CopyApart
<1>4. Queued(queue, <<"copies", p>>) /\ copied[p] < Tiles(p)
  <2>1. Queued(queue, <<"copies", p>>)
    BY <1>1, <1>2 DEF Queued
  <2>. QED BY <1>2, <2>1 DEF TypeInv, TiledTypes, TiledOK
<1>5. UNCHANGED <<dist, request, host, i, prepared, roots>>
  BY <1>3 DEF CopyTile, input
<1>6. CASE copied[p] + 1 < Tiles(p)
  <2>1. queue' = queue
    BY <1>3, <1>6
  <2>2. QueueTypes'
    BY <1>5, <2>1, QueuesSame DEF TypeInv
  <2>. QED BY <1>2, <1>3, <1>4, <1>6, <2>1, <2>2, CopyTypes
<1>7. CASE ~(copied[p] + 1 < Tiles(p))
  <2>1. Pop(s)
    BY <1>3, <1>7
  <2>2. QueueTypes'
    BY <1>1, <1>5, <2>1, QueuePop DEF TypeInv, IInv, QueueTypes
  <2>3. queue \in [Streams -> Seq(Work(i))] /\ Once(queue) /\ Popped(queue, s, queue')
    BY <1>1, <2>1 DEF QueueTypes, Pop, Popped, TypeInv
  <2>4. <<"copies", p>> \in Parted
    BY DEF Parted
  <2>5. ~Queued(queue', <<"copies", p>>) /\ \A op : Queued(queue', op) => Queued(queue, op)
    <3>1. (\A op : Queued(queue', op) => Queued(queue, op)) /\ (Head(queue[s]) \in Parted => ~Queued(queue', Head(queue[s])))
      BY <2>3, PopOnce
    <3>. QED BY <1>2, <2>4, <3>1
  <2>. QED BY <1>2, <1>3, <1>4, <2>2, <2>5, CopyTypes
<1>. QED BY <1>6, <1>7

(* A part has been searched by tiles.                                        *)
LEMMA EndTiledTypes ==
  ASSUME IInv, TypeInv, NEW s \in Streams, EndTiled(s)
  PROVE  TypeInv'
<1>1. PICK p \in 0..(i - 1) : p \in Parts /\ Head(queue[s]) = <<"search", p>>
  BY TurnFacts DEF EndTiled, TypeInv, IInv
<1>2. /\ queue[s] # <<>> /\ Pop(s) /\ UNCHANGED <<input, kernels, request, host, i, prepared, tiled, res, roots>>
      /\ \/ UNCHANGED out
         \/ out' = [out EXCEPT ![p] = [y \in Rows |-> Selection(p, y)]]
         \/ out' = [out EXCEPT ![p] = [y \in Rows |-> Unwritten]]
  <2>1. Part(s) = p
    BY <1>1 DEF Part
  <2>. QED BY <2>1 DEF EndTiled, Turn
<1>3. out' \in [Parts -> [Rows -> Lists]]
  <2>. DEFINE v == [y \in Rows |-> Selection(p, y)]
              w == [y \in Rows |-> Unwritten]
  <2>1. v \in [Rows -> Lists]
    BY <1>1, SelectionList DEF TypeInv
  <2>2. w \in [Rows -> Lists]
    BY HostAssumption DEF Unwritten, Lists
  <2>3. out' = out \/ out' = [out EXCEPT ![p] = v] \/ out' = [out EXCEPT ![p] = w]
    BY <1>2
  <2>. HIDE DEF v, w
  <2>. QED BY <2>1, <2>2, <2>3 DEF TypeInv, KernelTypes
<1>4. KernelTypes'
  BY <1>2, <1>3, KernelsSame DEF TypeInv
<1>5. QueueTypes'
  BY <1>2, QueuePop DEF TypeInv, IInv, QueueTypes, input
<1>6. TiledTypes'
  BY <1>2, TiledPop DEF TypeInv, IInv
<1>. QED BY <1>4, <1>5, <1>6 DEF TypeInv

(* Every step keeps the types.                                               *)
LEMMA NextTypes == IInv /\ TypeInv /\ [Next]_vars => TypeInv'
<1>. SUFFICES ASSUME IInv, TypeInv, [Next]_vars
              PROVE  TypeInv'
  OBVIOUS
<1>0. /\ dist \in Inputs /\ 0 \in Streams /\ prepared \in BOOLEAN
      /\ QueueTypes /\ KernelTypes /\ TiledTypes
  BY HostAssumption DEF IInv, Streams, TypeInv, QueueTypes
<1>1. ASSUME UNCHANGED <<input, out, kernels>>
      PROVE  KernelTypes'
  <2>1. out' \in [Parts -> [Rows -> Lists]]
    BY <1>0, <1>1 DEF KernelTypes
  <2>. QED BY <1>0, <1>1, <2>1, KernelsSame
<1>a. ASSUME UNCHANGED <<input, request, i, queue, tiled>>
      PROVE  TiledTypes'
  BY <1>0, <1>a, TiledStays
<1>2. CASE Host
  <2>1. CASE Prepare
    <3>1. \A p : ~Queued(queue', <<"copies", p>>)
      <4>1. \A s \in DOMAIN queue' : \A a \in DOMAIN queue'[s] : queue'[s][a] \in {<<"transpose">>, <<"wait">>}
        BY <2>1 DEF Prepare
      <4>. QED BY <4>1 DEF Queued
    <3>2. UNCHANGED <<input, request, i, tiled>>
      BY <2>1 DEF Prepare
    <3>3. TiledTypes'
      BY <1>0, <3>1, <3>2, TiledStays
    <3>. QED BY <1>0, <1>1, <2>1, <3>3, QueuePrepare DEF Prepare, TypeInv
  <2>2. CASE SearchPart
    <3>1. /\ i' = i + 1 /\ UNCHANGED <<input, request, tiled>>
          /\ \A p : Queued(queue', <<"copies", p>>) => Queued(queue, <<"copies", p>>) \/ (p = i /\ Apart(p))
      <4>1. \A op : Queued(queue', op) <=>
              \/ Queued(queue, op) \/ op = <<"search", i>>
              \/ metric = "fused_sqrt" /\ op = <<"root", i>>
              \/ Apart(i) /\ op = <<"copies", i>>
        BY <1>0, <2>2, SearchPartQueue
      <4>2. i' = i + 1 /\ UNCHANGED <<input, request, tiled>>
        BY <2>2 DEF SearchPart
      <4>3. ASSUME NEW p, Queued(queue', <<"copies", p>>)
            PROVE  Queued(queue, <<"copies", p>>) \/ (p = i /\ Apart(p))
        <5>1. /\ <<"copies", p>> # <<"search", i>> /\ <<"copies", p>> # <<"root", i>>
              /\ <<"copies", p>> = <<"copies", i>> => p = i
          OBVIOUS
        <5>. QED BY <4>1, <4>3, <5>1
      <4>. QED BY <4>2, <4>3
    <3>2. TiledTypes'
      BY <1>0, <3>1, TiledStays
    <3>. QED BY <1>0, <1>1, <2>2, <3>2, QueueSearchPart DEF SearchPart, TypeInv
  <2>3. CASE SyncStreamPool
    <3>1. /\ UNCHANGED <<input, request, i, tiled>>
          /\ \A p : Queued(queue', <<"copies", p>>) => Queued(queue, <<"copies", p>>)
      <4>. DEFINE x == <<"merge">>
                  W == Work(i)
      <4>1. x \in W /\ x \notin Parted
        BY DEF Work, Parted
      <4>2. queue \in [Streams -> Seq(W)] /\ Once(queue) /\ (queue' = queue \/ Added(queue, 0, x, queue'))
        BY <1>0, <2>3 DEF QueueTypes, Added, SyncStreamPool
      <4>3. \A p : x # <<"copies", p>>
        OBVIOUS
      <4>. HIDE DEF x, W
      <4>4. \A o : Queued(queue', o) => Queued(queue, o) \/ o = x
        BY <1>0, <4>1, <4>2, AddOnce
      <4>. QED BY <2>3, <4>3, <4>4 DEF SyncStreamPool
    <3>2. TiledTypes'
      BY <1>0, <3>1, TiledStays
    <3>. QED BY <1>0, <1>1, <2>3, <3>2, QueueSync DEF SyncStreamPool, TypeInv
  <2>. QED BY <1>2, <2>1, <2>2, <2>3 DEF Host
<1>3. CASE Transpose
  <2>1. /\ queue[0] # <<>> /\ Pop(0) /\ UNCHANGED <<input, dist, request, host, i, tiled>>
        /\ prepared' = TRUE /\ roots' = roots
    BY <1>3 DEF Transpose, Turn, input
  <2>2. QueueTypes' /\ TiledTypes'
    BY <1>0, <2>1, QueuePop, TiledPop
  <2>. QED BY <1>1, <1>3, <2>2 DEF Transpose, TypeInv
<1>4. CASE MergeParts
  <2>1. /\ queue[0] # <<>> /\ Pop(0) /\ UNCHANGED <<input, dist, request, host, i, tiled>>
        /\ prepared' = prepared /\ roots' \in {0, roots}
    BY <1>4 DEF MergeParts, Turn, input
  <2>2. QueueTypes' /\ TiledTypes'
    BY <1>0, <2>1, QueuePop, TiledPop
  <2>. QED BY <1>1, <1>4, <2>2 DEF MergeParts, TypeInv
<1>5. ASSUME NEW s \in Streams, Stream(s)
      PROVE  TypeInv'
  <2>1. CASE Wait(s)
    <3>1. queue[s] # <<>> /\ Pop(s) /\ UNCHANGED <<input, dist, request, host, i, prepared, tiled, roots>>
      BY <2>1 DEF Wait, Turn, input
    <3>2. QueueTypes' /\ TiledTypes'
      BY <1>0, <3>1, QueuePop, TiledPop
    <3>. QED BY <1>1, <2>1, <3>2 DEF Wait, TypeInv
  <2>2. CASE StartFused(s)
    <3>1. PICK p \in 0..(i - 1) : p \in Parts /\ Head(queue[s]) = <<"search", p>>
      BY <1>0, <2>2, TurnFacts DEF StartFused
    <3>2. p \notin ToSet(running) /\ LaunchKernel(p) /\ UNCHANGED hostvars
      BY <2>2, <3>1 DEF StartFused, Part
    <3>3. KernelTypes' /\ dist' = dist /\ UNCHANGED input
      BY <1>0, <3>1, <3>2, KernelLaunch DEF LaunchKernel, input
    <3>. QED BY <1>0, <1>a, <3>2, <3>3, QueuesSame DEF hostvars, TypeInv
  <2>3. CASE EndFused(s)
    <3>1. /\ queue[s] # <<>> /\ Pop(s) /\ UNCHANGED <<request, host, i, prepared, tiled, roots>>
          /\ \E p : EndKernel(p)
      BY <2>3 DEF EndFused, Turn
    <3>2. KernelTypes' /\ dist' = dist /\ UNCHANGED input
      BY <1>0, <3>1, KernelEnd DEF EndKernel, input
    <3>3. QueueTypes' /\ TiledTypes'
      BY <1>0, <3>1, <3>2, QueuePop, TiledPop
    <3>. QED BY <3>2, <3>3 DEF TypeInv
  <2>5. CASE Root(s)
    <3>1. /\ queue[s] # <<>> /\ Pop(s) /\ UNCHANGED <<input, dist, request, host, i, prepared, tiled>>
          /\ roots' = roots + 1 /\ Head(queue[s])[1] = "root"
      BY <2>5 DEF Root, Turn, input
    <3>2. QueueTypes' /\ TiledTypes'
      BY <1>0, <3>1, QueuePop, TiledPop
    <3>. QED BY <1>1, <2>5, <3>2 DEF Root, TypeInv
  <2>. QED BY <1>5, <2>1, <2>2, <2>3, <2>5, SelectTypes, InOrderTypes, ApartTypes, EndTiledTypes DEF Stream
<1>6. ASSUME NEW p \in ToSet(running), NEW c \in DOMAIN cta[p], Cta(p, c), UNCHANGED hostvars
      PROVE  TypeInv'
  <2>1. p \in Parts
    BY <1>0 DEF KernelTypes, ToSet
  <2>2. dist' = dist /\ UNCHANGED input
    BY <1>0, <1>6, <2>1, CtaOutput DEF input
  <2>3. KernelTypes'
    BY <1>0, <1>6, KernelStep
  <2>. QED BY <1>0, <1>a, <1>6, <2>2, <2>3, QueuesSame DEF hostvars, TypeInv
<1>7. CASE UNCHANGED vars
  BY <1>0, <1>1, <1>a, <1>7, QueuesSame DEF vars, hostvars, input, TypeInv
<1>. QED BY <1>2, <1>3, <1>4, <1>5, <1>6, <1>7 DEF Next, Device

(* The types are invariant.                                                  *)
LEMMA TypeInvariance == Spec => []TypeInv
BY Invariance, InitTypes, NextTypes, PTL DEF Spec

(* The device never holds more CTAs than fit, every place that a CTA reaches *)
(* is one of the code's, and the row of tiles it is at is one of the input:  *)
(* whatever is stored in the output, a list or the memory of a CTA is a list *)
(* of k pairs.                                                               *)
THEOREM TypeCorrect == Spec => []TypeOK
<1>1. IInv /\ TypeInv => TypeOK
  <2>. SUFFICES ASSUME IInv, TypeInv PROVE TypeOK
    OBVIOUS
  <2>1. roots \in 0..Len(dist)
    <3>1. i \in 0..Len(dist) /\ Len(dist) \in Nat /\ roots \in Nat /\ roots <= Cardinality(Rootless(queue, i))
      BY GridRows DEF TypeInv, QueueTypes, IInv
    <3>2. Cardinality(Rootless(queue, i)) <= i
      <4>1. i \in Nat /\ Rootless(queue, i) \in SUBSET (0..(i - 1))
        BY <3>1 DEF Rootless
      <4>2. IsFiniteSet(0..(i - 1)) /\ Cardinality(0..(i - 1)) = i
        BY <4>1, Interval
      <4>. QED BY <4>1, <4>2, FS_Subset
    <3>3. Cardinality(Rootless(queue, i)) \in Nat
      BY <3>1, RootlessFacts
    <3>. QED BY <3>1, <3>2, <3>3
  <2>2. ToSet(running) \subseteq Parts
    BY DEF TypeInv, KernelTypes, ToSet
  <2>3. ASSUME NEW p \in Parts, NEW c \in DOMAIN cta[p]
        PROVE  LET r == cta[p][c] IN
                 /\ r.pc \in Places
                 /\ r.x = c[1] /\ r.row \in Rows /\ r.tile \in Nat
                 /\ r.processed \in 0..(GridX(p) - 1)
                 /\ r.list \in Lists /\ r.heap \in Lists
    <3>1. cta[p][c] \in CtaType(p)
      BY DEF TypeInv, KernelTypes, CtasOK
    <3>2. cta[p][c].x = c[1]
      BY DEF IInv, PartOK, CtaOK
    <3>. QED BY <3>1, <3>2 DEF CtaType
  <2>4. ASSUME NEW p \in Parts
        PROVE  /\ selected[p] \in 0..Tiles(p) /\ copied[p] \in 0..Tiles(p)
               /\ temp[p] \in [0..(Tiles(p) - 1) -> [Rows -> Lists]]
    BY DEF TypeInv, TiledTypes, TiledOK
  <2>. QED BY <2>1, <2>2, <2>3, <2>4 DEF TypeOK, TypeInv, QueueTypes, KernelTypes
<1>. QED BY <1>1, Invariance, TypeInvariance, PTL

-----------------------------------------------------------------------------
(* The lists of a row of tiles on their way. N has the neighbors that are in *)
(* the columns of a set of CTAs, r is the CTA that collects, m the mutex and *)
(* o the output of the row, and G the CTAs that gave their lists. Of those,  *)
(* the lists of T are in the heap of the collecting CTA, that of U is in its *)
(* hands and that of V lies in the output.                                   *)
Past(r, y) == r.row > y \/ (r.row = y /\ r.pc = "end")
Collects(r, y) == r.row = y /\ r.pc \in {"take", "copy", "free", "merge"}
InHeap(n, N, y, r, T) ==
  IF Collects(r, y) THEN Ranked(n, r.heap, N[T \cup {0}]) /\ Cardinality(T) = r.processed ELSE T = {}
InHand(n, g, N, y, r, o, U) ==
  IF Collects(r, y) /\ r.pc # "take"
  THEN \E u \in 1..(g - 1) : U = {u} /\ Ranked(n, IF r.pc = "copy" THEN o ELSE r.list, N[{u}])
  ELSE U = {}
InOutput(n, g, N, m, o, V) ==
  IF m = -2 THEN \E v \in 1..(g - 1) : V = {v} /\ Ranked(n, o, N[{v}]) ELSE V = {}
OnTheWay(n, g, N, y, r, m, o, G, T, U, V) ==
  /\ T \in SUBSET (1..(g - 1)) /\ U \in SUBSET (1..(g - 1)) /\ V \in SUBSET (1..(g - 1))
  /\ InHeap(n, N, y, r, T) /\ InHand(n, g, N, y, r, o, U) /\ InOutput(n, g, N, m, o, V)
  /\ G = T \cup U \cup V
  /\ T \cap U = {} /\ T \cap V = {} /\ U \cap V = {}
RowOK(n, g, N, y, r, m, o, G) ==
  IF Past(r, y) THEN G = 1..(g - 1) /\ Ranked(n, o, N[0..(g - 1)])
  ELSE \E T, U, V \in SUBSET (1..(g - 1)) : OnTheWay(n, g, N, y, r, m, o, G, T, U, V)

IsShares(N, g) ==
  /\ \A X \in SUBSET (0..(g - 1)) :
       N[X] \in SUBSET (Int \X Int) /\ IsFiniteSet(N[X]) /\ \A e \in N[X] : Near(e)
  /\ \A X, Y \in SUBSET (0..(g - 1)) :
       N[X \cup Y] = N[X] \cup N[Y] /\ (X \cap Y = {} => N[X] \cap N[Y] = {})

(* A step that the row's lists do not see.                                   *)
LEMMA RowSame ==
  ASSUME NEW n, NEW g, NEW N, NEW y, NEW r, NEW m, NEW o, NEW G, RowOK(n, g, N, y, r, m, o, G),
         NEW q, Past(q, y) <=> Past(r, y), ~Collects(r, y), ~Collects(q, y)
  PROVE  RowOK(n, g, N, y, q, m, o, G)
<1>1. CASE Past(r, y)
  BY <1>1 DEF RowOK
<1>2. CASE ~Past(r, y)
  <2>1. PICK T, U, V \in SUBSET (1..(g - 1)) : OnTheWay(n, g, N, y, r, m, o, G, T, U, V)
    BY <1>2 DEF RowOK
  <2>2. OnTheWay(n, g, N, y, q, m, o, G, T, U, V)
    BY <2>1 DEF OnTheWay, InHeap, InHand
  <2>. QED BY <1>2, <2>2 DEF RowOK
<1>. QED BY <1>1, <1>2

(* A producer has the mutex.                                                 *)
LEMMA RowProduce ==
  ASSUME NEW n, NEW g, NEW N, NEW y, NEW r, NEW m, NEW o, NEW G, RowOK(n, g, N, y, r, m, o, G),
         ~Past(r, y), NEW p, NEW s, m # -2, p # -2, r.row = y /\ r.pc = "copy" => s = o
  PROVE  RowOK(n, g, N, y, r, p, s, G)
<1>1. PICK T, U, V \in SUBSET (1..(g - 1)) : OnTheWay(n, g, N, y, r, m, o, G, T, U, V)
  BY DEF RowOK
<1>2. InHand(n, g, N, y, r, s, U)
  BY <1>1 DEF OnTheWay, InHand, Collects
<1>3. InOutput(n, g, N, p, s, V)
  BY <1>1 DEF OnTheWay, InOutput
<1>4. OnTheWay(n, g, N, y, r, p, s, G, T, U, V)
  BY <1>1, <1>2, <1>3 DEF OnTheWay
<1>. QED BY <1>4 DEF RowOK

(* It gives its list.                                                        *)
LEMMA RowGive ==
  ASSUME NEW n, NEW g, NEW N, NEW y, NEW r, NEW m, NEW o, NEW G, RowOK(n, g, N, y, r, m, o, G),
         ~Past(r, y), m # -2, NEW x \in 1..(g - 1), x \notin G, Ranked(n, o, N[{x}])
  PROVE  RowOK(n, g, N, y, r, -2, o, G \cup {x})
<1>1. PICK T, U, V \in SUBSET (1..(g - 1)) : OnTheWay(n, g, N, y, r, m, o, G, T, U, V)
  BY DEF RowOK
<1>2. V = {} /\ G = T \cup U /\ T \cap U = {}
  BY <1>1 DEF OnTheWay, InOutput
<1>3. InOutput(n, g, N, -2, o, {x})
  BY DEF InOutput
<1>4. T \cap {x} = {} /\ U \cap {x} = {}
  BY <1>2
<1>5. OnTheWay(n, g, N, y, r, -2, o, G \cup {x}, T, U, {x})
  BY <1>1, <1>2, <1>3, <1>4 DEF OnTheWay
<1>. QED BY <1>5 DEF RowOK

(* The first CTA begins to collect.                                          *)
LEMMA RowStart ==
  ASSUME NEW n, NEW g, NEW N, NEW y, NEW r, NEW m, NEW o, NEW G, RowOK(n, g, N, y, r, m, o, G),
         ~Past(r, y), ~Collects(r, y), NEW q, ~Past(q, y), q.row = y, q.pc = "take", q.processed = 0,
         Ranked(n, q.heap, N[{0}])
  PROVE  RowOK(n, g, N, y, q, m, o, G)
<1>1. PICK T, U, V \in SUBSET (1..(g - 1)) : OnTheWay(n, g, N, y, r, m, o, G, T, U, V)
  BY DEF RowOK
<1>2. T = {} /\ U = {}
  BY <1>1 DEF OnTheWay, InHeap, InHand
<1>3. InHeap(n, N, y, q, T)
  <2>1. T \cup {0} = {0} /\ Cardinality(T) = 0
    BY <1>2, FS_EmptySet
  <2>. QED BY <2>1 DEF InHeap
<1>4. InHand(n, g, N, y, q, o, U)
  BY <1>2 DEF InHand
<1>5. OnTheWay(n, g, N, y, q, m, o, G, T, U, V)
  BY <1>1, <1>3, <1>4 DEF OnTheWay
<1>. QED BY <1>5 DEF RowOK

(* It takes what lies in the output, copies it and frees the output.         *)
LEMMA RowTake ==
  ASSUME NEW n, NEW g, NEW N, NEW y, NEW r, NEW o, NEW G, RowOK(n, g, N, y, r, -2, o, G),
         r.row = y, y \in Int, r.pc = "take", NEW q, q.row = y, q.pc = "copy", q.heap = r.heap,
         q.processed = r.processed
  PROVE  RowOK(n, g, N, y, q, -1, o, G)
<1>0. ~Past(r, y) /\ ~Past(q, y) /\ Collects(r, y) /\ Collects(q, y)
  BY DEF Past, Collects
<1>1. PICK T, U, V \in SUBSET (1..(g - 1)) : OnTheWay(n, g, N, y, r, -2, o, G, T, U, V)
  BY <1>0 DEF RowOK
<1>2. U = {} /\ InHeap(n, N, y, q, T)
  BY <1>0, <1>1 DEF OnTheWay, InHand, InHeap
<1>3. InHand(n, g, N, y, q, o, V)
  BY <1>0, <1>1 DEF OnTheWay, InOutput, InHand
<1>4. InOutput(n, g, N, -1, o, {})
  BY DEF InOutput
<1>5. G = T \cup V \cup {} /\ T \cap V = {}
  BY <1>1, <1>2 DEF OnTheWay
<1>6. OnTheWay(n, g, N, y, q, -1, o, G, T, V, {})
  BY <1>1, <1>2, <1>3, <1>4, <1>5 DEF OnTheWay
<1>. QED BY <1>0, <1>6 DEF RowOK

LEMMA RowHold ==
  ASSUME NEW n, NEW g, NEW N, NEW y, NEW r, NEW m, NEW o, NEW G, RowOK(n, g, N, y, r, m, o, G),
         r.row = y, y \in Int, r.pc \in {"copy", "free"}, m # -2,
         NEW q, q.row = y, q.pc \in {"free", "merge"}, q.heap = r.heap,
         q.processed = r.processed, q.list = IF r.pc = "copy" THEN o ELSE r.list, NEW p, p # -2
  PROVE  RowOK(n, g, N, y, q, p, o, G)
<1>0. ~Past(r, y) /\ ~Past(q, y) /\ Collects(r, y) /\ Collects(q, y)
  BY DEF Past, Collects
<1>1. PICK T, U, V \in SUBSET (1..(g - 1)) : OnTheWay(n, g, N, y, r, m, o, G, T, U, V)
  BY <1>0 DEF RowOK
<1>2. InHeap(n, N, y, q, T) /\ InOutput(n, g, N, p, o, V)
  BY <1>0, <1>1 DEF OnTheWay, InHeap, InOutput
<1>3. InHand(n, g, N, y, q, o, U)
  BY <1>0, <1>1 DEF OnTheWay, InHand
<1>4. OnTheWay(n, g, N, y, q, p, o, G, T, U, V)
  BY <1>1, <1>2, <1>3 DEF OnTheWay
<1>. QED BY <1>0, <1>4 DEF RowOK

(* It merges the list into its heap.                                         *)
LEMMA RowMerge ==
  ASSUME k \in Nat \ {0}, NEW g \in Nat \ {0}, NEW N, IsShares(N, g),
         NEW y, NEW r, NEW m, NEW o, NEW G, RowOK(k, g, N, y, r, m, o, G),
         r.row = y, y \in Int, r.pc = "merge",
         NEW q, q.row = y, q.pc = "take", q.heap = Nearest(Joined(r.heap, r.list)),
         q.processed = r.processed + 1
  PROVE  RowOK(k, g, N, y, q, m, o, G)
<1>0. ~Past(r, y) /\ ~Past(q, y) /\ Collects(r, y) /\ Collects(q, y)
  BY DEF Past, Collects
<1>1. PICK T, U, V \in SUBSET (1..(g - 1)) : OnTheWay(k, g, N, y, r, m, o, G, T, U, V)
  BY <1>0 DEF RowOK
<1>2. PICK u \in 1..(g - 1) : U = {u} /\ Ranked(k, r.list, N[{u}])
  BY <1>0, <1>1 DEF OnTheWay, InHand
<1>3. Ranked(k, r.heap, N[T \cup {0}]) /\ Cardinality(T) = r.processed
  BY <1>0, <1>1 DEF OnTheWay, InHeap
<1>. DEFINE X == T \cup {0}
            Y == {u}
<1>4. X \in SUBSET (0..(g - 1)) /\ Y \in SUBSET (0..(g - 1)) /\ X \cap Y = {} /\ T \cap {u} = {}
  BY <1>1, <1>2 DEF OnTheWay
<1>. HIDE DEF X, Y
<1>5. /\ N[X] \in SUBSET (Int \X Int) /\ IsFiniteSet(N[X]) /\ \A e \in N[X] : Near(e)
      /\ N[Y] \in SUBSET (Int \X Int) /\ IsFiniteSet(N[Y]) /\ \A e \in N[Y] : Near(e)
      /\ N[X \cup Y] = N[X] \cup N[Y] /\ N[X] \cap N[Y] = {}
  BY <1>4 DEF IsShares
<1>6. Ranked(k, q.heap, N[X \cup Y])
  <2>1. Ranked(k, r.heap, N[X]) /\ Ranked(k, r.list, N[Y])
    BY <1>2, <1>3 DEF X, Y
  <2>2. \A e \in N[X] \cup N[Y] : Near(e)
    BY <1>5
  <2>. QED BY <1>5, <2>1, <2>2, NearestOfTwo
<1>7. InHeap(k, N, y, q, T \cup {u})
  <2>1. X \cup Y = (T \cup {u}) \cup {0}
    BY DEF X, Y
  <2>2. Cardinality(T \cup {u}) = r.processed + 1
    <3>1. T \in SUBSET (0..(g - 1)) /\ u \notin T
      BY <1>1, <1>4
    <3>2. IsFiniteSet(0..(g - 1))
      BY Interval
    <3>3. IsFiniteSet(T)
      BY <3>1, <3>2, FS_Subset
    <3>4. Cardinality(T \cup {u}) = Cardinality(T) + 1
      BY <3>1, <3>3, FS_AddElement
    <3>. QED BY <1>3, <3>4
  <2>. QED BY <1>0, <1>6, <2>1, <2>2 DEF InHeap
<1>8. InHand(k, g, N, y, q, o, {})
  BY DEF InHand
<1>9. OnTheWay(k, g, N, y, q, m, o, G, T \cup {u}, {}, V)
  BY <1>1, <1>2, <1>7, <1>8 DEF OnTheWay
<1>. QED BY <1>0, <1>9 DEF RowOK

(* It stores its heap when it has merged the lists of all others.            *)
LEMMA RowStore ==
  ASSUME NEW n, NEW g \in Nat \ {0}, NEW N, NEW y, NEW r, NEW m, NEW o, NEW G, RowOK(n, g, N, y, r, m, o, G),
         r.row = y, y \in Int, r.pc = "take", r.processed = g - 1,
         NEW q, Past(q, y)
  PROVE  RowOK(n, g, N, y, q, m, r.heap, G) /\ G = 1..(g - 1)
<1>0. ~Past(r, y) /\ Collects(r, y)
  BY DEF Past, Collects
<1>1. PICK T, U, V \in SUBSET (1..(g - 1)) : OnTheWay(n, g, N, y, r, m, o, G, T, U, V)
  BY <1>0 DEF RowOK
<1>2. Ranked(n, r.heap, N[T \cup {0}]) /\ Cardinality(T) = g - 1
  BY <1>0, <1>1 DEF OnTheWay, InHeap
<1>3. T = 1..(g - 1)
  <2>1. 0..(g - 1) = 1..(g - 1) \cup {0} /\ 0 \notin 1..(g - 1)
    OBVIOUS
  <2>2. IsFiniteSet(0..(g - 1)) /\ Cardinality(0..(g - 1)) = g
    BY Interval
  <2>3. 1..(g - 1) \in SUBSET (0..(g - 1))
    OBVIOUS
  <2>4. IsFiniteSet(1..(g - 1)) /\ Cardinality(1..(g - 1)) \in Nat
    BY <2>2, <2>3, FS_Subset, FS_CardinalityType
  <2>5. Cardinality(1..(g - 1)) = g - 1
    <3>. DEFINE A == 1..(g - 1)
    <3>0. IsFiniteSet(A) /\ 0 \notin A
      BY <2>4
    <3>. HIDE DEF A
    <3>1. Cardinality(A \cup {0}) = Cardinality(A) + 1
      BY <3>0, FS_AddElement
    <3>2. Cardinality(A \cup {0}) = g
      BY <2>1, <2>2 DEF A
    <3>. QED BY <2>4, <3>1, <3>2 DEF A
  <2>. QED BY <1>2, <2>4, <2>5, FS_Subset
<1>4. G = 1..(g - 1)
  BY <1>1, <1>3 DEF OnTheWay
<1>5. T \cup {0} = 0..(g - 1)
  BY <1>3
<1>. QED BY <1>2, <1>4, <1>5 DEF RowOK

(* A CTA that is alone stores its list.                                      *)
LEMMA RowAlone ==
  ASSUME NEW n, NEW N, NEW y, NEW r, NEW m, NEW o, NEW G, RowOK(n, 1, N, y, r, m, o, G),
         NEW q, Past(q, y), NEW s, Ranked(n, s, N[{0}])
  PROVE  RowOK(n, 1, N, y, q, m, s, G)
<1>1. G \subseteq 1..(1 - 1)
  BY DEF RowOK, OnTheWay
<1>2. G = 1..(1 - 1) /\ 0..(1 - 1) = {0}
  BY <1>1
<1>. QED BY <1>2 DEF RowOK

-----------------------------------------------------------------------------
(* The columns of the CTAs.                                                  *)
Shares(p, y) == [X \in SUBSET (0..(GridX(p) - 1)) |-> Cand(dist, p, y, Share(Size(p), GridX(p), X))]

(* Numbers closer than g that leave the same remainder are the same.         *)
LEMMA ModGap ==
  ASSUME NEW g \in Nat \ {0}, NEW a \in Nat, NEW b \in Nat, a % g = b % g, a < b
  PROVE  b - a >= g
<1>1. a = g * (a \div g) + (a % g) /\ b = g * (b \div g) + (b % g)
      /\ a \div g \in Int /\ b \div g \in Int /\ a % g \in Int
  OBVIOUS
<1>. DEFINE u == a \div g
            v == b \div g
            w == a % g
<1>2. u \in Int /\ v \in Int /\ w \in Int /\ a = g * u + w /\ b = g * v + w
  BY <1>1
<1>. HIDE DEF u, v, w
<1>3. g * u < g * v
  BY <1>2
<1>4. u < v
  <2>1. SUFFICES ASSUME v <= u PROVE FALSE
    BY <1>2
  <2>2. g * v <= g * u
    BY <1>2, <2>1
  <2>. QED BY <1>2, <1>3, <2>2
<1>5. g * (u + 1) <= g * v
  BY <1>2, <1>4
<1>6. g * (u + 1) = g * u + g
  BY <1>2
<1>. QED BY <1>2, <1>5, <1>6

(* Adding g does not change the remainder.                                   *)
LEMMA ModAdd ==
  ASSUME NEW g \in Nat \ {0}, NEW a \in Nat
  PROVE  (a + g) % g = a % g /\ a % g \in 0..(g - 1) /\ (a < g => a % g = a)
<1>1. a = g * (a \div g) + (a % g) /\ a \div g \in Int /\ a % g \in 0..(g - 1)
  OBVIOUS
<1>2. a + g = g * ((a + g) \div g) + ((a + g) % g) /\ (a + g) \div g \in Int /\ (a + g) % g \in 0..(g - 1)
  OBVIOUS
<1>. DEFINE u == a \div g
            v == (a + g) \div g
            w == a % g
            z == (a + g) % g
<1>3. /\ u \in Int /\ v \in Int /\ w \in 0..(g - 1) /\ z \in 0..(g - 1)
      /\ a = g * u + w /\ a + g = g * v + z
  BY <1>1, <1>2
<1>. HIDE DEF u, v, w, z
<1>4. g * (v - u - 1) = w - z
  BY <1>3
<1>5. v - u - 1 = 0
  <2>1. v - u - 1 >= 1 => g * (v - u - 1) >= g
    BY <1>3
  <2>2. v - u - 1 <= -1 => g * (v - u - 1) <= -g
    BY <1>3
  <2>. QED BY <1>3, <1>4, <2>1, <2>2
<1>6. w = z
  BY <1>3, <1>4, <1>5
<1>7. a < g => w = a
  <2>1. u >= 1 => g * u >= g
    BY <1>3
  <2>2. u <= -1 => g * u <= -g
    BY <1>3
  <2>3. u = 0 => g * u = 0
    BY <1>3
  <2>. QED BY <1>3, <2>1, <2>2, <2>3
<1>. QED BY <1>3, <1>6, <1>7 DEF w, z

(* The tile of a column.                                                     *)
LEMMA DivFacts ==
  ASSUME NEW b \in Nat \ {0}, NEW c \in Nat, NEW d \in Nat
  PROVE  /\ c \div b \in Nat
         /\ c \div b < d \div b => c < d
         /\ c < d * b <=> c \div b < d
<1>. DEFINE u == c \div b
            v == d \div b
<1>1. u \in Int /\ b * u <= c /\ c < b * u + b
  OBVIOUS
<1>2. v \in Int /\ b * v <= d /\ d < b * v + b
  OBVIOUS
<1>. HIDE DEF u, v
<1>3. u \in Nat
  <2>1. u <= -1 => b * u <= -b
    BY <1>1
  <2>. QED BY <1>1, <2>1
<1>4. u < v => c < d
  <2>1. u < v => b * (u + 1) <= b * v
    BY <1>1, <1>2
  <2>2. b * (u + 1) = b * u + b
    BY <1>1
  <2>. QED BY <1>1, <1>2, <2>1, <2>2
<1>5. c < d * b <=> u < d
  <2>1. u < d => b * (u + 1) <= b * d
    BY <1>1
  <2>2. b * (u + 1) = b * u + b /\ b * d = d * b
    BY <1>1
  <2>3. u >= d => b * u >= b * d
    BY <1>1
  <2>. QED BY <1>1, <2>1, <2>2, <2>3
<1>. QED BY <1>3, <1>4, <1>5 DEF u, v

(* The neighbors in a set of columns: one for each.                          *)
LEMMA CandFacts ==
  ASSUME dist \in Inputs, NEW p \in Parts, NEW y \in Rows, NEW C \in SUBSET (0..(Size(p) - 1))
  PROVE  /\ Cand(dist, p, y, C) \in SUBSET (Int \X Int)
         /\ IsFiniteSet(Cand(dist, p, y, C)) /\ Cardinality(Cand(dist, p, y, C)) = Cardinality(C)
         /\ \A e \in Cand(dist, p, y, C) : Near(e) /\ e[2] \in C
<1>. DEFINE S == Cand(dist, p, y, C)
            f == [c \in C |-> <<dist[p + 1][y + 1][c + 1], c>>]
<1>1. Size(p) \in Nat /\ \A c \in C : c \in Int /\ f[c] \in Int \X Int /\ Near(f[c]) /\ f[c][2] = c
  <2>1. Size(p) \in Nat
    BY Shapes
  <2>2. ASSUME NEW c \in C
        PROVE  c \in Int /\ f[c] \in Int \X Int /\ Near(f[c]) /\ f[c][2] = c
    <3>1. c \in 0..(Size(p) - 1) /\ c \in Int
      BY <2>1
    <3>2. dist[p + 1][y + 1][c + 1] \in Nat /\ dist[p + 1][y + 1][c + 1] < Infinity
      BY <3>1, Shapes
    <3>3. f[c] = <<dist[p + 1][y + 1][c + 1], c>>
      OBVIOUS
    <3>. HIDE DEF f
    <3>. QED BY <3>1, <3>2, <3>3 DEF Near
  <2>. QED BY <2>1, <2>2
<1>2. \A e : e \in S <=> \E c \in C : e = f[c]
  BY DEF Cand
<1>3. IsFiniteSet(C)
  BY <1>1, Interval, FS_Subset
<1>4. DOMAIN f = C
  OBVIOUS
<1>. HIDE DEF S
<1>5. f \in [C -> S]
  BY <1>2
<1>6. f \in Surjection(C, S)
  BY <1>2, <1>5 DEF Surjection
<1>7. f \in Injection(C, S)
  BY <1>1, <1>5 DEF Injection, IsInjective
<1>. HIDE DEF f
<1>8. IsFiniteSet(S) /\ Cardinality(S) = Cardinality(C)
  BY <1>3, <1>6, <1>7, FS_Surjection
<1>9. S \in SUBSET (Int \X Int) /\ \A e \in S : Near(e) /\ e[2] \in C
  BY <1>1, <1>2
<1>. QED BY <1>8, <1>9 DEF S

(* The neighbors in two sets of columns.                                     *)
LEMMA CandUnion ==
  ASSUME NEW d, NEW p, NEW y, NEW C, NEW D
  PROVE  /\ Cand(d, p, y, C \cup D) = Cand(d, p, y, C) \cup Cand(d, p, y, D)
         /\ C \cap D = {} => Cand(d, p, y, C) \cap Cand(d, p, y, D) = {}
BY DEF Cand

(* The columns of a tile.                                                    *)
LEMMA TileFacts ==
  ASSUME NEW c \in Nat, NEW d \in Nat
  PROVE  /\ TileAt(c) \in Nat
         /\ TileAt(c) < TileAt(d) => c < d
         /\ c < d * Nblk <=> TileAt(c) < d
BY DivFacts, KernelAssumption DEF TileAt

(* The shares of the CTAs of a row of tiles are disjoint, and together all.  *)
LEMMA SharesFacts ==
  ASSUME dist \in Inputs, NEW p \in Parts, NEW y \in Rows
  PROVE  /\ IsShares(Shares(p, y), GridX(p))
         /\ Shares(p, y)[0..(GridX(p) - 1)] = Cand(dist, p, y, 0..(Size(p) - 1))
         /\ \A x \in 0..(GridX(p) - 1) : Shares(p, y)[{x}] = Cand(dist, p, y, Share(Size(p), GridX(p), {x}))
<1>. DEFINE n == Size(p)
            g == GridX(p)
<1>1. n \in Nat \ {0} /\ g \in Nat \ {0} /\ Nblk \in Nat \ {0}
  BY Shapes, KernelAssumption
<1>2. \A X : Share(n, g, X) \in SUBSET (0..(n - 1))
  BY DEF Share
<1>3. \A X \in SUBSET (0..(g - 1)) : Shares(p, y)[X] = Cand(dist, p, y, Share(n, g, X))
  BY DEF Shares
<1>4. ASSUME NEW X, NEW Y
      PROVE  /\ Share(n, g, X \cup Y) = Share(n, g, X) \cup Share(n, g, Y)
             /\ X \cap Y = {} => Share(n, g, X) \cap Share(n, g, Y) = {}
  BY DEF Share
<1>5. Share(n, g, 0..(g - 1)) = 0..(n - 1)
  <2>1. ASSUME NEW c \in 0..(n - 1)
        PROVE  Owner(g, c) \in 0..(g - 1)
    <3>1. TileAt(c) \in Nat
      BY <1>1, TileFacts
    <3>. QED BY <1>1, <3>1, ModAdd DEF Owner
  <2>. QED BY <2>1 DEF Share
<1>. HIDE DEF n, g
<1>6. ASSUME NEW X \in SUBSET (0..(g - 1))
      PROVE  /\ Shares(p, y)[X] \in SUBSET (Int \X Int) /\ IsFiniteSet(Shares(p, y)[X])
             /\ \A e \in Shares(p, y)[X] : Near(e)
  BY <1>2, <1>3, CandFacts DEF n
<1>7. ASSUME NEW X \in SUBSET (0..(g - 1)), NEW Y \in SUBSET (0..(g - 1))
      PROVE  /\ Shares(p, y)[X \cup Y] = Shares(p, y)[X] \cup Shares(p, y)[Y]
             /\ X \cap Y = {} => Shares(p, y)[X] \cap Shares(p, y)[Y] = {}
  <2>. DEFINE U == Share(n, g, X)
              V == Share(n, g, Y)
  <2>1. X \cup Y \in SUBSET (0..(g - 1))
    OBVIOUS
  <2>2. Shares(p, y)[X] = Cand(dist, p, y, U) /\ Shares(p, y)[Y] = Cand(dist, p, y, V)
    BY <1>3
  <2>3. Shares(p, y)[X \cup Y] = Cand(dist, p, y, U \cup V)
    BY <1>3, <1>4, <2>1
  <2>4. X \cap Y = {} => U \cap V = {}
    BY <1>4
  <2>. HIDE DEF U, V
  <2>. QED BY <2>2, <2>3, <2>4, CandUnion
<1>8. IsShares(Shares(p, y), g)
  BY <1>6, <1>7 DEF IsShares
<1>9. 0..(g - 1) \in SUBSET (0..(g - 1)) /\ \A x \in 0..(g - 1) : {x} \in SUBSET (0..(g - 1))
  OBVIOUS
<1>10. Shares(p, y)[0..(g - 1)] = Cand(dist, p, y, 0..(n - 1))
  BY <1>3, <1>5, <1>9
<1>11. \A x \in 0..(g - 1) : Shares(p, y)[{x}] = Cand(dist, p, y, Share(n, g, {x}))
  BY <1>3, <1>9
<1>. QED BY <1>8, <1>10, <1>11 DEF n, g

(* Before its first tile a CTA has nothing; after its last, its share.       *)
LEMMA ShareToFacts ==
  ASSUME NEW n \in Nat, NEW g \in Nat \ {0}, NEW x \in 0..(g - 1)
  PROVE  /\ ShareTo(n, g, x, x) = {}
         /\ \A t \in Nat : t * Nblk >= n => ShareTo(n, g, x, t) = Share(n, g, {x})
<1>1. ASSUME NEW c \in ShareTo(n, g, x, x)
      PROVE  FALSE
  <2>1. c \in Nat /\ Owner(g, c) = x /\ TileAt(c) < x
    BY DEF ShareTo, Share
  <2>2. TileAt(c) \in Nat
    BY <2>1, TileFacts
  <2>3. Owner(g, c) = TileAt(c)
    BY <2>1, <2>2, ModAdd DEF Owner
  <2>. QED BY <2>1, <2>2, <2>3
<1>2. ASSUME NEW t \in Nat, t * Nblk >= n, NEW c \in Share(n, g, {x})
      PROVE  TileAt(c) < t
  <2>1. c \in 0..(n - 1)
    BY DEF Share
  <2>2. c \in Nat /\ c < t * Nblk
    BY <1>2, <2>1, KernelAssumption
  <2>. QED BY <2>2, TileFacts
<1>. QED BY <1>1, <1>2 DEF ShareTo

(* The tiles of a CTA are GridX apart.                                       *)
LEMMA NextTile ==
  ASSUME NEW n \in Nat, NEW g \in Nat \ {0}, NEW t \in Nat, NEW x \in Nat, t % g = x
  PROVE  ShareTo(n, g, x, t + g) = ShareTo(n, g, x, t) \cup TileOf(n, t)
<1>1. \A c \in 0..(n - 1) : TileAt(c) \in Nat
  BY TileFacts
<1>2. ASSUME NEW c \in 0..(n - 1), Owner(g, c) = x, TileAt(c) < t + g
      PROVE  TileAt(c) <= t
  <2>. DEFINE q == TileAt(c)
  <2>1. SUFFICES ASSUME t < q PROVE FALSE
    BY <1>1
  <2>2. q \in Nat /\ q % g = x /\ q < t + g
    BY <1>1, <1>2 DEF Owner
  <2>. HIDE DEF q
  <2>3. q - t >= g
    BY <2>1, <2>2, ModGap
  <2>. QED BY <2>2, <2>3
<1>3. \A c \in 0..(n - 1) : TileAt(c) = t => Owner(g, c) = x
  BY DEF Owner
<1>4. \A c \in 0..(n - 1) : TileAt(c) <= t <=> TileAt(c) < t \/ TileAt(c) = t
  BY <1>1
<1>5. \A c \in 0..(n - 1) : TileAt(c) <= t => TileAt(c) < t + g
  BY <1>1
<1>. QED BY <1>2, <1>3, <1>4, <1>5 DEF ShareTo, Share, TileOf

(* A tile comes after the columns that its CTA has looked at.                *)
LEMMA LaterTile ==
  ASSUME NEW n \in Nat, NEW g, NEW t, NEW x,
         NEW b \in ShareTo(n, g, x, t), NEW c \in 0..(n - 1), TileAt(c) = t
  PROVE  b < c /\ b \in 0..(n - 1)
<1>1. b \in 0..(n - 1) /\ TileAt(b) < TileAt(c)
  BY DEF ShareTo, Share
<1>. QED BY <1>1, TileFacts

(* The neighbors of a tile that are not better than the last of the list are *)
(* not among the k nearest: they come after all k that it has.               *)
LEMMA TileMerge ==
  ASSUME IInv, KernelTypes, NEW p \in Parts, NEW c \in DOMAIN cta[p], NEW y \in Rows, NEW x \in Nat,
         cta[p][c].row = y, cta[p][c].tile % GridX(p) = x,
         Ranked(k, cta[p][c].list, Cand(dist, p, y, ShareTo(Size(p), GridX(p), x, cta[p][c].tile)))
  PROVE  LET r == cta[p][c]
             list == Nearest(Joined(r.list, [d \in Better(p, r) |-> Neighbor(p, r.row, d)]))
         IN  Ranked(k, list, Cand(dist, p, y, ShareTo(Size(p), GridX(p), x, r.tile + GridX(p))))
<1>. DEFINE r == cta[p][c]
            n == Size(p)
            g == GridX(p)
            t == r.tile
            A == ShareTo(n, g, x, t)
            T == TileOf(n, t)
            S == Cand(dist, p, y, A)
            N == Cand(dist, p, y, T)
            U == Cand(dist, p, y, A \cup T)
            a == r.list
            B == Better(p, r)
            b == [d \in B |-> Neighbor(p, r.row, d)]
            s == Joined(a, b)
<1>1. n \in Nat \ {0} /\ g \in Nat \ {0} /\ k \in Nat \ {0} /\ t \in Nat /\ dist \in Inputs
  BY Shapes, KernelAssumption DEF IInv, KernelTypes, CtasOK, CtaType
<1>2. IsFiniteSet(DOMAIN s) /\ \A j \in DOMAIN s : s[j] \in Int \X Int
  BY TileList
<1>3. a \in [Ranks -> Int \X Int] /\ Best(k, a, S) /\ Blank(k, a, S)
  BY DEF Ranked, Ranks
<1>4. B \in SUBSET T
  BY DEF Better, Columns, TileAt, TileOf
<1>5. A \cup T = ShareTo(n, g, x, t + g)
  <2>0. t % g = x
    OBVIOUS
  <2>. HIDE DEF n, g, t, A, T
  <2>1. ShareTo(n, g, x, t + g) = ShareTo(n, g, x, t) \cup TileOf(n, t)
    BY <1>1, <2>0, NextTile
  <2>. QED BY <2>1 DEF A, T
<1>6. A \in SUBSET (0..(n - 1)) /\ T \in SUBSET (0..(n - 1))
  BY DEF ShareTo, Share, TileOf
<1>7. \A d \in A, e \in T : d < e
  BY <1>1, LaterTile DEF TileOf
<1>8. A \cap T = {}
  <2>1. \A d \in T : d \in Int /\ ~(d < d)
    BY <1>1 DEF TileOf
  <2>. QED BY <1>7, <2>1
<1>9. \A d \in T : b = [e \in B |-> <<dist[p + 1][y + 1][e + 1], e>>]
                   /\ (d \in B <=> dist[p + 1][y + 1][d + 1] < a[k - 1][1])
  BY DEF Better, Columns, TileAt, TileOf, Neighbor, Distances, WarpKTop
<1>10. DOMAIN s = ({1} \X Ranks) \cup ({2} \X B)
  BY <1>3 DEF Joined
<1>11. (\A q \in Ranks : s[<<1, q>>] = a[q]) /\ (\A d \in B : s[<<2, d>>] = <<dist[p + 1][y + 1][d + 1], d>>)
  <2>1. \A q \in Ranks : <<1, q>> \in DOMAIN s
    BY <1>10
  <2>2. \A d \in B : <<2, d>> \in DOMAIN s
    BY <1>10
  <2>. QED BY <1>4, <1>9, <2>1, <2>2 DEF Joined
<1>12. /\ S \in SUBSET (Int \X Int) /\ IsFiniteSet(S) /\ \A e \in S : Near(e) /\ e[2] \in A
       /\ N \in SUBSET (Int \X Int) /\ IsFiniteSet(N) /\ \A e \in N : Near(e) /\ e[2] \in T
       /\ U \in SUBSET (Int \X Int) /\ IsFiniteSet(U) /\ \A e \in U : Near(e)
       /\ U = S \cup N /\ S \cap N = {}
  <2>. HIDE DEF A, T
  <2>1. A \cup T \in SUBSET (0..(Size(p) - 1))
    BY <1>6 DEF n
  <2>2. /\ S \in SUBSET (Int \X Int) /\ IsFiniteSet(S) /\ \A e \in S : Near(e) /\ e[2] \in A
    BY <1>1, <1>6, CandFacts DEF n
  <2>3. /\ N \in SUBSET (Int \X Int) /\ IsFiniteSet(N) /\ \A e \in N : Near(e) /\ e[2] \in T
    BY <1>1, <1>6, CandFacts DEF n
  <2>4. /\ U \in SUBSET (Int \X Int) /\ IsFiniteSet(U) /\ \A e \in U : Near(e)
    BY <1>1, <2>1, CandFacts
  <2>5. U = S \cup N /\ S \cap N = {}
    BY <1>8, CandUnion
  <2>. QED BY <2>2, <2>3, <2>4, <2>5
<1>13. \A d \in T : <<dist[p + 1][y + 1][d + 1], d>> \in N
  BY DEF Cand
<1>14. \A e \in N : \E d \in T : e = <<dist[p + 1][y + 1][d + 1], d>>
  BY DEF Cand
<1>. HIDE DEF r, n, g, t, A, T, S, N, U, a, B, b, s
<1>15. \A q \in Ranks : a[q] \in Int \X Int /\ a[q][1] \in Int
  BY <1>3
<1>16. /\ \A q \in Ranks : Near(a[q]) => q < Cardinality(S) /\ a[q] \in S
       /\ \A q, z \in Ranks : Near(a[q]) /\ Near(a[z]) /\ a[q] = a[z] => q = z
       /\ \A e \in S : Cardinality(Lower(S, e)) < k =>
            Cardinality(Lower(S, e)) \in Ranks /\ a[Cardinality(Lower(S, e))] = e
  BY <1>1, <1>3, <1>12, <1>15, RankedFacts
<1>17. ASSUME NEW j \in Found(s)
       PROVE  \/ \E q \in Ranks : j = <<1, q>> /\ s[j] = a[q] /\ Near(a[q]) /\ a[q] \in S
              \/ \E d \in B : j = <<2, d>> /\ s[j] = <<dist[p + 1][y + 1][d + 1], d>> /\ s[j] \in N
  <2>1. j \in DOMAIN s /\ Near(s[j])
    BY DEF Found
  <2>2. CASE j \in {1} \X Ranks
    <3>1. PICK q \in Ranks : j = <<1, q>>
      BY <2>2
    <3>2. s[j] = a[q]
      BY <1>11, <3>1
    <3>. QED BY <1>16, <2>1, <3>1, <3>2
  <2>3. CASE j \in {2} \X B
    <3>1. PICK d \in B : j = <<2, d>>
      BY <2>3
    <3>2. s[j] = <<dist[p + 1][y + 1][d + 1], d>>
      BY <1>11, <3>1
    <3>3. s[j] \in N
      BY <1>4, <1>13, <3>2
    <3>. QED BY <3>1, <3>2, <3>3
  <2>. QED BY <1>10, <2>1, <2>2, <2>3
<1>18. \A j \in Found(s) : s[j] \in U
  BY <1>12, <1>17
<1>19. ASSUME NEW h \in Found(s), NEW j \in Found(s), s[h] = s[j]
       PROVE  h = j
  <2>1. CASE s[h] \in S
    <3>1. PICK q \in Ranks : h = <<1, q>> /\ s[h] = a[q] /\ Near(a[q])
      BY <1>12, <1>17, <2>1
    <3>2. PICK z \in Ranks : j = <<1, z>> /\ s[j] = a[z] /\ Near(a[z])
      BY <1>12, <1>17, <1>19, <2>1
    <3>3. q = z
      BY <1>16, <1>19, <3>1, <3>2
    <3>. QED BY <3>1, <3>2, <3>3
  <2>2. CASE s[h] \notin S
    <3>1. PICK d \in B : h = <<2, d>> /\ s[h] = <<dist[p + 1][y + 1][d + 1], d>>
      BY <1>17, <2>2
    <3>2. PICK e \in B : j = <<2, e>> /\ s[j] = <<dist[p + 1][y + 1][e + 1], e>>
      BY <1>17, <1>19, <2>2
    <3>3. d = e
      BY <1>19, <3>1, <3>2
    <3>. QED BY <3>1, <3>2, <3>3
  <2>. QED BY <2>1, <2>2
<1>20. ASSUME NEW e \in U, Cardinality(Lower(U, e)) < k
       PROVE  \E j \in Found(s) : s[j] = e
  <2>1. /\ IsFiniteSet(Lower(U, e)) /\ Cardinality(Lower(U, e)) \in Nat
        /\ IsFiniteSet(Lower(S, e)) /\ Cardinality(Lower(S, e)) \in Nat
        /\ Cardinality(Lower(S, e)) <= Cardinality(Lower(U, e))
    BY <1>12, LowerIn
  <2>2. CASE e \in S
    <3>. DEFINE q == Cardinality(Lower(S, e))
    <3>1. q \in Ranks /\ a[q] = e
      BY <1>1, <1>16, <1>20, <2>1, <2>2
    <3>. HIDE DEF q
    <3>2. s[<<1, q>>] = e /\ <<1, q>> \in DOMAIN s
      BY <1>10, <1>11, <3>1
    <3>3. <<1, q>> \in Found(s)
      BY <1>12, <3>2 DEF Found
    <3>. QED BY <3>2, <3>3
  <2>3. CASE e \in N
    <3>1. PICK d \in T : e = <<dist[p + 1][y + 1][d + 1], d>>
      BY <1>14, <2>3
    <3>. DEFINE w == dist[p + 1][y + 1][d + 1]
                f == a[k - 1]
    <3>2. w \in Int /\ d \in Int /\ w < Infinity /\ e = <<w, d>>
      BY <1>12, <2>3, <3>1 DEF Near
    <3>3. k - 1 \in Ranks /\ f \in Int \X Int
      BY <1>1, <1>3 DEF Ranks
    <3>. HIDE DEF w
    <3>4. w < f[1]
      <4>1. CASE k - 1 >= Cardinality(S)
        <5>1. f[1] >= Infinity
          BY <1>3, <3>3, <4>1 DEF Blank, Ranks
        <5>. QED BY <3>2, <3>3, <5>1, KernelAssumption
      <4>2. CASE k - 1 < Cardinality(S)
        <5>1. f \in S /\ Cardinality(Lower(S, f)) = k - 1
          BY <1>3, <3>3, <4>2 DEF Best, Ranks
        <5>2. f[2] < d /\ f[2] \in Int /\ f[1] \in Int
          BY <1>7, <1>12, <3>3, <5>1
        <5>3. SUFFICES ASSUME f[1] <= w PROVE FALSE
          BY <3>2, <5>2
        <5>. HIDE DEF f
        <5>4. Precedes(f, e)
          BY <3>2, <5>2, <5>3 DEF Precedes
        <5>5. ASSUME NEW h \in Lower(S, f) PROVE h \in Lower(U, e)
          <6>1. h \in S /\ Precedes(h, f) /\ h \in Int \X Int
            BY <1>12 DEF Lower
          <6>2. Precedes(h, e)
            BY <1>12, <3>3, <5>4, <6>1, Order
          <6>. QED BY <1>12, <6>1, <6>2 DEF Lower
        <5>6. f \in Lower(U, e) /\ f \notin Lower(S, f)
          BY <1>12, <3>3, <5>1, <5>4, Order DEF Lower
        <5>. DEFINE L == Lower(S, f)
        <5>7. L \cup {f} \in SUBSET Lower(U, e)
          BY <5>5, <5>6
        <5>8. IsFiniteSet(L)
          BY <1>12, RankFacts, <3>3
        <5>. HIDE DEF L
        <5>9. Cardinality(L \cup {f}) = Cardinality(L) + 1
          BY <5>6, <5>8, FS_AddElement DEF L
        <5>10. Cardinality(L \cup {f}) <= Cardinality(Lower(U, e))
          BY <2>1, <5>7, FS_Subset
        <5>11. Cardinality(L) = k - 1
          BY <5>1 DEF L
        <5>. QED BY <1>1, <1>20, <2>1, <5>9, <5>10, <5>11
      <4>3. Cardinality(S) \in Nat
        BY <1>12, FS_CardinalityType
      <4>. QED BY <1>1, <4>1, <4>2, <4>3
    <3>5. d \in B
      BY <1>9, <3>4 DEF w
    <3>6. <<2, d>> \in DOMAIN s /\ s[<<2, d>>] = e
      BY <1>10, <1>11, <3>1, <3>5
    <3>7. <<2, d>> \in Found(s)
      BY <1>12, <3>6 DEF Found
    <3>. QED BY <3>6, <3>7
  <2>. QED BY <1>12, <2>2, <2>3
<1>21. Ranked(k, Nearest(s), U)
  BY <1>1, <1>2, <1>12, <1>18, <1>19, <1>20, NearestOf
<1>. QED BY <1>5, <1>21 DEF r, n, g, t, U, s, a, b, B

(* A kernel that runs. Its shape e does not change; f are its CTAs, m its    *)
(* mutexes and o its output. Every CTA has what it looked at in its list,    *)
(* and the lists of every row are on their way.                              *)
Shape(p) == [k |-> k, dist |-> dist, part |-> p, size |-> Size(p), x |-> GridX(p), y |-> GridY, rows |-> Rows]
SharesOf(e, y) == [X \in SUBSET (0..(e.x - 1)) |-> Cand(e.dist, e.part, y, Share(e.size, e.x, X))]
Knows(e, c, r, o) ==
  /\ r.row % e.y = c[2]
  /\ r.pc \in {"waiting", "tile"} =>
       /\ r.processed = 0 /\ r.tile % e.x = c[1]
       /\ Ranked(e.k, r.list, Cand(e.dist, e.part, r.row, ShareTo(e.size, e.x, c[1], r.tile)))
  /\ r.pc \in {"acquire", "write", "release"} => Ranked(e.k, r.list, SharesOf(e, r.row)[{c[1]}])
  /\ r.pc = "release" => o = r.list
  /\ r.pc = "end" => r.row + e.y \notin e.rows
Gave(e, f, y) == {x \in 1..(e.x - 1) : Past(f[<<x, y % e.y>>], y)}
KernelGood(e, f, m, o) ==
  /\ DOMAIN f = (0..(e.x - 1)) \X (0..(e.y - 1))
  /\ \A c \in DOMAIN f : Knows(e, c, f[c], o[f[c].row])
  /\ \A y \in e.rows : RowOK(e.k, e.x, SharesOf(e, y), y, f[<<0, y % e.y>>], m[y], o[y], Gave(e, f, y))

(* One CTA moves: it sees to its own row, and the others do not notice.      *)
Moves(e, f, m, o, c, h, r, y, m2, o2, a, G) ==
  /\ e.x \in Nat \ {0} /\ e.y \in Nat \ {0} /\ e.rows \in SUBSET Nat
  /\ KernelGood(e, f, m, o) /\ \A d \in DOMAIN f : f[d].row \in e.rows
  /\ c \in DOMAIN f /\ DOMAIN h = DOMAIN f /\ h[c] = r /\ \A d \in DOMAIN f \ {c} : h[d] = f[d]
  /\ f[c].row = y /\ f[c].pc # "end" /\ (r.row = y \/ (r.row = y + e.y /\ r.pc = "tile"))
  /\ \A z \in e.rows \ {y} : m2[z] = m[z] /\ o2[z] = o[z]
  /\ \A d \in DOMAIN f \ {c} : f[d].row = y /\ f[d].pc = "release" => o2[y] = o[y]
  /\ Knows(e, c, r, o2[r.row])
  /\ a = h[<<0, c[2]>>]
  /\ G = IF c[1] # 0 /\ Past(r, y) THEN Gave(e, f, y) \cup {c[1]} ELSE Gave(e, f, y)
  /\ RowOK(e.k, e.x, SharesOf(e, y), y, a, m2[y], o2[y], G)

(* A step of one CTA of a row leaves what the others hold.                   *)
LEMMA OneMoves ==
  ASSUME NEW e, NEW f, NEW m, NEW o, NEW c, NEW h, NEW r, NEW y, NEW m2, NEW o2, NEW a, NEW G,
         Moves(e, f, m, o, c, h, r, y, m2, o2, a, G)
  PROVE  KernelGood(e, h, m2, o2)
<1>. USE DEF Moves
<1>1. /\ DOMAIN f = (0..(e.x - 1)) \X (0..(e.y - 1))
      /\ \A d \in DOMAIN f : Knows(e, d, f[d], o[f[d].row])
      /\ \A z \in e.rows :
           RowOK(e.k, e.x, SharesOf(e, z), z, f[<<0, z % e.y>>], m[z], o[z], Gave(e, f, z))
  BY DEF KernelGood
<1>2. y \in e.rows /\ y \in Nat /\ y % e.y = c[2] /\ ~Past(f[c], y)
  <2>1. y \in e.rows /\ y \in Nat
    OBVIOUS
  <2>2. Knows(e, c, f[c], o[f[c].row])
    BY <1>1
  <2>3. y % e.y = c[2]
    BY <2>2 DEF Knows
  <2>4. ~Past(f[c], y)
    BY <2>1 DEF Past
  <2>. QED BY <2>1, <2>3, <2>4
<1>3. c[1] \in 0..(e.x - 1) /\ c[2] \in 0..(e.y - 1) /\ c = <<c[1], c[2]>>
  BY <1>1
<1>4. ASSUME NEW d \in DOMAIN f
      PROVE  Knows(e, d, h[d], o2[h[d].row])
  <2>1. CASE d = c
    BY <2>1
  <2>2. CASE d # c
    <3>1. h[d] = f[d] /\ Knows(e, d, f[d], o[f[d].row]) /\ f[d].row \in e.rows
      BY <1>1, <2>2
    <3>2. CASE f[d].row # y
      BY <3>1, <3>2
    <3>3. CASE f[d].row = y
      BY <2>2, <3>1, <3>3 DEF Knows
    <3>. QED BY <3>2, <3>3
  <2>. QED BY <2>1, <2>2
<1>5. ASSUME NEW z \in e.rows, z # y, NEW d \in DOMAIN f, d[2] = z % e.y
      PROVE  (Past(h[d], z) <=> Past(f[d], z)) /\ (d = c => ~Collects(f[d], z) /\ ~Collects(h[d], z))
  <2>1. CASE d # c
    BY <2>1
  <2>2. CASE d = c /\ r.row = y
    BY <1>5, <2>2 DEF Past, Collects
  <2>3. CASE d = c /\ r.row = y + e.y /\ r.pc = "tile"
    <3>1. z \in Nat /\ z % e.y = y % e.y
      BY <1>2, <1>5, <2>3
    <3>2. z < y \/ y < z
      BY <1>2, <1>5, <3>1
    <3>3. y < z => z - y >= e.y
      BY <1>2, <3>1, ModGap
    <3>. QED BY <1>2, <1>5, <2>3, <3>1, <3>2, <3>3 DEF Past, Collects
  <2>. QED BY <2>1, <2>2, <2>3
<1>6. ASSUME NEW z \in e.rows
      PROVE  /\ z % e.y \in 0..(e.y - 1)
             /\ \A x \in 0..(e.x - 1) : <<x, z % e.y>> \in DOMAIN f /\ <<x, z % e.y>>[2] = z % e.y
                                        /\ <<x, z % e.y>>[1] = x
  <2>1. z \in Nat
    OBVIOUS
  <2>2. z % e.y \in 0..(e.y - 1)
    BY <2>1, ModAdd
  <2>. QED BY <1>1, <2>2
<1>7. ASSUME NEW z \in e.rows, z # y
      PROVE  RowOK(e.k, e.x, SharesOf(e, z), z, h[<<0, z % e.y>>], m2[z], o2[z], Gave(e, h, z))
  <2>. DEFINE b == z % e.y
              first == <<0, b>>
  <2>1. Gave(e, h, z) = Gave(e, f, z)
    <3>1. \A x \in 1..(e.x - 1) : <<x, b>> \in DOMAIN f /\ <<x, b>>[2] = z % e.y
      BY <1>6
    <3>2. \A x \in 1..(e.x - 1) : Past(h[<<x, b>>], z) <=> Past(f[<<x, b>>], z)
      BY <1>5, <1>7, <3>1
    <3>. QED BY <3>2 DEF Gave
  <2>2. first \in DOMAIN f /\ first[2] = z % e.y
    BY <1>6
  <2>3. RowOK(e.k, e.x, SharesOf(e, z), z, f[first], m[z], o[z], Gave(e, f, z)) /\ m2[z] = m[z] /\ o2[z] = o[z]
    BY <1>1, <1>7
  <2>. HIDE DEF first
  <2>4. RowOK(e.k, e.x, SharesOf(e, z), z, h[first], m[z], o[z], Gave(e, f, z))
    <3>1. CASE first = c
      <4>1. (Past(h[first], z) <=> Past(f[first], z)) /\ ~Collects(f[first], z) /\ ~Collects(h[first], z)
        BY <1>5, <1>7, <2>2, <3>1
      <4>. QED BY <2>3, <4>1, RowSame
    <3>2. CASE first # c
      BY <2>2, <2>3, <3>2
    <3>. QED BY <3>1, <3>2
  <2>. QED BY <2>1, <2>3, <2>4 DEF first
<1>8. Gave(e, h, y) = IF c[1] # 0 /\ Past(r, y) THEN Gave(e, f, y) \cup {c[1]} ELSE Gave(e, f, y)
  <2>1. \A x \in 1..(e.x - 1) : <<x, c[2]>> \in DOMAIN f /\ (<<x, c[2]>> = c <=> x = c[1])
    BY <1>1, <1>3
  <2>2. \A x \in 1..(e.x - 1) : Past(h[<<x, c[2]>>], y) <=> (Past(f[<<x, c[2]>>], y) \/ (x = c[1] /\ Past(r, y)))
    BY <1>2, <2>1
  <2>3. c[1] # 0 => c[1] \in 1..(e.x - 1)
    BY <1>3
  <2>. QED BY <1>2, <2>2, <2>3 DEF Gave
<1>9. RowOK(e.k, e.x, SharesOf(e, y), y, h[<<0, y % e.y>>], m2[y], o2[y], Gave(e, h, y))
  BY <1>2, <1>8
<1>. QED BY <1>1, <1>4, <1>7, <1>9 DEF KernelGood

(* The shape of a kernel.                                                    *)
LEMMA ShapeFacts ==
  ASSUME dist \in Inputs, k \in Ks, NEW p \in Parts
  PROVE  /\ Shape(p).k = k /\ Shape(p).dist = dist /\ Shape(p).part = p /\ Shape(p).size = Size(p)
         /\ Shape(p).x = GridX(p) /\ Shape(p).y = GridY /\ Shape(p).rows = Rows
         /\ k \in Nat \ {0} /\ GridX(p) \in Nat \ {0} /\ GridY \in Nat \ {0} /\ Size(p) \in Nat \ {0}
         /\ Rows \in SUBSET Nat
         /\ \A y \in Rows : SharesOf(Shape(p), y) = Shares(p, y)
<1>1. Rows \in SUBSET Nat
  BY DEF Rows
<1>. QED BY <1>1, Shapes, KernelAssumption DEF Shape, SharesOf, Shares

(* A list of nothing is the ranked list of no neighbors.                     *)
LEMMA NothingSeen ==
  ASSUME k \in Nat \ {0}
  PROVE  Ranked(k, NoList, {})
<1>1. Cardinality({}) = 0
  BY FS_EmptySet
<1>2. NoList \in [0..(k - 1) -> Int \X Int] /\ \A x \in 0..(k - 1) : NoList[x][1] = Infinity
  BY KernelAssumption DEF NoList, Nothing, Ranks
<1>3. Best(k, NoList, {})
  BY <1>1 DEF Best
<1>4. Blank(k, NoList, {})
  BY <1>2, KernelAssumption DEF Blank
<1>. QED BY <1>2, <1>3, <1>4 DEF Ranked

(* A CTA that begins a row has seen nothing of it.                           *)
LEMMA Begins ==
  ASSUME dist \in Inputs, k \in Ks, NEW p \in Parts, NEW c \in Grid(p), NEW y \in Nat, y % GridY = c[2],
         NEW pc \in {"waiting", "tile"}, NEW o
  PROVE  Knows(Shape(p), c, NewCta(c[1], y, pc), o)
<1>. DEFINE e == Shape(p)
            r == NewCta(c[1], y, pc)
<1>1. /\ e.k = k /\ e.dist = dist /\ e.part = p /\ e.size = Size(p) /\ e.x = GridX(p) /\ e.y = GridY
      /\ k \in Nat \ {0} /\ GridX(p) \in Nat \ {0} /\ Size(p) \in Nat \ {0}
  BY ShapeFacts
<1>2. r.pc = pc /\ r.row = y /\ r.processed = 0 /\ r.tile = c[1] /\ r.list = NoList
  BY DEF NewCta
<1>3. c[1] \in 0..(GridX(p) - 1)
  BY DEF Grid
<1>4. c[1] % GridX(p) = c[1]
  <2>. DEFINE x == c[1]
              g == GridX(p)
  <2>1. x \in Nat /\ g \in Nat \ {0} /\ x < g
    BY <1>1, <1>3
  <2>. HIDE DEF x, g
  <2>2. x % g = x
    BY <2>1, ModAdd
  <2>. QED BY <2>2 DEF x, g
<1>5. Cand(dist, p, y, ShareTo(Size(p), GridX(p), c[1], c[1])) = {}
  <2>1. ShareTo(Size(p), GridX(p), c[1], c[1]) = {}
    BY <1>1, <1>3, ShareToFacts
  <2>. QED BY <2>1 DEF Cand
<1>6. Ranked(k, NoList, {})
  BY <1>1, NothingSeen
<1>. HIDE DEF e, r
<1>. QED BY <1>1, <1>2, <1>4, <1>5, <1>6 DEF Knows, e, r

(* A CTA that goes on with its next row, or ends, is as good as at its       *)
(* start.                                                                    *)
LEMMA NextRowGood ==
  ASSUME dist \in Inputs, k \in Ks, NEW p \in Parts, NEW c \in Grid(p), NEW r \in CtaType(p),
         r.x = c[1], r.row % GridY = c[2], NEW o
  PROVE  /\ Knows(Shape(p), c, NextRow(r), o)
         /\ NextRow(r).row = r.row \/ (NextRow(r).row = r.row + GridY /\ NextRow(r).pc = "tile")
         /\ Past(NextRow(r), r.row)
<1>1. /\ Shape(p).y = GridY /\ Shape(p).rows = Rows /\ GridY \in Nat \ {0} /\ r.row \in Nat /\ r.row \in Rows
  BY ShapeFacts DEF CtaType
<1>2. CASE r.row + GridY \in Rows
  <2>1. NextRow(r) = NewCta(c[1], r.row + GridY, "tile")
    BY <1>2 DEF NextRow
  <2>2. (r.row + GridY) % GridY = c[2] /\ r.row + GridY \in Nat
    <3>. DEFINE y == r.row
                g == GridY
    <3>1. y \in Nat /\ g \in Nat \ {0} /\ y % g = c[2]
      BY <1>1
    <3>. HIDE DEF y, g
    <3>2. (y + g) % g = y % g
      BY <3>1, ModAdd
    <3>3. (y + g) % g = c[2] /\ y + g \in Nat
      BY <3>1, <3>2
    <3>. QED BY <3>3 DEF y, g
  <2>3. Knows(Shape(p), c, NewCta(c[1], r.row + GridY, "tile"), o)
    BY <2>2, Begins
  <2>4. NextRow(r).row = r.row + GridY /\ NextRow(r).pc = "tile"
    BY <2>1 DEF NewCta
  <2>. QED BY <1>1, <2>1, <2>3, <2>4 DEF Past
<1>3. CASE r.row + GridY \notin Rows
  <2>. DEFINE n == NextRow(r)
  <2>1. n.pc = "end" /\ n.row = r.row
    BY <1>3 DEF NextRow, CtaType
  <2>. HIDE DEF n
  <2>2. Knows(Shape(p), c, n, o) /\ Past(n, r.row)
    BY <1>1, <1>3, <2>1 DEF Knows, Past
  <2>. QED BY <2>1, <2>2 DEF n
<1>. QED BY <1>2, <1>3

(* What a step of a CTA makes of its row.                                    *)
RowMove(p, c, y, n, M, O) ==
  /\ cta[p][c].row = y /\ cta[p][c].pc # "end" /\ Move(p, c, n)
  /\ n.row = y \/ (n.row = y + GridY /\ n.pc = "tile")
  /\ \A z \in Rows \ {y} : M[z] = mutexes[p][z] /\ O[z] = out[p][z]
  /\ \A d \in DOMAIN cta[p] \ {c} : cta[p][d].row = y /\ cta[p][d].pc = "release" => O[y] = out[p][y]
  /\ Knows(Shape(p), c, n, O[n.row])
  /\ RowOK(k, GridX(p), Shares(p, y), y, IF c[1] = 0 THEN n ELSE cta[p][<<0, c[2]>>], M[y], O[y],
           IF c[1] # 0 /\ Past(n, y) THEN Gave(Shape(p), cta[p], y) \cup {c[1]}
           ELSE Gave(Shape(p), cta[p], y))

(* A row of tiles after a step of one of its CTAs.                           *)
LEMMA RowStep ==
  ASSUME IInv, KernelTypes, NEW p \in Parts, KernelGood(Shape(p), cta[p], mutexes[p], out[p]),
         NEW c \in DOMAIN cta[p], NEW y, NEW n, NEW M, NEW O, RowMove(p, c, y, n, M, O)
  PROVE  KernelGood(Shape(p), cta'[p], M, O)
<1>. USE DEF RowMove
<1>. DEFINE e == Shape(p)
            f == cta[p]
            h == cta'[p]
            a == <<0, c[2]>>
<1>1. /\ e.k = k /\ e.x = GridX(p) /\ e.y = GridY /\ e.rows = Rows
      /\ GridX(p) \in Nat \ {0} /\ GridY \in Nat \ {0} /\ Rows \in SUBSET Nat
      /\ \A z \in Rows : SharesOf(e, z) = Shares(p, z)
  BY ShapeFacts DEF IInv, KernelTypes
<1>2. \A d \in DOMAIN f : f[d].row \in Rows
  BY DEF KernelTypes, CtasOK, CtaType
<1>3. DOMAIN h = DOMAIN f /\ h[c] = n /\ \A d \in DOMAIN f \ {c} : h[d] = f[d]
  <2>1. cta' = [cta EXCEPT ![p] = [cta[p] EXCEPT ![c] = n]] /\ DOMAIN cta = Parts
    BY DEF Move, IInv
  <2>. QED BY <2>1
<1>4. DOMAIN f = (0..(GridX(p) - 1)) \X (0..(GridY - 1))
  BY <1>1 DEF KernelGood
<1>5. h[a] = IF c[1] = 0 THEN n ELSE f[a]
  <2>1. a \in DOMAIN f /\ (a = c <=> c[1] = 0)
    BY <1>1, <1>4
  <2>. QED BY <1>3, <2>1
<1>. HIDE DEF e, h
<1>. DEFINE G == IF c[1] # 0 /\ Past(n, y) THEN Gave(e, f, y) \cup {c[1]} ELSE Gave(e, f, y)
            b == h[<<0, c[2]>>]
            m1 == mutexes[p]
            o1 == out[p]
<1>6. RowOK(e.k, e.x, SharesOf(e, y), y, b, M[y], O[y], G)
  BY <1>1, <1>2, <1>5 DEF e
<1>8. KernelGood(e, f, m1, o1) /\ Knows(e, c, n, O[n.row])
  BY DEF e
<1>9. /\ e.x \in Nat \ {0} /\ e.y \in Nat \ {0} /\ e.rows \in SUBSET Nat
      /\ \A d \in DOMAIN f : f[d].row \in e.rows
      /\ c \in DOMAIN f /\ f[c].row = y /\ f[c].pc # "end"
      /\ n.row = y \/ (n.row = y + e.y /\ n.pc = "tile")
      /\ \A z \in e.rows \ {y} : M[z] = m1[z] /\ O[z] = o1[z]
      /\ \A d \in DOMAIN f \ {c} : f[d].row = y /\ f[d].pc = "release" => O[y] = o1[y]
  BY <1>1, <1>2
<1>. HIDE DEF f, a, m1, o1
<1>10. /\ b = h[<<0, c[2]>>]
       /\ G = IF c[1] # 0 /\ Past(n, y) THEN Gave(e, f, y) \cup {c[1]} ELSE Gave(e, f, y)
  OBVIOUS
<1>. HIDE DEF b, G
<1>11. KernelGood(e, h, M, O)
  <2>1. Moves(e, f, m1, o1, c, h, n, y, M, O, b, G)
    BY <1>3, <1>6, <1>8, <1>9, <1>10 DEF Moves
  <2>. QED BY <2>1, OneMoves
<1>. QED BY <1>11 DEF e, h

(* Every step of a CTA keeps the lists of its kernel on their way.           *)
LEMMA CtaGood ==
  ASSUME IInv, KernelTypes, NEW p \in Parts, KernelGood(Shape(p), cta[p], mutexes[p], out[p]),
         NEW c \in DOMAIN cta[p], Cta(p, c)
  PROVE  KernelGood(Shape(p), cta'[p], mutexes'[p], out'[p])
<1>. DEFINE r == cta[p][c]
            y == r.row
            x == c[1]
            e == Shape(p)
            f == cta[p]
            g == GridX(p)
            N == Shares(p, y)
            a == f[<<0, c[2]>>]
            G == Gave(e, f, y)
            m == mutexes[p][y]
            o == out[p][y]
            v == mutexes'[p][y]
            w == out'[p][y]
            Goal == KernelGood(e, cta'[p], mutexes'[p], out'[p])
            Seen == Cand(dist, p, y, ShareTo(Size(p), g, x, r.tile))
<1>1. /\ e.k = k /\ e.dist = dist /\ e.part = p /\ e.size = Size(p) /\ e.x = g /\ e.y = GridY /\ e.rows = Rows
      /\ k \in Nat \ {0} /\ g \in Nat \ {0} /\ GridY \in Nat \ {0} /\ Size(p) \in Nat \ {0} /\ Rows \in SUBSET Nat
      /\ \A z \in Rows : SharesOf(e, z) = Shares(p, z)
      /\ dist \in Inputs /\ k \in Ks
  BY ShapeFacts DEF IInv, KernelTypes
<1>2. /\ r \in CtaType(p) /\ y \in Rows /\ y \in Nat /\ r.x = x /\ r.tile \in Nat
      /\ r.list \in Lists /\ r.heap \in Lists
  <2>1. r \in CtaType(p)
    BY DEF KernelTypes, CtasOK
  <2>2. r.x = x
    BY DEF IInv, PartOK, CtaOK
  <2>. QED BY <1>1, <2>1, <2>2 DEF CtaType
<1>3. /\ DOMAIN f = (0..(g - 1)) \X (0..(GridY - 1)) /\ c \in Grid(p)
      /\ x \in 0..(g - 1) /\ c = <<x, c[2]>>
      /\ Knows(e, c, r, o)
      /\ RowOK(k, g, N, y, f[<<0, y % e.y>>], m, o, G)
  <2>1. DOMAIN f = (0..(g - 1)) \X (0..(GridY - 1))
    BY <1>1 DEF KernelGood
  <2>2. c \in Grid(p) /\ x \in 0..(g - 1) /\ c = <<x, c[2]>>
    BY <2>1 DEF Grid
  <2>3. Knows(e, c, r, o)
    BY DEF KernelGood
  <2>4. RowOK(e.k, e.x, SharesOf(e, y), y, f[<<0, y % e.y>>], m, o, G)
    BY <1>1, <1>2 DEF KernelGood
  <2>. QED BY <1>1, <1>2, <2>1, <2>2, <2>3, <2>4
<1>4. y % GridY = c[2] /\ RowOK(k, g, N, y, a, m, o, G)
  <2>1. y % e.y = c[2]
    BY <1>3 DEF Knows
  <2>. QED BY <1>1, <1>3, <2>1
<1>5. IsShares(N, g) /\ N[0..(g - 1)] = Cand(dist, p, y, 0..(Size(p) - 1))
      /\ N[{x}] = Cand(dist, p, y, Share(Size(p), g, {x}))
  <2>1. dist \in Inputs /\ y \in Rows /\ x \in 0..(GridX(p) - 1)
    BY <1>1, <1>2, <1>3
  <2>. HIDE DEF x, y
  <2>. QED BY <2>1, SharesFacts DEF N, g
<1>6. /\ r.pc \in {"acquire", "write", "release"} => x # 0
      /\ r.pc \in {"take", "copy", "free", "merge"} => x = 0
      /\ r.pc \in {"write", "release"} => m = 1
      /\ r.pc \in {"copy", "free"} => m = -1
  BY DEF IInv, PartOK, CtaOK
<1>7. /\ r.pc \in {"waiting", "tile"} => r.processed = 0 /\ r.tile % g = x /\ Ranked(k, r.list, Seen)
      /\ r.pc \in {"acquire", "write", "release"} => Ranked(k, r.list, N[{x}])
      /\ r.pc = "release" => o = r.list
  BY <1>1, <1>2, <1>3 DEF Knows
<1>8. x = 0 => a = r
  BY <1>3
<1>9. ASSUME x # 0, r.pc # "end"
      PROVE  x \in 1..(g - 1) /\ x \notin G /\ ~Past(a, y)
  <2>1. x \in 1..(g - 1)
    BY <1>1, <1>3, <1>9
  <2>2. x \notin G
    <3>1. f[<<x, c[2]>>] = r
      BY <1>3
    <3>2. ~Past(r, y)
      BY <1>2, <1>9 DEF Past
    <3>. QED BY <1>1, <1>4, <3>1, <3>2 DEF Gave
  <2>3. ~Past(a, y)
    BY <1>4, <2>1, <2>2 DEF RowOK
  <2>. QED BY <2>1, <2>2, <2>3
<1>10. \A d \in DOMAIN f \ {c} : ~(/\ f[d].row = y /\ f[d].pc \in {"write", "release", "copy", "free"}
                                   /\ r.pc \in {"write", "release", "copy", "free"})
  <2>1. \A d1, d2 \in Uses(p, y) : d1 = d2
    BY <1>2 DEF IInv, PartOK
  <2>. QED BY <2>1 DEF Uses
<1>11. \A z \in Rows \ {y} : mutexes'[p][z] = mutexes[p][z] /\ out'[p][z] = out[p][z]
  <2>1. mutexes' = mutexes \/ \E b : mutexes' = [mutexes EXCEPT ![p][y] = b]
    BY DEF Cta, Dispatch, Tile, Acquire, Write, Release, Take, Copy, Free, Merge, Store, Swap, Set
  <2>2. out' = out \/ \E b : out' = [out EXCEPT ![p][y] = b]
    BY DEF Cta, Dispatch, Tile, Acquire, Write, Release, Take, Copy, Free, Merge, Store
  <2>3. mutexes[p] \in [Rows -> {-2, -1, 0, 1}] /\ out[p] \in [Rows -> Lists]
        /\ mutexes = [q \in Parts |-> mutexes[q]] /\ out = [q \in Parts |-> out[q]]
    BY DEF KernelTypes
  <2>. HIDE DEF y
  <2>. QED BY <2>1, <2>2, <2>3
<1>12. /\ UNCHANGED mutexes => v = m
       /\ UNCHANGED out => w = o
       /\ \A b : Set(p, y, b) => v = b
       /\ \A b : out' = [out EXCEPT ![p][y] = b] => w = b
  <2>1. mutexes[p] \in [Rows -> {-2, -1, 0, 1}] /\ out[p] \in [Rows -> Lists]
        /\ mutexes = [q \in Parts |-> mutexes[q]] /\ out = [q \in Parts |-> out[q]]
    BY DEF KernelTypes
  <2>. HIDE DEF y
  <2>. QED BY <1>2, <2>1 DEF Set
<1>. HIDE DEF Goal, N, G, Seen
<1>. DEFINE Kept(n, q, H) ==
              /\ Move(p, c, n) /\ r.pc # "end" /\ (n.row = y \/ (n.row = y + GridY /\ n.pc = "tile"))
              /\ UNCHANGED out \/ \A d \in DOMAIN f \ {c} : ~(f[d].row = y /\ f[d].pc = "release")
              /\ Knows(e, c, n, out'[p][n.row]) /\ RowOK(k, g, N, y, q, v, w, H)
              /\ q = (IF x = 0 THEN n ELSE a)
              /\ H = (IF x # 0 /\ Past(n, y) THEN G \cup {x} ELSE G)
<1>13. ASSUME NEW n, NEW q, NEW H, Kept(n, q, H)
       PROVE  Goal
  <2>1. \A d \in DOMAIN f \ {c} : f[d].row = y /\ f[d].pc = "release" => w = o
    BY <1>12, <1>13
  <2>2. RowMove(p, c, y, n, mutexes'[p], out'[p])
    BY <1>11, <1>13, <2>1 DEF RowMove, N, G
  <2>. QED BY <2>2, RowStep DEF Goal
<1>17. ASSUME NEW s \in CtaType(p), s.x = x, s.row = y
       PROVE  /\ Knows(e, c, NextRow(s), out'[p][NextRow(s).row])
              /\ NextRow(s).row = y \/ (NextRow(s).row = y + GridY /\ NextRow(s).pc = "tile")
              /\ Past(NextRow(s), y)
  <2>1. s.row % GridY = c[2] /\ c \in Grid(p) /\ dist \in Inputs /\ k \in Ks /\ s.x = c[1]
    BY <1>1, <1>3, <1>4, <1>17
  <2>. QED BY <1>17, <2>1, NextRowGood
<1>18. ASSUME NEW n, n.row = y, n.pc \in {"waiting", "tile", "acquire", "write", "release", "take", "copy", "free", "merge"}
       PROVE  ~Past(n, y)
  BY <1>2, <1>18 DEF Past
<1>19. ASSUME NEW n, n.row = y, n.pc \notin {"take", "copy", "free", "merge"}
       PROVE  ~Collects(n, y)
  BY <1>19 DEF Collects
<1>a. SharesOf(e, y) = N
  BY <1>1, <1>2 DEF N
<1>b. ASSUME NEW d \in DOMAIN f, f[d].pc = "release"
      PROVE  d[1] \in 1..(g - 1) /\ d = <<d[1], d[2]>> /\ f[d].row % GridY = d[2]
  <2>1. d \in (0..(g - 1)) \X (0..(GridY - 1))
    BY <1>3
  <2>2. d[1] # 0
    BY <1>b DEF IInv, PartOK, CtaOK
  <2>3. Knows(e, d, f[d], out[p][f[d].row])
    BY DEF KernelGood
  <2>4. f[d].row % GridY = d[2]
    BY <1>1, <2>3 DEF Knows
  <2>5. d[1] \in 1..(g - 1)
    BY <1>1, <2>1, <2>2
  <2>. QED BY <2>1, <2>4, <2>5
<1>c. r = cta[p][c] /\ y = r.row /\ y \in Int
  BY <1>2
<1>d. ASSUME Tile(p, c)
      PROVE  LET list == Nearest(Joined(r.list, [d \in Better(p, r) |-> Neighbor(p, r.row, d)]))
             IN  Ranked(k, list, Cand(dist, p, y, ShareTo(Size(p), g, x, r.tile + g)))
  <2>1. r.pc = "tile"
    BY <1>d DEF Tile
  <2>2. r.tile % g = x /\ Ranked(k, r.list, Seen)
    BY <1>7, <2>1
  <2>3. x \in Nat
    BY <1>3
  <2>. QED BY <1>2, <2>2, <2>3, TileMerge DEF Seen
<1>e. SUFFICES Goal
  BY DEF Goal
<1>. HIDE DEF r, y, e, a, v, w, m, o, f, Kept
<1>20. CASE Dispatch(p, c)
  <2>. DEFINE n == [r EXCEPT !.pc = "tile"]
  <2>1. Move(p, c, n) /\ r.pc = "waiting" /\ UNCHANGED <<out, mutexes>>
    BY <1>20 DEF Dispatch, r
  <2>2. n.row = y /\ n.pc = "tile" /\ n.list = r.list /\ n.tile = r.tile /\ n.processed = r.processed
    BY <1>2, <1>c DEF CtaType
  <2>. HIDE DEF n
  <2>3. \A q : Knows(e, c, n, q)
    BY <1>1, <1>4, <1>7, <2>1, <2>2 DEF Knows, Seen
  <2>4. ~Past(r, y) /\ ~Past(n, y) /\ ~Collects(r, y) /\ ~Collects(n, y) /\ v = m /\ w = o
    BY <1>12, <1>18, <1>19, <1>c, <2>1, <2>2
  <2>5. CASE x = 0
    <3>1. RowOK(k, g, N, y, r, m, o, G)
      BY <1>4, <1>8, <2>5
    <3>2. RowOK(k, g, N, y, n, m, o, G)
      BY <2>4, <3>1, RowSame
    <3>3. Kept(n, n, G)
      BY <2>1, <2>2, <2>3, <2>4, <2>5, <3>2 DEF Kept
    <3>. QED BY <1>13, <3>3
  <2>6. CASE x # 0
    <3>1. Kept(n, a, G)
      BY <1>4, <2>1, <2>2, <2>3, <2>4, <2>6 DEF Kept
    <3>. QED BY <1>13, <3>1
  <2>. QED BY <2>5, <2>6
<1>21. CASE Tile(p, c)
  <2>. DEFINE list == Nearest(Joined(r.list, [d \in Better(p, r) |-> Neighbor(p, r.row, d)]))
              t == r.tile + g
              last == t * Nblk >= Size(p)
              new == [r EXCEPT !.list = list, !.tile = t]
              took == [new EXCEPT !.pc = "take", !.heap = list]
              got == [new EXCEPT !.pc = "acquire"]
  <2>1. Ranked(k, list, Cand(dist, p, y, ShareTo(Size(p), g, x, t)))
    BY <1>d, <1>21
  <2>2. t \in Nat /\ t % g = x
    <3>1. r.tile % g = x /\ r.tile \in Nat /\ r.pc = "tile"
      BY <1>2, <1>7, <1>21 DEF Tile, r
    <3>2. (r.tile + g) % g = r.tile % g
      BY <1>1, <3>1, ModAdd
    <3>. QED BY <1>1, <3>1, <3>2
  <2>3. last => Ranked(k, list, N[{x}])
    <3>1. last => ShareTo(Size(p), g, x, t) = Share(Size(p), g, {x})
      BY <1>1, <1>3, <2>2, ShareToFacts
    <3>. QED BY <1>5, <2>1, <3>1
  <2>4. /\ r.pc = "tile" /\ UNCHANGED mutexes
        /\ \/ ~last /\ Move(p, c, new) /\ UNCHANGED out
           \/ last /\ g = 1 /\ Move(p, c, NextRow(new)) /\ out' = [out EXCEPT ![p][y] = list]
           \/ last /\ g # 1 /\ x = 0 /\ Move(p, c, took) /\ UNCHANGED out
           \/ last /\ g # 1 /\ x # 0 /\ Move(p, c, got) /\ UNCHANGED out
    <3>1. r.x = x
      BY <1>2
    <3>. QED BY <1>21, <3>1 DEF Tile, r, y
  <2>5. list \in Lists
    BY <2>1 DEF Ranked, Lists, Ranks
  <2>. HIDE DEF list, t, last
  <2>6. /\ new.row = y /\ new.pc = "tile" /\ new.list = list /\ new.tile = t /\ new.processed = 0
        /\ new \in CtaType(p) /\ new.x = x
        /\ took.row = y /\ took.pc = "take" /\ took.heap = list /\ took.processed = 0
        /\ got.row = y /\ got.pc = "acquire" /\ got.list = list
    BY <1>2, <1>7, <1>c, <2>2, <2>4, <2>5 DEF CtaType
  <2>. HIDE DEF new, took, got
  <2>7. ~Past(r, y) /\ ~Collects(r, y) /\ v = m
    BY <1>12, <1>18, <1>19, <1>c, <2>4
  <2>8. CASE ~last /\ Move(p, c, new) /\ UNCHANGED out
    <3>1. \A q : Knows(e, c, new, q)
      BY <1>1, <1>4, <2>1, <2>2, <2>6 DEF Knows
    <3>2. ~Past(new, y) /\ ~Collects(new, y) /\ w = o
      BY <1>12, <1>18, <1>19, <2>6, <2>8
    <3>3. CASE x = 0
      <4>1. RowOK(k, g, N, y, r, m, o, G)
        BY <1>4, <1>8, <3>3
      <4>2. RowOK(k, g, N, y, new, m, o, G)
        BY <2>7, <3>2, <4>1, RowSame
      <4>3. Kept(new, new, G)
        BY <2>4, <2>6, <2>7, <2>8, <3>1, <3>2, <3>3, <4>2 DEF Kept
      <4>. QED BY <1>13, <4>3
    <3>4. CASE x # 0
      <4>1. Kept(new, a, G)
        BY <1>4, <2>4, <2>6, <2>7, <2>8, <3>1, <3>2, <3>4 DEF Kept
      <4>. QED BY <1>13, <4>1
    <3>. QED BY <3>3, <3>4
  <2>9. CASE last /\ g = 1 /\ Move(p, c, NextRow(new)) /\ out' = [out EXCEPT ![p][y] = list]
    <3>. DEFINE n == NextRow(new)
    <3>1. Knows(e, c, n, out'[p][n.row]) /\ (n.row = y \/ (n.row = y + GridY /\ n.pc = "tile")) /\ Past(n, y)
      BY <1>17, <2>6
    <3>. HIDE DEF n
    <3>a. x = 0
      BY <1>3, <2>9
    <3>b. w = list
      BY <1>12, <2>9
    <3>2. x = 0 /\ w = list
      BY <3>a, <3>b
    <3>3. RowOK(k, 1, N, y, r, m, o, G)
      BY <1>4, <1>8, <2>9, <3>2
    <3>4. Ranked(k, list, N[{0}])
      BY <2>3, <2>9, <3>2
    <3>5. RowOK(k, 1, N, y, n, m, list, G)
      BY <3>1, <3>3, <3>4, RowAlone
    <3>6. \A d \in DOMAIN f \ {c} : ~(f[d].row = y /\ f[d].pc = "release")
      BY <1>b, <2>9
    <3>7. RowOK(k, g, N, y, n, v, w, G)
      BY <2>7, <2>9, <3>2, <3>5
    <3>8. Kept(n, n, G)
      BY <2>4, <2>9, <3>1, <3>2, <3>6, <3>7 DEF Kept, n
    <3>. QED BY <1>13, <3>8
  <2>10. CASE last /\ g # 1 /\ x = 0 /\ Move(p, c, took) /\ UNCHANGED out
    <3>1. \A q : Knows(e, c, took, q)
      BY <1>1, <1>4, <2>6 DEF Knows
    <3>2. ~Past(took, y) /\ w = o
      BY <1>12, <1>18, <2>6, <2>10
    <3>3. RowOK(k, g, N, y, r, m, o, G)
      BY <1>4, <1>8, <2>10
    <3>4. Ranked(k, took.heap, N[{0}])
      BY <2>3, <2>6, <2>10
    <3>5. RowOK(k, g, N, y, took, m, o, G)
      BY <2>6, <2>7, <3>2, <3>3, <3>4, RowStart
    <3>6. Kept(took, took, G)
      BY <2>4, <2>6, <2>7, <2>10, <3>1, <3>2, <3>5 DEF Kept
    <3>. QED BY <1>13, <3>6
  <2>11. CASE last /\ g # 1 /\ x # 0 /\ Move(p, c, got) /\ UNCHANGED out
    <3>1. \A q : Knows(e, c, got, q)
      BY <1>1, <1>4, <1>a, <2>3, <2>6, <2>11 DEF Knows
    <3>2. ~Past(got, y) /\ w = o
      BY <1>12, <1>18, <2>6, <2>11
    <3>3. Kept(got, a, G)
      BY <1>4, <2>4, <2>6, <2>7, <2>11, <3>1, <3>2 DEF Kept
    <3>. QED BY <1>13, <3>3
  <2>. QED BY <2>4, <2>8, <2>9, <2>10, <2>11
<1>22. CASE Acquire(p, c)
  <2>. DEFINE n == [r EXCEPT !.pc = "write"]
  <2>1. Move(p, c, n) /\ r.pc = "acquire" /\ UNCHANGED out /\ Swap(p, y, 0, 1)
    BY <1>22 DEF Acquire, r, y
  <2>2. n.row = y /\ n.pc = "write" /\ n.list = r.list
    BY <1>2, <1>c DEF CtaType
  <2>. HIDE DEF n
  <2>3. \A q : Knows(e, c, n, q)
    BY <1>1, <1>4, <1>7, <1>a, <2>1, <2>2 DEF Knows
  <2>4. m = 0 /\ v = 1 /\ w = o
    BY <1>12, <2>1 DEF Swap, Set, m
  <2>5. x # 0 /\ ~Past(a, y) /\ ~Past(n, y)
    BY <1>6, <1>9, <1>18, <2>1, <2>2
  <2>6. RowOK(k, g, N, y, a, 1, o, G)
    BY <1>4, <2>4, <2>5, RowProduce
  <2>7. Kept(n, a, G)
    BY <2>1, <2>2, <2>3, <2>4, <2>5, <2>6 DEF Kept
  <2>. QED BY <1>13, <2>7
<1>23. CASE Write(p, c)
  <2>. DEFINE n == [r EXCEPT !.pc = "release"]
  <2>1. Move(p, c, n) /\ r.pc = "write" /\ UNCHANGED mutexes /\ out' = [out EXCEPT ![p][y] = r.list]
    BY <1>23 DEF Write, r, y
  <2>2. n.row = y /\ n.pc = "release" /\ n.list = r.list
    BY <1>2, <1>c DEF CtaType
  <2>. HIDE DEF n
  <2>3. m = 1 /\ v = 1 /\ w = r.list
    BY <1>6, <1>12, <2>1
  <2>4. Knows(e, c, n, out'[p][n.row])
    <3>1. out'[p][n.row] = n.list
      BY <2>2, <2>3 DEF w
    <3>. QED BY <1>1, <1>4, <1>7, <1>a, <2>1, <2>2, <3>1 DEF Knows
  <2>5. x # 0 /\ ~Past(a, y) /\ ~Past(n, y)
    BY <1>6, <1>9, <1>18, <2>1, <2>2
  <2>6. ~(a.row = y /\ a.pc = "copy")
    <3>1. <<0, c[2]>> \in DOMAIN f /\ <<0, c[2]>> # c
      BY <1>1, <1>3, <2>5 DEF Grid
    <3>. QED BY <1>10, <2>1, <3>1 DEF a
  <2>7. RowOK(k, g, N, y, a, 1, r.list, G)
    BY <1>4, <2>3, <2>5, <2>6, RowProduce
  <2>8. \A d \in DOMAIN f \ {c} : ~(f[d].row = y /\ f[d].pc = "release")
    BY <1>10, <2>1
  <2>9. Kept(n, a, G)
    BY <2>1, <2>2, <2>3, <2>4, <2>5, <2>7, <2>8 DEF Kept
  <2>. QED BY <1>13, <2>9
<1>24. CASE Release(p, c)
  <2>1. Move(p, c, NextRow(r)) /\ r.pc = "release" /\ UNCHANGED out /\ Set(p, y, -2)
    BY <1>24 DEF Release, r, y
  <2>2. m = 1 /\ v = -2 /\ w = o /\ o = r.list
    BY <1>6, <1>7, <1>12, <2>1
  <2>3. x # 0 /\ ~Past(a, y) /\ x \in 1..(g - 1) /\ x \notin G
    BY <1>6, <1>9, <2>1
  <2>4. Ranked(k, o, N[{x}])
    BY <1>7, <2>1, <2>2
  <2>7. m # -2 /\ RowOK(k, g, N, y, a, m, o, G)
    BY <1>4, <2>2
  <2>5. RowOK(k, g, N, y, a, -2, o, G \cup {x})
    BY <2>3, <2>4, <2>7, RowGive
  <2>6. Kept(NextRow(r), a, G \cup {x})
    <3>. DEFINE n == NextRow(r)
    <3>1. Knows(e, c, n, out'[p][n.row]) /\ (n.row = y \/ (n.row = y + GridY /\ n.pc = "tile")) /\ Past(n, y)
      BY <1>2, <1>17, <1>c
    <3>2. Move(p, c, n)
      BY <2>1
    <3>. HIDE DEF n
    <3>3. Kept(n, a, G \cup {x})
      BY <2>1, <2>2, <2>3, <2>5, <3>1, <3>2 DEF Kept
    <3>. QED BY <3>3 DEF n
  <2>. QED BY <1>13, <2>6
<1>25. CASE Take(p, c)
  <2>. DEFINE n == [r EXCEPT !.pc = "copy"]
  <2>1. Move(p, c, n) /\ r.pc = "take" /\ UNCHANGED out /\ Swap(p, y, -2, -1)
    BY <1>25 DEF Take, r, y
  <2>2. n.row = y /\ n.pc = "copy" /\ n.heap = r.heap /\ n.processed = r.processed
    BY <1>2, <1>c DEF CtaType
  <2>. HIDE DEF n
  <2>3. \A q : Knows(e, c, n, q)
    BY <1>1, <1>4, <2>2 DEF Knows
  <2>4. m = -2 /\ v = -1 /\ w = o
    BY <1>12, <2>1 DEF Swap, Set, m
  <2>5. x = 0 /\ a = r
    BY <1>6, <1>8, <2>1
  <2>6. RowOK(k, g, N, y, r, -2, o, G)
    BY <1>4, <2>4, <2>5
  <2>7. RowOK(k, g, N, y, n, -1, o, G)
    BY <1>c, <2>1, <2>2, <2>6, RowTake
  <2>8. Kept(n, n, G)
    BY <2>1, <2>2, <2>3, <2>4, <2>5, <2>7 DEF Kept
  <2>. QED BY <1>13, <2>8
<1>26. ASSUME NEW n, Move(p, c, n), r.pc \in {"copy", "free"}, UNCHANGED out,
              n.row = y, n.pc \in {"free", "merge"}, n.heap = r.heap, n.processed = r.processed,
              n.list = (IF r.pc = "copy" THEN o ELSE r.list), v # -2
       PROVE  Goal
  <2>1. \A q : Knows(e, c, n, q)
    BY <1>1, <1>4, <1>26 DEF Knows
  <2>2. m # -2 /\ w = o
    BY <1>6, <1>12, <1>26
  <2>3. x = 0 /\ a = r
    BY <1>6, <1>8, <1>26
  <2>4. RowOK(k, g, N, y, r, m, o, G)
    BY <1>4, <2>3
  <2>5. RowOK(k, g, N, y, n, v, o, G)
    BY <1>26, <1>c, <2>2, <2>4, RowHold
  <2>6. Kept(n, n, G)
    BY <1>26, <2>1, <2>2, <2>3, <2>5 DEF Kept
  <2>. QED BY <1>13, <2>6
<1>27. CASE Copy(p, c)
  <2>. DEFINE n == [r EXCEPT !.pc = "free", !.list = o]
  <2>1. Move(p, c, n) /\ r.pc = "copy" /\ UNCHANGED out /\ UNCHANGED mutexes
    BY <1>27 DEF Copy, r, y, o
  <2>2. n.row = y /\ n.pc = "free" /\ n.heap = r.heap /\ n.processed = r.processed /\ n.list = o
    BY <1>2, <1>c DEF CtaType
  <2>3. v = -1
    BY <1>6, <1>12, <2>1
  <2>. HIDE DEF n
  <2>. QED BY <1>26, <2>1, <2>2, <2>3
<1>28. CASE Free(p, c)
  <2>. DEFINE n == [r EXCEPT !.pc = "merge"]
  <2>1. Move(p, c, n) /\ r.pc = "free" /\ UNCHANGED out /\ Set(p, y, 0)
    BY <1>28 DEF Free, r, y
  <2>2. n.row = y /\ n.pc = "merge" /\ n.heap = r.heap /\ n.processed = r.processed /\ n.list = r.list
    BY <1>2, <1>c DEF CtaType
  <2>3. v = 0
    BY <1>12, <2>1
  <2>. HIDE DEF n
  <2>. QED BY <1>26, <2>1, <2>2, <2>3
<1>29. CASE Merge(p, c)
  <2>. DEFINE n == [r EXCEPT !.pc = "take", !.heap = Nearest(Joined(r.heap, r.list)), !.processed = r.processed + 1]
  <2>1. Move(p, c, n) /\ r.pc = "merge" /\ UNCHANGED <<out, mutexes>>
    BY <1>29 DEF Merge, r
  <2>2. /\ n.row = y /\ n.pc = "take" /\ n.heap = Nearest(Joined(r.heap, r.list))
        /\ n.processed = r.processed + 1
    BY <1>2, <1>c DEF CtaType
  <2>. HIDE DEF n
  <2>3. \A q : Knows(e, c, n, q)
    BY <1>1, <1>4, <2>2 DEF Knows
  <2>4. v = m /\ w = o
    BY <1>12, <2>1
  <2>5. x = 0 /\ a = r
    BY <1>6, <1>8, <2>1
  <2>6. RowOK(k, g, N, y, r, m, o, G)
    BY <1>4, <2>5
  <2>7. RowOK(k, g, N, y, n, m, o, G)
    BY <1>1, <1>5, <1>c, <2>1, <2>2, <2>6, RowMerge
  <2>8. Kept(n, n, G)
    BY <2>1, <2>2, <2>3, <2>4, <2>5, <2>7 DEF Kept
  <2>. QED BY <1>13, <2>8
<1>30. CASE Store(p, c)
  <2>1. /\ Move(p, c, NextRow(r)) /\ r.pc = "take" /\ UNCHANGED mutexes
        /\ r.processed = g - 1 /\ out' = [out EXCEPT ![p][y] = r.heap]
    BY <1>30 DEF Store, r, y
  <2>2. v = m /\ w = r.heap
    BY <1>12, <2>1
  <2>3. x = 0 /\ a = r
    BY <1>6, <1>8, <2>1
  <2>4. RowOK(k, g, N, y, r, m, o, G)
    BY <1>4, <2>3
  <2>. DEFINE n == NextRow(r)
  <2>5. Knows(e, c, n, out'[p][n.row]) /\ (n.row = y \/ (n.row = y + GridY /\ n.pc = "tile")) /\ Past(n, y)
    BY <1>2, <1>17, <1>c
  <2>9. Move(p, c, n)
    BY <2>1
  <2>. HIDE DEF n
  <2>10. /\ g \in Nat \ {0} /\ r.row = y /\ y \in Int /\ r.pc = "take" /\ r.processed = g - 1 /\ Past(n, y)
    BY <1>1, <1>c, <2>1, <2>5
  <2>6. RowOK(k, g, N, y, n, m, r.heap, G) /\ G = 1..(g - 1)
    BY <2>4, <2>10, RowStore
  <2>8. \A d \in DOMAIN f \ {c} : ~(f[d].row = y /\ f[d].pc = "release")
    <3>1. SUFFICES ASSUME NEW d \in DOMAIN f, f[d].row = y, f[d].pc = "release"
                   PROVE  FALSE
      OBVIOUS
    <3>2. d[1] \in G /\ d = <<d[1], y % e.y>>
      BY <1>1, <1>b, <2>6, <3>1
    <3>3. Past(f[d], y)
      BY <3>2 DEF Gave, G
    <3>. QED BY <1>18, <3>1, <3>3
  <2>7. Kept(n, n, G)
    BY <2>1, <2>2, <2>3, <2>5, <2>6, <2>8, <2>9 DEF Kept
  <2>. QED BY <1>13, <2>7
<1>. QED BY <1>20, <1>21, <1>22, <1>23, <1>24, <1>25, <1>27, <1>28, <1>29, <1>30 DEF Cta

(* A kernel that is launched has seen nothing, and no list is on its way.    *)
LEMMA LaunchGood ==
  ASSUME IInv, KernelTypes, NEW p \in Parts, LaunchKernel(p)
  PROVE  KernelGood(Shape(p), cta'[p], mutexes'[p], out[p])
<1>. DEFINE e == Shape(p)
            g == GridX(p)
            b == GridY
            f == [c \in Grid(p) |-> NewCta(c[1], c[2], "waiting")]
            m == [y \in Rows |-> 0]
            o == out[p]
<1>1. /\ e.k = k /\ e.x = g /\ e.y = b /\ e.rows = Rows
      /\ k \in Nat \ {0} /\ g \in Nat \ {0} /\ b \in Nat \ {0} /\ Rows \in SUBSET Nat
      /\ \A z \in Rows : SharesOf(e, z) = Shares(p, z)
      /\ dist \in Inputs /\ k \in Ks
  BY ShapeFacts DEF IInv, KernelTypes
<1>2. cta'[p] = f /\ mutexes'[p] = m
  <2>1. DOMAIN cta = Parts /\ DOMAIN mutexes = Parts
    BY DEF IInv, KernelTypes
  <2>. QED BY <2>1 DEF LaunchKernel
<1>3. DOMAIN f = (0..(g - 1)) \X (0..(b - 1)) /\ DOMAIN f = Grid(p)
  BY DEF Grid
<1>. HIDE DEF e, g, b
<1>4. ASSUME NEW c \in Grid(p)
      PROVE  f[c].row = c[2] /\ f[c].pc = "waiting" /\ \A q : Knows(e, c, f[c], q)
  <2>1. c[2] \in Nat /\ c[2] < b
    BY <1>1, <1>3
  <2>2. c[2] % b = c[2]
    <3>. DEFINE y == c[2]
    <3>1. y \in Nat /\ y < b
      BY <2>1
    <3>. HIDE DEF y
    <3>2. y % b = y
      BY <1>1, <3>1, ModAdd
    <3>. QED BY <3>2 DEF y
  <2>3. f[c] = NewCta(c[1], c[2], "waiting")
    OBVIOUS
  <2>4. \A q : Knows(e, c, NewCta(c[1], c[2], "waiting"), q)
    BY <1>1, <2>1, <2>2, Begins DEF e, b
  <2>. QED BY <2>3, <2>4 DEF NewCta
<1>. HIDE DEF f, m, o
<1>5. ASSUME NEW y \in Rows
      PROVE  RowOK(e.k, e.x, SharesOf(e, y), y, f[<<0, y % e.y>>], m[y], o[y], Gave(e, f, y))
  <2>. DEFINE z == y % b
  <2>1. y \in Nat
    BY <1>1
  <2>2. z \in 0..(b - 1) /\ z <= y
    <3>1. z \in 0..(b - 1)
      BY <1>1, <2>1, ModAdd
    <3>2. y < b => z = y
      BY <1>1, <2>1, ModAdd
    <3>. HIDE DEF z
    <3>. QED BY <1>1, <2>1, <3>1, <3>2
  <2>. HIDE DEF z
  <2>3. ASSUME NEW x \in 0..(g - 1)
        PROVE  f[<<x, z>>].row = z /\ f[<<x, z>>].pc = "waiting" /\ ~Past(f[<<x, z>>], y)
    <3>1. <<x, z>> \in Grid(p)
      BY <1>3, <2>2
    <3>2. f[<<x, z>>].row = z /\ f[<<x, z>>].pc = "waiting"
      BY <1>4, <3>1
    <3>. QED BY <2>1, <2>2, <3>2 DEF Past
  <2>4. Gave(e, f, y) = {}
    <3>1. \A x \in 1..(g - 1) : ~Past(f[<<x, z>>], y)
      BY <1>1, <2>3
    <3>. QED BY <1>1, <3>1 DEF Gave, z
  <2>5. ~Past(f[<<0, z>>], y) /\ ~Collects(f[<<0, z>>], y)
    BY <1>1, <2>3 DEF Collects
  <2>6. m[y] = 0
    BY DEF m
  <2>7. OnTheWay(k, g, SharesOf(e, y), y, f[<<0, z>>], m[y], o[y], {}, {}, {}, {})
    BY <2>5, <2>6 DEF OnTheWay, InHeap, InHand, InOutput
  <2>8. RowOK(k, g, SharesOf(e, y), y, f[<<0, z>>], m[y], o[y], {})
    <3>1. {} \in SUBSET (1..(g - 1))
      OBVIOUS
    <3>. QED BY <2>5, <2>7, <3>1 DEF RowOK
  <2>. QED BY <1>1, <2>4, <2>8 DEF z
<1>6. KernelGood(e, f, m, o)
  BY <1>1, <1>3, <1>4, <1>5 DEF KernelGood
<1>. QED BY <1>2, <1>6 DEF e, o

(* When all its CTAs are through, the output of every row is complete.       *)
LEMMA EndGood ==
  ASSUME IInv, KernelTypes, NEW p \in Parts, KernelGood(Shape(p), cta[p], mutexes[p], out[p]), Through(p),
         NEW y \in Rows
  PROVE  Ranked(k, out[p][y], Cand(dist, p, y, 0..(Size(p) - 1)))
<1>. DEFINE e == Shape(p)
            g == GridX(p)
            b == GridY
            f == cta[p]
            z == y % b
            r == f[<<0, z>>]
<1>1. /\ e.k = k /\ e.x = g /\ e.y = b /\ e.rows = Rows
      /\ k \in Nat \ {0} /\ g \in Nat \ {0} /\ b \in Nat \ {0} /\ Rows \in SUBSET Nat
      /\ SharesOf(e, y) = Shares(p, y) /\ dist \in Inputs
  BY ShapeFacts DEF IInv, KernelTypes
<1>2. /\ DOMAIN f = (0..(g - 1)) \X (0..(b - 1))
      /\ \A c \in DOMAIN f : Knows(e, c, f[c], out[p][f[c].row])
      /\ RowOK(k, g, Shares(p, y), y, f[<<0, y % e.y>>], mutexes[p][y], out[p][y], Gave(e, f, y))
  BY <1>1 DEF KernelGood
<1>3. Shares(p, y)[0..(g - 1)] = Cand(dist, p, y, 0..(Size(p) - 1))
  BY <1>1, SharesFacts
<1>. HIDE DEF e, g, b
<1>4. y \in Nat /\ z \in 0..(b - 1) /\ <<0, z>> \in DOMAIN f
  <2>1. y \in Nat
    BY <1>1
  <2>2. z \in 0..(b - 1)
    BY <1>1, <2>1, ModAdd
  <2>. QED BY <1>1, <1>2, <2>1, <2>2
<1>5. r.pc = "end" /\ r.row \in Rows /\ r.row \in Nat /\ r.row % b = z /\ r.row + b \notin Rows
  <2>1. r.pc = "end"
    BY <1>4 DEF Through
  <2>2. Knows(e, <<0, z>>, r, out[p][r.row])
    BY <1>2, <1>4
  <2>3. r.row % b = z /\ r.row + b \notin Rows
    BY <1>1, <2>1, <2>2 DEF Knows
  <2>4. r.row \in Rows
    BY <1>4 DEF KernelTypes, CtasOK, CtaType
  <2>. QED BY <1>1, <2>1, <2>3, <2>4
<1>6. r.row >= y
  <2>. DEFINE q == r.row
  <2>1. q \in Nat /\ y \in Nat /\ b \in Nat \ {0} /\ q % b = y % b /\ y \in Rows /\ q + b \notin Rows
    BY <1>1, <1>4, <1>5
  <2>. HIDE DEF q, z
  <2>2. q < y => y - q >= b
    BY <2>1, ModGap
  <2>3. q + b <= y => q + b \in Rows
    <3>1. Len(dist[1]) \in Nat
      BY <1>1, Shapes
    <3>. QED BY <2>1, <3>1 DEF Rows
  <2>4. q >= y
    BY <2>1, <2>2, <2>3
  <2>. QED BY <2>4 DEF q
<1>7. Past(r, y)
  BY <1>4, <1>5, <1>6 DEF Past
<1>8. Ranked(k, out[p][y], Shares(p, y)[0..(g - 1)])
  BY <1>1, <1>2, <1>7 DEF RowOK
<1>. QED BY <1>3, <1>8 DEF g

-----------------------------------------------------------------------------
(* The order of the work: what is queued waits for the transposition of the  *)
(* queries, the merge comes last, and a kernel runs while its search is      *)
(* first in a queue.                                                         *)
Heads(q, s, ops) == q[s] # <<>> /\ Head(q[s])[1] \in ops
Waits ==
  /\ host = "start" => i = 0 /\ \A s \in Streams : queue[s] = <<>>
  /\ host # "start" /\ ~prepared => \A s \in Streams : Heads(queue, s, {"transpose", "wait"})
MergeLast ==
  /\ host = "returned" => i = Len(dist) /\ \A s \in Streams \ {0} : queue[s] = <<>>
  /\ \A s \in Streams : \A a \in DOMAIN queue[s] :
       queue[s][a] = <<"merge">> => host = "returned" /\ s = 0 /\ a = Len(queue[s])
Runs ==
  \A p \in ToSet(running) : /\ metric # "tiled"
                            /\ \E s \in Streams : queue[s] # <<>> /\ Head(queue[s]) = <<"search", p>>
RootTaken ==
  /\ metric # "fused_sqrt" => roots = 0 /\ \A p \in Parts : ~Queued(queue, <<"root", p>>)
  /\ metric = "fused_sqrt" /\ ~Several => roots = IF i = 0 \/ Queued(queue, <<"root", 0>>) THEN 0 ELSE 1
OrderInv == Waits /\ MergeLast /\ Runs /\ RootTaken

(* What has been found: the kernels on the device are on their way, a part   *)
(* that was searched has its nearest, and so has the result when the parts   *)
(* were merged.                                                              *)
OfPart(p, y) == Cand(dist, p, y, 0..(Size(p) - 1))
Answers(p) ==
  \A y \in Rows : /\ Best(k, out[p][y], OfPart(p, y))
                  /\ Several \/ Translated => Blank(k, out[p][y], OfPart(p, y))
KernelsGood == \A p \in ToSet(running) : KernelGood(Shape(p), cta[p], mutexes[p], out[p])
Searched == \A p \in 0..(i - 1) : ~Queued(queue, <<"search", p>>) => Answers(p)
Merged == host = "returned" /\ (Several \/ Translated) /\ ~Queued(queue, <<"merge">>) =>
            \A y \in Rows : Best(k, res[y], All(y))

(* While a part is searched by tiles the neighbors of all tiles that were    *)
(* copied are in its memory, and those of the last one in its output.        *)
ColsOf(p, t) == {d \in 0..(Size(p) - 1) : d \div Cols(p) = t}
OfTile(p, y, t) == Cand(dist, p, y, ColsOf(p, t))
Tiling(p) ==
  /\ Split(p) => copied[p] \in {selected[p] - 1, selected[p]}
  /\ \A t \in 0..(copied[p] - 1), y \in Rows : Ranked(k, temp[p][t][y], OfTile(p, y, t))
  /\ selected[p] # 0 /\ (Split(p) => copied[p] # selected[p]) =>
       \A y \in Rows : Ranked(k, out[p][y], OfTile(p, y, selected[p] - 1))
Tilings == metric = "tiled" => \A p \in Parts : Queued(queue, <<"search", p>>) => Tiling(p)
FoundInv == KernelsGood /\ Searched /\ Merged /\ Tilings

-----------------------------------------------------------------------------
(* The head of a queue.                                                      *)
LEMMA HeadFirst ==
  ASSUME NEW W, NEW z \in Seq(W)
  PROVE  /\ z # <<>> <=> 1 \in DOMAIN z
         /\ z # <<>> => Head(z) = z[1] /\ Len(z) \in Nat \ {0}
         /\ DOMAIN z = 1..Len(z)
OBVIOUS

(* An input that has not several parts has one.                              *)
LEMMA OnePart ==
  ASSUME dist \in Inputs, ~Several
  PROVE  Len(dist) = 1 /\ Parts = {0}
<1>1. Len(dist) \in Nat \ {0}
  BY GridRows
<1>2. Cardinality(Parts) = Len(dist)
  BY <1>1, Interval DEF Parts
<1>. QED BY <1>1, <1>2 DEF Several, Parts

(* At the start nothing is queued.                                           *)
LEMMA OrderInit == Init => OrderInv
<1>. SUFFICES ASSUME Init PROVE OrderInv
  OBVIOUS
<1>1. /\ host = "start" /\ i = 0 /\ queue = [s \in Streams |-> <<>>]
      /\ roots = 0 /\ running = <<>>
  BY DEF Init, KernelInit
<1>2. \A op : ~Queued(queue, op)
  BY <1>1 DEF Queued
<1>3. ToSet(running) = {}
  BY <1>1 DEF ToSet
<1>4. Waits
  BY <1>1 DEF Waits
<1>5. MergeLast
  BY <1>1 DEF MergeLast
<1>6. Runs
  BY <1>3 DEF Runs
<1>7. RootTaken
  BY <1>1, <1>2 DEF RootTaken
<1>. QED BY <1>4, <1>5, <1>6, <1>7 DEF OrderInv

(* What is first in a queue is done.                                         *)
PopStep(s) ==
  /\ s \in Streams /\ queue[s] # <<>> /\ Pop(s) /\ UNCHANGED <<dist, request, host, i>>
  /\ prepared' = TRUE
  /\ ToSet(running') \subseteq {p \in ToSet(running) : Head(queue[s]) # <<"search", p>>}
  /\ \/ Head(queue[s])[1] = "root" /\ roots' = roots + 1
     \/ Head(queue[s])[1] # "root" /\ (roots' = roots \/ (Several /\ roots' = 0))

(* What is first in a queue is done: the order stays.                        *)
LEMMA OrderPop ==
  ASSUME dist \in Inputs, QueueTypes, OrderInv, NEW s, PopStep(s)
  PROVE  OrderInv'
<1>. DEFINE W == Work(i)
<1>1. /\ s \in Streams /\ queue \in [Streams -> Seq(W)] /\ Popped(queue, s, queue')
      /\ Streams' = Streams /\ Parts' = Parts /\ (Several <=> Several') /\ Once(queue)
      /\ dist' = dist /\ metric' = metric /\ host' = host /\ i' = i
  BY DEF PopStep, Pop, Popped, QueueTypes, Streams, Parts, Several, request
<1>2. /\ queue' \in [Streams -> Seq(W)]
      /\ Head(queue[s]) \in W /\ queue[s][1] = Head(queue[s])
      /\ \A t \in Streams \ {s} : queue'[t] = queue[t]
      /\ Len(queue[s]) \in Nat \ {0} /\ Len(queue'[s]) = Len(queue[s]) - 1
      /\ \A t \in Streams : DOMAIN queue[t] = 1..Len(queue[t]) /\ DOMAIN queue'[t] = 1..Len(queue'[t])
      /\ \A a \in 1..(Len(queue[s]) - 1) : queue'[s][a] = queue[s][a + 1]
  BY <1>1, PopFacts
<1>3. /\ \A op : Queued(queue', op) => Queued(queue, op)
      /\ \A op : Queued(queue, op) /\ op # Head(queue[s]) => Queued(queue', op)
      /\ Head(queue[s]) \in Parted => ~Queued(queue', Head(queue[s]))
  BY <1>1, PopOnce
<1>. HIDE DEF W
<1>4. Waits'
  <2>1. host # "start" /\ prepared' = TRUE
    BY DEF PopStep, OrderInv, Waits
  <2>. QED BY <1>1, <2>1 DEF Waits
<1>5. MergeLast'
  <2>1. host = "returned" => i = Len(dist) /\ \A t \in Streams \ {0} : queue'[t] = <<>>
    BY <1>1, <1>2 DEF OrderInv, MergeLast, PopStep
  <2>2. ASSUME NEW t \in Streams, NEW a \in DOMAIN queue'[t], queue'[t][a] = <<"merge">>
        PROVE  host = "returned" /\ t = 0 /\ a = Len(queue'[t])
    <3>1. CASE t # s
      BY <1>2, <2>2, <3>1 DEF OrderInv, MergeLast
    <3>2. CASE t = s
      <4>1. a \in 1..(Len(queue[s]) - 1) /\ a + 1 \in DOMAIN queue[s] /\ queue[s][a + 1] = <<"merge">>
        BY <1>1, <1>2, <2>2, <3>2
      <4>2. host = "returned" /\ s = 0 /\ a + 1 = Len(queue[s])
        BY <1>1, <4>1 DEF OrderInv, MergeLast
      <4>. QED BY <1>2, <3>2, <4>1, <4>2
    <3>. QED BY <3>1, <3>2
  <2>. QED BY <1>1, <2>1, <2>2 DEF MergeLast
<1>6. Runs'
  <2>1. SUFFICES ASSUME NEW p \in ToSet(running')
                 PROVE  metric # "tiled" /\ \E t \in Streams : queue'[t] # <<>> /\ Head(queue'[t]) = <<"search", p>>
    BY <1>1 DEF Runs
  <2>2. p \in ToSet(running) /\ Head(queue[s]) # <<"search", p>>
    BY DEF PopStep
  <2>3. metric # "tiled" /\ \E t \in Streams : queue[t] # <<>> /\ Head(queue[t]) = <<"search", p>>
    BY <2>2 DEF OrderInv, Runs
  <2>. QED BY <1>2, <2>2, <2>3
<1>7. RootTaken'
  <2>1. CASE metric # "fused_sqrt"
    <3>1. roots = 0 /\ \A p \in Parts : ~Queued(queue, <<"root", p>>)
      BY <2>1 DEF OrderInv, RootTaken
    <3>2. Head(queue[s])[1] # "root"
      <4>1. Queued(queue, Head(queue[s]))
        BY <1>1, <1>2 DEF Queued
      <4>2. SUFFICES ASSUME Head(queue[s])[1] = "root" PROVE FALSE
        OBVIOUS
      <4>3. PICK p \in 0..(i - 1) : Head(queue[s]) = <<"root", p>>
        BY <1>2, <4>2 DEF Work, W
      <4>4. p \in Parts
        BY GridRows DEF Parts, QueueTypes
      <4>. QED BY <3>1, <4>1, <4>3, <4>4
    <3>3. roots' = 0
      BY <3>1, <3>2 DEF PopStep
    <3>. QED BY <1>1, <1>3, <2>1, <3>1, <3>3 DEF RootTaken
  <2>2. CASE metric = "fused_sqrt" /\ ~Several
    <3>. DEFINE op == <<"root", 0>>
    <3>1. roots = IF i = 0 \/ Queued(queue, op) THEN 0 ELSE 1
      BY <2>2 DEF OrderInv, RootTaken
    <3>2. Parts = {0} /\ i \in 0..1
      BY <2>2, OnePart DEF QueueTypes
    <3>3. Head(queue[s]) = op => Queued(queue, op) /\ ~Queued(queue', op)
      <4>1. Queued(queue, Head(queue[s]))
        BY <1>1, <1>2 DEF Queued
      <4>2. op \in Parted
        BY DEF Parted
      <4>. HIDE DEF op
      <4>. QED BY <1>3, <4>1, <4>2
    <3>4. Head(queue[s]) # op => (Queued(queue', op) <=> Queued(queue, op))
      BY <1>3
    <3>5. Head(queue[s])[1] = "root" => Head(queue[s]) = op /\ i # 0
      <4>1. ASSUME Head(queue[s])[1] = "root" PROVE Head(queue[s]) \in {"search", "root", "copies"} \X (0..(i - 1))
        BY <1>2, <4>1 DEF Work, W
      <4>. QED BY <3>2, <4>1
    <3>. HIDE DEF op
    <3>6. roots' = IF i = 0 \/ Queued(queue', op) THEN 0 ELSE 1
      <4>1. CASE Head(queue[s])[1] = "root"
        <5>1. roots' = roots + 1
          BY <4>1 DEF PopStep
        <5>. QED BY <3>1, <3>3, <3>5, <4>1, <5>1
      <4>2. CASE Head(queue[s])[1] # "root"
        <5>1. roots' = roots
          BY <2>2, <4>2 DEF PopStep
        <5>2. Head(queue[s]) # op
          BY <4>2 DEF op
        <5>. QED BY <3>1, <3>4, <5>1, <5>2
      <4>. QED BY <4>1, <4>2
    <3>. QED BY <1>1, <2>2, <3>6 DEF RootTaken, op
  <2>3. CASE metric = "fused_sqrt" /\ Several
    BY <1>1, <2>3 DEF RootTaken
  <2>. QED BY <2>1, <2>2, <2>3
<1>. QED BY <1>4, <1>5, <1>6, <1>7 DEF OrderInv

(* The host begins: all queues wait for the transposition.                   *)
LEMMA OrderPrepare ==
  ASSUME dist \in Inputs, QueueTypes, OrderInv, Prepare
  PROVE  OrderInv'
<1>1. /\ host' = "parts" /\ UNCHANGED <<dist, metric, pool, running, i, prepared, roots>>
      /\ queue' = [s \in Streams |-> IF s = 0 THEN <<<<"transpose">>>> ELSE <<<<"wait">>>>]
      /\ Streams' = Streams /\ Parts' = Parts /\ (Several' <=> Several)
  BY DEF Prepare, input, kernels, request, Streams, Parts, Several
<1>2. \A s \in Streams : /\ queue'[s] # <<>> /\ Head(queue'[s])[1] \in {"transpose", "wait"}
                         /\ \A a \in DOMAIN queue'[s] : queue'[s][a] \in {<<"transpose">>, <<"wait">>}
  BY <1>1
<1>3. i = 0 /\ \A s \in Streams : queue[s] = <<>>
  BY DEF OrderInv, Waits, Prepare
<1>4. Waits'
  BY <1>1, <1>2 DEF Waits, Heads
<1>5. MergeLast'
  <2>1. \A s \in Streams : \A a \in DOMAIN queue'[s] : queue'[s][a] # <<"merge">>
    BY <1>2
  <2>. QED BY <1>1, <2>1 DEF MergeLast
<1>6. Runs'
  <2>1. ToSet(running) = {}
    BY <1>3 DEF OrderInv, Runs
  <2>. QED BY <1>1, <2>1 DEF Runs, ToSet
<1>7. RootTaken'
  <2>1. \A p : ~Queued(queue', <<"root", p>>)
    <3>1. SUFFICES ASSUME NEW p, NEW s \in Streams, NEW a \in DOMAIN queue'[s], queue'[s][a] = <<"root", p>>
                   PROVE  FALSE
      BY <1>1 DEF Queued
    <3>. QED BY <1>2, <3>1
  <2>. QED BY <1>1, <1>3, <2>1 DEF OrderInv, RootTaken
<1>. QED BY <1>4, <1>5, <1>6, <1>7 DEF OrderInv

(* More work is queued.                                                      *)
Keeps(q, r) == \A s \in Streams : \A a \in DOMAIN q[s] : a \in DOMAIN r[s] /\ r[s][a] = q[s][a]

(* What is first stays first when more is queued.                            *)
LEMMA HeadsKept ==
  ASSUME NEW W, NEW q \in [Streams -> Seq(W)], NEW r \in [Streams -> Seq(W)], Keeps(q, r), NEW s \in Streams,
         q[s] # <<>>
  PROVE  r[s] # <<>> /\ Head(r[s]) = Head(q[s])
<1>1. 1 \in DOMAIN q[s] /\ Head(q[s]) = q[s][1]
  BY HeadFirst
<1>2. 1 \in DOMAIN r[s] /\ r[s][1] = q[s][1]
  BY <1>1 DEF Keeps
<1>. QED BY <1>1, <1>2, HeadFirst

(* The order when more is queued.                                            *)
LEMMA OrderKept ==
  ASSUME OrderInv, NEW W, queue \in [Streams -> Seq(W)], queue' \in [Streams -> Seq(W)], Keeps(queue, queue'),
         UNCHANGED <<metric, pool, running, prepared>>, host # "start", host' # "start"
  PROVE  Waits' /\ Runs'
<1>1. \A s \in Streams : queue[s] # <<>> => queue'[s] # <<>> /\ Head(queue'[s]) = Head(queue[s])
  BY HeadsKept
<1>2. Streams' = Streams /\ ToSet(running') = ToSet(running)
  BY DEF Streams, ToSet
<1>3. Waits'
  BY <1>1, <1>2 DEF OrderInv, Waits, Heads
<1>4. Runs'
  BY <1>1, <1>2 DEF OrderInv, Runs
<1>. QED BY <1>3, <1>4

(* The search of a part is queued.                                           *)
LEMMA OrderSearch ==
  ASSUME dist \in Inputs, QueueTypes, OrderInv, SearchPart
  PROVE  OrderInv'
<1>1. /\ host = "parts" /\ host' = "parts" /\ i \in Parts /\ i' = i + 1
      /\ UNCHANGED <<dist, metric, pool, running, prepared, roots>>
      /\ Parts' = Parts /\ (Several' <=> Several)
  BY DEF SearchPart, input, kernels, request, Parts, Several
<1>2. /\ i \in Nat /\ Streams' = Streams
      /\ queue' \in [Streams -> Seq(Work(i'))]
      /\ Keeps(queue, queue')
      /\ \A s \in Streams : \A a \in DOMAIN queue'[s] :
           a \in DOMAIN queue[s] \/ queue'[s][a] \in {<<"search", i>>, <<"root", i>>, <<"copies", i>>}
      /\ \A op : Queued(queue', op) <=>
            \/ Queued(queue, op) \/ op = <<"search", i>>
            \/ metric = "fused_sqrt" /\ op = <<"root", i>>
            \/ Apart(i) /\ op = <<"copies", i>>
  BY SearchPartQueue DEF Keeps
<1>3. queue \in [Streams -> Seq(Work(i'))]
  <2>. DEFINE V == Work(i)
              W == Work(i')
  <2>1. V \subseteq W
    BY <1>1, <1>2 DEF Work
  <2>2. queue \in [Streams -> Seq(V)]
    BY DEF QueueTypes
  <2>. HIDE DEF V, W
  <2>3. \A s \in Streams : queue[s] \in Seq(W)
    BY <2>1, <2>2
  <2>4. queue \in [Streams -> Seq(W)]
    BY <2>2, <2>3
  <2>. QED BY <2>4 DEF W
<1>4. Waits' /\ Runs'
  BY <1>1, <1>2, <1>3, OrderKept
<1>5. MergeLast'
  <2>1. ASSUME NEW s \in Streams, NEW a \in DOMAIN queue'[s], queue'[s][a] = <<"merge">>
        PROVE  FALSE
    <3>1. a \in DOMAIN queue[s]
      BY <1>2, <2>1
    <3>2. queue[s][a] = <<"merge">>
      BY <1>2, <2>1, <3>1 DEF Keeps
    <3>. QED BY <1>1, <3>1, <3>2 DEF OrderInv, MergeLast
  <2>. QED BY <1>1, <1>2, <2>1 DEF MergeLast
<1>6. RootTaken'
  <2>1. CASE metric # "fused_sqrt"
    <3>1. \A p \in Parts : Queued(queue', <<"root", p>>) => Queued(queue, <<"root", p>>)
      BY <1>2, <2>1
    <3>. QED BY <1>1, <2>1, <3>1 DEF OrderInv, RootTaken
  <2>2. CASE metric = "fused_sqrt" /\ ~Several
    <3>1. i = 0
      BY <1>1, <2>2, OnePart
    <3>2. Queued(queue', <<"root", 0>>) /\ roots = 0
      BY <1>2, <2>2, <3>1 DEF OrderInv, RootTaken
    <3>. QED BY <1>1, <2>2, <3>1, <3>2 DEF RootTaken
  <2>3. CASE metric = "fused_sqrt" /\ Several
    BY <1>1, <2>3 DEF RootTaken
  <2>. QED BY <2>1, <2>2, <2>3
<1>. QED BY <1>4, <1>5, <1>6 DEF OrderInv

(* The host has waited: only the queue of the user may hold work, and the    *)
(* merge is its last.                                                        *)
LEMMA OrderSync ==
  ASSUME dist \in Inputs, QueueTypes, OrderInv, SyncStreamPool
  PROVE  /\ OrderInv'
         /\ \A op : Queued(queue', op) <=> Queued(queue, op) \/ (op = <<"merge">> /\ (Several \/ Translated))
<1>. DEFINE W == Work(i)
            x == <<"merge">>
            Merges == Several \/ Translated
<1>1. /\ host = "parts" /\ host' = "returned" /\ UNCHANGED <<dist, metric, pool, running, i, prepared, roots>>
      /\ Parts' = Parts /\ (Several' <=> Several) /\ Streams' = Streams
      /\ \A s \in Streams \ {0} : queue[s] = <<>>
      /\ i = Len(dist) /\ 0 \in Streams /\ Once(queue) /\ queue \in [Streams -> Seq(W)] /\ x \in W
  <2>1. i = Len(dist)
    BY GridRows DEF SyncStreamPool, QueueTypes, Parts
  <2>2. 0 \in Streams
    BY HostAssumption DEF Streams, QueueTypes
  <2>. QED BY <2>1, <2>2 DEF SyncStreamPool, input, kernels, request, Parts, Several, Streams, QueueTypes, Work
<1>2. IF Merges THEN Added(queue, 0, x, queue') ELSE queue' = queue
  BY DEF SyncStreamPool, Added
<1>3. x \notin Parted
  BY DEF Parted
<1>. HIDE DEF W, x, Merges
<1>4. /\ queue' \in [Streams -> Seq(W)] /\ Keeps(queue, queue')
      /\ \A s \in Streams \ {0} : queue'[s] = <<>>
      /\ \A a \in DOMAIN queue'[0] : queue'[0][a] = x => a \in DOMAIN queue[0] \/ a = Len(queue'[0])
      /\ \A op : Queued(queue', op) <=> Queued(queue, op) \/ (op = x /\ Merges)
  <2>1. CASE Merges
    <3>1. /\ queue' \in [Streams -> Seq(W)]
          /\ \A t \in Streams \ {0} : queue'[t] = queue[t]
          /\ Len(queue[0]) \in Nat /\ Len(queue'[0]) = Len(queue[0]) + 1
          /\ \A t \in Streams : DOMAIN queue[t] = 1..Len(queue[t]) /\ DOMAIN queue'[t] = 1..Len(queue'[t])
          /\ \A a \in 1..Len(queue[0]) : queue'[0][a] = queue[0][a]
      BY <1>1, <1>2, <2>1, AddFacts
    <3>2. \A op : Queued(queue', op) <=> Queued(queue, op) \/ op = x
      BY <1>1, <1>2, <1>3, <2>1, AddOnce
    <3>3. Keeps(queue, queue')
      <4>1. ASSUME NEW s \in Streams, NEW a \in DOMAIN queue[s]
            PROVE  a \in DOMAIN queue'[s] /\ queue'[s][a] = queue[s][a]
        <5>1. CASE s = 0
          BY <3>1, <5>1
        <5>2. CASE s # 0
          BY <3>1, <5>2
        <5>. QED BY <5>1, <5>2
      <4>. QED BY <4>1 DEF Keeps
    <3>4. \A s \in Streams \ {0} : queue'[s] = <<>>
      BY <1>1, <3>1
    <3>5. \A a \in DOMAIN queue'[0] : a \in DOMAIN queue[0] \/ a = Len(queue'[0])
      BY <1>1, <3>1
    <3>. QED BY <2>1, <3>1, <3>2, <3>3, <3>4, <3>5
  <2>2. CASE ~Merges
    BY <1>1, <1>2, <2>2 DEF Keeps
  <2>. QED BY <2>1, <2>2
<1>5. Waits' /\ Runs'
  BY <1>1, <1>4, OrderKept
<1>6. MergeLast'
  <2>1. \A s \in Streams : \A a \in DOMAIN queue[s] : queue[s][a] # x
    BY <1>1 DEF OrderInv, MergeLast, x
  <2>2. ASSUME NEW s \in Streams, NEW a \in DOMAIN queue'[s], queue'[s][a] = x
        PROVE  s = 0 /\ a = Len(queue'[s])
    <3>1. s = 0
      BY <1>4, <2>2
    <3>2. a \notin DOMAIN queue[0]
      BY <1>1, <1>4, <2>1, <2>2, <3>1 DEF Keeps
    <3>. QED BY <1>4, <2>2, <3>1, <3>2
  <2>. QED BY <1>1, <1>4, <2>2 DEF MergeLast, x
<1>7. RootTaken'
  <2>1. \A p : Queued(queue', <<"root", p>>) <=> Queued(queue, <<"root", p>>)
    <3>1. \A p : <<"root", p>> # x
      BY DEF x
    <3>. QED BY <1>4, <3>1
  <2>. QED BY <1>1, <2>1 DEF OrderInv, RootTaken
<1>. QED BY <1>4, <1>5, <1>6, <1>7 DEF OrderInv, x, Merges

-----------------------------------------------------------------------------
(* The tiles of columns are disjoint, and together all.                      *)
LEMMA ColsFacts ==
  ASSUME dist \in Inputs, k \in Ks, NEW p \in Parts
  PROVE  /\ Cols(p) \in Nat \ {0} /\ Tiles(p) \in Nat \ {0}
         /\ \A t \in Nat : ColsOf(p, t) \in SUBSET (0..(Size(p) - 1))
         /\ \A t, u \in Nat : t # u => ColsOf(p, t) \cap ColsOf(p, u) = {}
         /\ \A c \in 0..(Size(p) - 1) : \E t \in 0..(Tiles(p) - 1) : c \in ColsOf(p, t)
<1>. DEFINE n == Size(p)
            b == Cols(p)
            T == CeilDiv(n, b)
<1>1. n \in Nat \ {0} /\ b \in Nat \ {0}
  BY TileShape, Shapes
<1>. HIDE DEF n, b
<1>2. T \in Nat \ {0}
  BY <1>1, CeilDivFacts
<1>3. n <= T * b
  <2>. DEFINE a == n + b - 1
              v == a \div b
  <2>1. a \in Nat /\ a = n + b - 1
    BY <1>1
  <2>. HIDE DEF a
  <2>2. v \in Int /\ b * v <= a /\ a < b * v + b
    BY <1>1, <2>1
  <2>3. v = T
    BY DEF CeilDiv, a
  <2>. HIDE DEF v
  <2>4. b * v = v * b
    BY <1>1, <2>2
  <2>. HIDE DEF T
  <2>. QED BY <1>1, <1>2, <2>1, <2>2, <2>3, <2>4
<1>. HIDE DEF T
<1>4. ASSUME NEW c \in 0..(n - 1)
      PROVE  \E t \in 0..(T - 1) : c \in ColsOf(p, t)
  <2>1. c \in Nat /\ c < T * b
    <3>. DEFINE w == T * b
    <3>1. w \in Int /\ n <= w
      BY <1>1, <1>2, <1>3
    <3>. HIDE DEF w
    <3>2. c \in Nat /\ c < w
      BY <1>1, <3>1
    <3>. QED BY <3>2 DEF w
  <2>2. c \div b \in Nat /\ c \div b < T
    BY <1>1, <1>2, <2>1, DivFacts
  <2>3. c \div b \in 0..(T - 1)
    <3>. DEFINE u == c \div b
    <3>1. u \in Nat /\ u < T
      BY <2>2
    <3>. HIDE DEF u
    <3>2. u \in 0..(T - 1)
      BY <1>2, <3>1
    <3>. QED BY <3>2 DEF u
  <2>4. c \in ColsOf(p, c \div b)
    BY DEF ColsOf, n, b
  <2>. QED BY <2>3, <2>4
<1>5. \A t, u \in Nat : t # u => ColsOf(p, t) \cap ColsOf(p, u) = {}
  BY DEF ColsOf
<1>6. T = Tiles(p)
  BY DEF T, Tiles, n, b
<1>. QED BY <1>1, <1>2, <1>4, <1>5, <1>6 DEF ColsOf, n, b

(* The neighbors of a tile, and those of all columns.                        *)
LEMMA TileSets ==
  ASSUME dist \in Inputs, k \in Ks, NEW p \in Parts, NEW y \in Rows
  PROVE  /\ \A t \in Nat : /\ OfTile(p, y, t) \in SUBSET (Int \X Int) /\ IsFiniteSet(OfTile(p, y, t))
                           /\ \A e \in OfTile(p, y, t) : Near(e)
         /\ \A t, u \in Nat : t # u => OfTile(p, y, t) \cap OfTile(p, y, u) = {}
         /\ OfPart(p, y) = UNION {OfTile(p, y, t) : t \in 0..(Tiles(p) - 1)}
         /\ OfPart(p, y) \in SUBSET (Int \X Int) /\ IsFiniteSet(OfPart(p, y))
         /\ Cardinality(OfPart(p, y)) = Size(p)
<1>1. Size(p) \in Nat \ {0}
  BY Shapes
<1>2. /\ Tiles(p) \in Nat \ {0}
      /\ \A t \in Nat : ColsOf(p, t) \in SUBSET (0..(Size(p) - 1))
      /\ \A t, u \in Nat : t # u => ColsOf(p, t) \cap ColsOf(p, u) = {}
      /\ \A c \in 0..(Size(p) - 1) : \E t \in 0..(Tiles(p) - 1) : c \in ColsOf(p, t)
  BY ColsFacts
<1>3. ASSUME NEW t \in Nat
      PROVE  /\ OfTile(p, y, t) \in SUBSET (Int \X Int) /\ IsFiniteSet(OfTile(p, y, t))
             /\ \A e \in OfTile(p, y, t) : Near(e)
  <2>. DEFINE C == ColsOf(p, t)
  <2>1. C \in SUBSET (0..(Size(p) - 1)) /\ OfTile(p, y, t) = Cand(dist, p, y, C)
    BY <1>2 DEF OfTile
  <2>. HIDE DEF C
  <2>. QED BY <2>1, CandFacts
<1>4. ASSUME NEW t \in Nat, NEW u \in Nat, t # u
      PROVE  OfTile(p, y, t) \cap OfTile(p, y, u) = {}
  <2>1. ColsOf(p, t) \cap ColsOf(p, u) = {}
    BY <1>2, <1>4
  <2>. QED BY <2>1 DEF OfTile, Cand
<1>5. /\ OfPart(p, y) \in SUBSET (Int \X Int) /\ IsFiniteSet(OfPart(p, y))
      /\ Cardinality(OfPart(p, y)) = Size(p)
  <2>. DEFINE C == 0..(Size(p) - 1)
  <2>1. Cardinality(C) = Size(p)
    BY <1>1, Interval
  <2>2. C \in SUBSET (0..(Size(p) - 1)) /\ OfPart(p, y) = Cand(dist, p, y, C)
    BY DEF OfPart
  <2>. HIDE DEF C
  <2>. QED BY <1>1, <2>1, <2>2, CandFacts
<1>6. OfPart(p, y) = UNION {OfTile(p, y, t) : t \in 0..(Tiles(p) - 1)}
  <2>1. \A t \in 0..(Tiles(p) - 1) : OfTile(p, y, t) \subseteq OfPart(p, y)
    BY <1>2 DEF OfPart, OfTile, Cand
  <2>2. ASSUME NEW e \in OfPart(p, y)
        PROVE  \E t \in 0..(Tiles(p) - 1) : e \in OfTile(p, y, t)
    <3>1. PICK c \in 0..(Size(p) - 1) : e = <<dist[p + 1][y + 1][c + 1], c>>
      BY DEF OfPart, Cand
    <3>2. PICK t \in 0..(Tiles(p) - 1) : c \in ColsOf(p, t)
      BY <1>2
    <3>. QED BY <3>1, <3>2 DEF OfTile, Cand
  <2>. QED BY <2>1, <2>2
<1>. QED BY <1>3, <1>4, <1>5, <1>6

(* What select_k finds of a tile are its nearest.                            *)
LEMMA TileBest ==
  ASSUME IInv, TypeInv, prepared, NEW p \in Parts, NEW y \in Rows, NEW t \in Nat
  PROVE  Ranked(k, TileNearest(p, y, t), OfTile(p, y, t))
<1>. DEFINE C == ColsOf(p, t)
            R == OfTile(p, y, t)
            a == [c \in C |-> <<Distance(p, y, c), c>>]
<1>1. k \in Nat \ {0} /\ k \in Ks /\ dist \in Inputs /\ Size(p) \in Nat \ {0}
  BY KernelAssumption, Shapes DEF TypeInv, KernelTypes, IInv
<1>2. C \in SUBSET (0..(Size(p) - 1)) /\ R = Cand(dist, p, y, C)
  BY DEF ColsOf, OfTile
<1>3. R \in SUBSET (Int \X Int) /\ IsFiniteSet(R) /\ \A e \in R : Near(e)
  BY <1>1, TileSets
<1>4. TileNearest(p, y, t) = Nearest(a)
  BY DEF TileNearest, a, C, ColsOf
<1>. HIDE DEF C, R
<1>5. IsFiniteSet(C)
  BY <1>1, <1>2, Interval, FS_Subset
<1>6. DOMAIN a = C /\ \A c \in C : a[c] = <<dist[p + 1][y + 1][c + 1], c>>
  BY DEF Distance, Distances
<1>7. /\ \A c \in C : a[c] \in R
      /\ \A e \in R : \E c \in C : a[c] = e
      /\ \A c, d \in C : a[c] = a[d] => c = d
  BY <1>2, <1>6 DEF Cand
<1>. HIDE DEF a
<1>8. Found(a) = C
  BY <1>3, <1>6, <1>7 DEF Found
<1>9. Ranked(k, Nearest(a), R)
  <2>1. \A j \in DOMAIN a : a[j] \in Int \X Int
    BY <1>3, <1>6, <1>7
  <2>2. \A j \in Found(a) : a[j] \in R
    BY <1>7, <1>8
  <2>3. \A h, j \in Found(a) : a[h] = a[j] => h = j
    BY <1>7, <1>8
  <2>4. \A e \in R : Cardinality(Lower(R, e)) < k => \E j \in Found(a) : a[j] = e
    BY <1>7, <1>8
  <2>5. IsFiniteSet(DOMAIN a)
    BY <1>5, <1>6
  <2>. QED BY <1>1, <1>3, <2>1, <2>2, <2>3, <2>4, <2>5, NearestOf
<1>. QED BY <1>4, <1>9 DEF R

(* The nearest of the nearest of the tiles are the nearest of the part.      *)
LEMMA SelectionBest ==
  ASSUME IInv, TypeInv, NEW p \in Parts, NEW y \in Rows,
         \A t \in 0..(Tiles(p) - 1) : Ranked(k, temp[p][t][y], OfTile(p, y, t))
  PROVE  Ranked(k, Selection(p, y), OfPart(p, y))
<1>1. k \in Nat \ {0} /\ k \in Ks /\ dist \in Inputs /\ Tiles(p) \in Nat \ {0}
  BY KernelAssumption, TileShape DEF TypeInv, KernelTypes, IInv
<1>. DEFINE I == 0..(Tiles(p) - 1)
            Q == [t \in I |-> OfTile(p, y, t)]
            A == [t \in I |-> temp[p][t][y]]
            s == [q \in I \X Ranks |-> temp[p][q[1]][y][q[2]]]
            S == OfPart(p, y)
<1>2. /\ \A t \in Nat : /\ OfTile(p, y, t) \in SUBSET (Int \X Int) /\ IsFiniteSet(OfTile(p, y, t))
                        /\ \A e \in OfTile(p, y, t) : Near(e)
      /\ \A t, u \in Nat : t # u => OfTile(p, y, t) \cap OfTile(p, y, u) = {}
      /\ S = UNION {OfTile(p, y, t) : t \in I}
      /\ S \in SUBSET (Int \X Int) /\ IsFiniteSet(S)
  BY <1>1, TileSets
<1>3. I \in SUBSET Nat /\ IsFiniteSet(I)
  BY <1>1, Interval
<1>4. ASSUME NEW t \in I
      PROVE  /\ Q[t] \in SUBSET (Int \X Int) /\ IsFiniteSet(Q[t]) /\ \A e \in Q[t] : Near(e)
             /\ Best(k, A[t], Q[t]) /\ Blank(k, A[t], Q[t]) /\ \A x \in Ranks : A[t][x] \in Int \X Int
  <2>1. t \in Nat /\ Ranked(k, A[t], Q[t]) /\ Q[t] = OfTile(p, y, t)
    BY <1>3
  <2>2. Q[t] \in SUBSET (Int \X Int) /\ IsFiniteSet(Q[t]) /\ \A e \in Q[t] : Near(e)
    BY <1>2, <2>1
  <2>. HIDE DEF Q, A
  <2>. QED BY <2>1, <2>2 DEF Ranked, Ranks
<1>5. \A g, h \in I : g # h => Q[g] \cap Q[h] = {}
  BY <1>2, <1>3
<1>6. DOMAIN s = I \X Ranks /\ \A h \in I, x \in Ranks : s[<<h, x>>] = A[h][x]
  OBVIOUS
<1>7. S = UNION {Q[h] : h \in I}
  <2>1. {Q[h] : h \in I} = {OfTile(p, y, t) : t \in I}
    OBVIOUS
  <2>. QED BY <1>2, <2>1
<1>8. Selection(p, y) = Nearest(s)
  BY DEF Selection
<1>. HIDE DEF I, Q, A, s, S
<1>9. Together(I, Q, A, s, S)
  BY <1>2, <1>3, <1>4, <1>5, <1>6, <1>7 DEF Together
<1>10. Ranked(k, Nearest(s), S)
  BY <1>1, <1>9, NearestOfMany
<1>. QED BY <1>8, <1>10 DEF S

(* One tile is the part.                                                     *)
LEMMA OnlyTile ==
  ASSUME dist \in Inputs, k \in Ks, NEW p \in Parts, NEW y \in Rows, ~Split(p)
  PROVE  Tiles(p) = 1 /\ OfTile(p, y, 0) = OfPart(p, y)
<1>1. Tiles(p) = 1 /\ OfPart(p, y) = UNION {OfTile(p, y, t) : t \in 0..(Tiles(p) - 1)}
  BY TileShape, TileSets
<1>2. 0..(Tiles(p) - 1) = {0}
  BY <1>1
<1>. QED BY <1>1, <1>2

-----------------------------------------------------------------------------
(* The sizes summed up: a recursive definition has a value when there is a   *)
(* function that satisfies its equation. It is put together from functions   *)
(* that do so up to a number, of which there is one for every number.        *)
SumsTo(g, d, n) == g = [p \in 0..n |-> IF p = 0 THEN 0 ELSE g[p - 1] + Len(d[p][1])]
HasSums(d, n) == \E g : SumsTo(g, d, n)
FirstOf(d) == CHOOSE f : f = [p \in Nat |-> IF p = 0 THEN 0 ELSE f[p - 1] + Len(d[p][1])]

(* Sums of the sizes exist up to every part.                                 *)
LEMMA SumsExist ==
  ASSUME NEW d
  PROVE  \A n \in Nat : HasSums(d, n)
<1>. DEFINE S == {n \in Nat : ~HasSums(d, n)}
<1>1. SUFFICES ASSUME S # {} PROVE FALSE
  OBVIOUS
<1>2. PICK n \in S : \A m \in S : n <= m
  <2>1. S \in SUBSET Nat
    OBVIOUS
  <2>. HIDE DEF S
  <2>. QED BY <1>1, <2>1, NatLeast
<1>3. n # 0
  <2>1. SumsTo([p \in 0..0 |-> 0], d, 0)
    BY DEF SumsTo
  <2>2. HasSums(d, 0)
    BY <2>1 DEF HasSums
  <2>. QED BY <2>2
<1>4. n - 1 \in Nat /\ HasSums(d, n - 1)
  BY <1>2, <1>3
<1>5. PICK g : SumsTo(g, d, n - 1)
  BY <1>4 DEF HasSums
<1>. DEFINE h == [p \in 0..n |-> IF p = n THEN g[n - 1] + Len(d[n][1]) ELSE g[p]]
<1>6. h = [p \in 0..n |-> IF p = 0 THEN 0 ELSE h[p - 1] + Len(d[p][1])]
  <2>1. ASSUME NEW p \in 0..n
        PROVE  h[p] = IF p = 0 THEN 0 ELSE h[p - 1] + Len(d[p][1])
    <3>1. CASE p = n
      <4>1. h[p] = g[n - 1] + Len(d[n][1]) /\ h[p - 1] = g[n - 1]
        BY <1>4, <3>1
      <4>. QED BY <1>3, <3>1, <4>1
    <3>2. CASE p # n
      <4>1. p \in 0..(n - 1) /\ h[p] = g[p]
        BY <1>4, <3>2
      <4>2. g[p] = IF p = 0 THEN 0 ELSE g[p - 1] + Len(d[p][1])
        BY <1>5, <4>1 DEF SumsTo
      <4>3. p # 0 => h[p - 1] = g[p - 1]
        BY <1>4, <4>1
      <4>. QED BY <4>1, <4>2, <4>3
    <3>. QED BY <3>1, <3>2
  <2>2. DOMAIN h = 0..n /\ h = [p \in 0..n |-> h[p]]
    OBVIOUS
  <2>. HIDE DEF h
  <2>. QED BY <2>1, <2>2
<1>7. HasSums(d, n)
  <2>. HIDE DEF h
  <2>. QED BY <1>6 DEF HasSums, SumsTo
<1>. QED BY <1>2, <1>7

(* They agree where both are defined.                                        *)
LEMMA SumsAgree ==
  ASSUME NEW d, NEW g, NEW h, NEW m \in Nat, NEW n \in Nat, SumsTo(g, d, m), SumsTo(h, d, n)
  PROVE  \A p \in 0..m : p <= n => g[p] = h[p]
<1>. DEFINE S == {p \in Nat : p <= m /\ p <= n /\ g[p] # h[p]}
<1>1. SUFFICES ASSUME S # {} PROVE FALSE
  OBVIOUS
<1>2. PICK p \in S : \A q \in S : p <= q
  <2>1. S \in SUBSET Nat
    OBVIOUS
  <2>. HIDE DEF S
  <2>. QED BY <1>1, <2>1, NatLeast
<1>3. p \in 0..m /\ p \in 0..n /\ g[p] # h[p]
  OBVIOUS
<1>4. g[p] = (IF p = 0 THEN 0 ELSE g[p - 1] + Len(d[p][1])) /\ h[p] = (IF p = 0 THEN 0 ELSE h[p - 1] + Len(d[p][1]))
  BY <1>3 DEF SumsTo
<1>5. p # 0 => g[p - 1] = h[p - 1]
  <2>1. p # 0 => p - 1 \in Nat /\ p - 1 \notin S /\ p - 1 <= m /\ p - 1 <= n
    BY <1>2
  <2>. QED BY <2>1
<1>. QED BY <1>3, <1>4, <1>5

(* Their limit satisfies the equation of First.                              *)
LEMMA FirstEquation ==
  ASSUME NEW d
  PROVE  /\ FirstOf(d)[0] = 0
         /\ \A p \in Nat \ {0} : FirstOf(d)[p] = FirstOf(d)[p - 1] + Len(d[p][1])
<1>. DEFINE G(n) == CHOOSE g : SumsTo(g, d, n)
            f == [n \in Nat |-> G(n)[n]]
            P(g) == g = [p \in Nat |-> IF p = 0 THEN 0 ELSE g[p - 1] + Len(d[p][1])]
<1>1. \A n \in Nat : SumsTo(G(n), d, n)
  BY SumsExist DEF HasSums
<1>. HIDE DEF G
<1>2. P(f)
  <2>1. ASSUME NEW p \in Nat
        PROVE  f[p] = IF p = 0 THEN 0 ELSE f[p - 1] + Len(d[p][1])
    <3>1. G(p)[p] = IF p = 0 THEN 0 ELSE G(p)[p - 1] + Len(d[p][1])
      <4>1. SumsTo(G(p), d, p) /\ p \in 0..p
        BY <1>1
      <4>. QED BY <4>1 DEF SumsTo
    <3>2. p # 0 => G(p)[p - 1] = G(p - 1)[p - 1]
      <4>1. CASE p # 0
        <5>1. p - 1 \in Nat /\ p - 1 \in 0..p /\ p - 1 <= p - 1 /\ SumsTo(G(p), d, p) /\ SumsTo(G(p - 1), d, p - 1)
          BY <1>1, <4>1
        <5>. QED BY <5>1, SumsAgree
      <4>. QED BY <4>1
    <3>. QED BY <3>1, <3>2
  <2>2. f = [p \in Nat |-> f[p]]
    OBVIOUS
  <2>. HIDE DEF f
  <2>. QED BY <2>1, <2>2
<1>3. FirstOf(d) = CHOOSE g : P(g)
  BY DEF FirstOf
<1>. HIDE DEF P, f
<1>4. P(FirstOf(d))
  BY <1>2, <1>3
<1>5. FirstOf(d) = [p \in Nat |-> IF p = 0 THEN 0 ELSE FirstOf(d)[p - 1] + Len(d[p][1])]
  BY <1>4 DEF P
<1>. QED BY <1>5

(* First is this limit: a recursive function is what its definition          *)
(* chooses.                                                                  *)
LEMMA FirstIs == First = FirstOf(dist)
<1>. DEFINE P(g) == g = [p \in Nat |-> IF p = 0 THEN 0 ELSE g[p - 1] + Size(p - 1)]
            Q(g) == g = [p \in Nat |-> IF p = 0 THEN 0 ELSE g[p - 1] + Len(dist[p][1])]
<1>1. First = CHOOSE g : P(g)
  BY DEF First
<1>2. FirstOf(dist) = CHOOSE g : Q(g)
  BY DEF FirstOf
<1>3. \A g : P(g) <=> Q(g)
  <2>1. \A p \in Nat : Size(p - 1) = Len(dist[p][1])
    BY DEF Size
  <2>. QED BY <2>1
<1>. HIDE DEF P, Q
<1>. QED BY <1>1, <1>2, <1>3

(* The parts lie in the index one after another.                             *)
LEMMA FirstFacts ==
  ASSUME dist \in Inputs
  PROVE  /\ First[0] = 0 /\ \A p \in Parts : First[p] \in Nat
         /\ \A p, q \in Parts : p < q => First[p] + Size(p) <= First[q]
<1>1. /\ First[0] = 0
      /\ \A p \in Nat \ {0} : First[p] = First[p - 1] + Size(p - 1)
  <2>1. \A p \in Nat : Size(p - 1) = Len(dist[p][1])
    BY DEF Size
  <2>. QED BY <2>1, FirstEquation, FirstIs
<1>2. Len(dist) \in Nat \ {0} /\ \A p \in Parts : p \in Nat /\ Size(p) \in Nat
  BY GridRows, Shapes DEF Parts
<1>3. ASSUME NEW p \in Nat, NEW q \in Parts, p <= q
      PROVE  p \in Parts
  BY <1>2, <1>3 DEF Parts
<1>4. \A p \in Parts : First[p] \in Nat
  <2>. DEFINE S == {p \in Parts : First[p] \notin Nat}
  <2>1. SUFFICES ASSUME S # {} PROVE FALSE
    OBVIOUS
  <2>2. PICK p \in S : \A q \in S : p <= q
    <3>1. S \in SUBSET Nat
      BY <1>2
    <3>. HIDE DEF S
    <3>. QED BY <2>1, <3>1, NatLeast
  <2>3. p # 0
    BY <1>1
  <2>4. p - 1 \in Parts /\ p \in Nat \ {0}
    BY <1>2, <1>3, <2>3
  <2>5. First[p - 1] \in Nat
    BY <1>2, <2>2, <2>4
  <2>. QED BY <1>1, <1>2, <2>4, <2>5
<1>5. ASSUME NEW p \in Parts
      PROVE  \A q \in Parts : p < q => First[p] + Size(p) <= First[q]
  <2>. DEFINE S == {q \in Parts : p < q /\ ~(First[p] + Size(p) <= First[q])}
  <2>1. SUFFICES ASSUME S # {} PROVE FALSE
    OBVIOUS
  <2>2. PICK q \in S : \A z \in S : q <= z
    <3>1. S \in SUBSET Nat
      BY <1>2
    <3>. HIDE DEF S
    <3>. QED BY <2>1, <3>1, NatLeast
  <2>3. q - 1 \in Parts /\ p \in Nat /\ q \in Nat \ {0} /\ p <= q - 1
    BY <1>2, <1>3
  <2>4. First[q] = First[q - 1] + Size(q - 1) /\ Size(q - 1) \in Nat /\ First[q - 1] \in Nat /\ First[p] \in Nat
        /\ Size(p) \in Nat
    BY <1>1, <1>2, <1>4, <2>3
  <2>5. CASE q - 1 = p
    BY <2>4, <2>5
  <2>6. CASE q - 1 # p
    <3>1. First[p] + Size(p) <= First[q - 1]
      BY <1>2, <2>2, <2>3, <2>6
    <3>. QED BY <2>4, <3>1
  <2>. QED BY <2>5, <2>6
<1>. QED BY <1>1, <1>4, <1>5

(* A list whose indices are translated.                                      *)
Shift(e, t) == <<e[1], e[2] + t>>
Shifted(S, t) == {Shift(e, t) : e \in S}

(* A ranked list stays one when the ids of all its neighbors are             *)
(* translated.                                                               *)
LEMMA ShiftFacts ==
  ASSUME NEW S \in SUBSET (Int \X Int), IsFiniteSet(S), \A e \in S : Near(e), NEW t \in Int, NEW n \in Nat,
         NEW a, Best(n, a, S), Blank(n, a, S), NEW b, \A x \in 0..(n - 1) : b[x] = Shift(a[x], t)
  PROVE  /\ Shifted(S, t) \in SUBSET (Int \X Int) /\ IsFiniteSet(Shifted(S, t)) /\ \A e \in Shifted(S, t) : Near(e)
         /\ Best(n, b, Shifted(S, t)) /\ Blank(n, b, Shifted(S, t))
<1>1. /\ \A e \in S : Shift(e, t) \in Int \X Int /\ Near(Shift(e, t))
      /\ \A e, f \in S : Shift(e, t) = Shift(f, t) => e = f
      /\ \A e, f \in S : Precedes(Shift(e, t), Shift(f, t)) <=> Precedes(e, f)
  BY DEF Shift, Near, Precedes
<1>2. ASSUME NEW T \in SUBSET S
      PROVE  IsFiniteSet(Shifted(T, t)) /\ Cardinality(Shifted(T, t)) = Cardinality(T)
  <2>. DEFINE U == Shifted(T, t)
              f == [e \in T |-> Shift(e, t)]
  <2>1. IsFiniteSet(T) /\ \A e \in T : e \in S
    BY FS_Subset
  <2>2. DOMAIN f = T /\ (\A e \in T : f[e] = Shift(e, t)) /\ f = [e \in T |-> f[e]]
    OBVIOUS
  <2>3. \A u : u \in U <=> \E e \in T : u = Shift(e, t)
    BY DEF Shifted
  <2>. HIDE DEF U, f
  <2>4. f \in [T -> U]
    BY <2>2, <2>3
  <2>5. f \in Surjection(T, U)
    BY <2>2, <2>3, <2>4 DEF Surjection
  <2>6. f \in Injection(T, U)
    BY <1>1, <2>1, <2>2, <2>4 DEF Injection, IsInjective
  <2>7. IsFiniteSet(U) /\ Cardinality(U) = Cardinality(T)
    BY <2>1, <2>5, <2>6, FS_Surjection
  <2>. QED BY <2>7 DEF U
<1>3. ASSUME NEW e \in S
      PROVE  Cardinality(Lower(Shifted(S, t), Shift(e, t))) = Cardinality(Lower(S, e))
  <2>1. Lower(Shifted(S, t), Shift(e, t)) = Shifted(Lower(S, e), t)
    BY <1>1 DEF Lower, Shifted
  <2>2. Lower(S, e) \in SUBSET S
    BY DEF Lower
  <2>. QED BY <1>2, <2>1, <2>2
<1>4. Shifted(S, t) \in SUBSET (Int \X Int) /\ \A e \in Shifted(S, t) : Near(e)
  BY <1>1 DEF Shifted
<1>5. IsFiniteSet(Shifted(S, t)) /\ Cardinality(Shifted(S, t)) = Cardinality(S)
  BY <1>2
<1>6. Best(n, b, Shifted(S, t))
  <2>1. SUFFICES ASSUME NEW x \in 0..(n - 1), x < Cardinality(S)
                 PROVE  b[x] \in Shifted(S, t) /\ Cardinality(Lower(Shifted(S, t), b[x])) = x
    BY <1>5 DEF Best
  <2>2. a[x] \in S /\ Cardinality(Lower(S, a[x])) = x /\ b[x] = Shift(a[x], t)
    BY <2>1 DEF Best
  <2>3. Shift(a[x], t) \in Shifted(S, t)
    BY <2>2 DEF Shifted
  <2>. QED BY <1>3, <2>2, <2>3
<1>7. Blank(n, b, Shifted(S, t))
  <2>1. SUFFICES ASSUME NEW x \in 0..(n - 1), x >= Cardinality(S)
                 PROVE  b[x][1] >= Infinity
    BY <1>5 DEF Blank
  <2>2. a[x][1] >= Infinity /\ b[x] = Shift(a[x], t)
    BY <2>1 DEF Blank
  <2>. QED BY <2>2 DEF Shift
<1>. QED BY <1>4, <1>5, <1>6, <1>7

-----------------------------------------------------------------------------
(* The neighbors of the parts, under the ids that they have in the index.    *)
By(p) == First[p] + (IF Translated THEN offset ELSE 0)

(* For the inputs that are answered rightly the translation of every part    *)
(* is known.                                                                 *)
LEMMA TranslateFacts ==
  ASSUME dist \in Inputs, QueueTypes, Answered, Several \/ Translated, NEW p \in Parts
  PROVE  By(p) \in Nat /\ \A e \in Int \X Int : Translate(p, e) = Shift(e, By(p))
<1>1. (Translated => offset \in Nat) /\ First[0] = 0 /\ First[p] \in Nat
  BY HostAssumption, FirstFacts DEF QueueTypes, Translated
<1>2. CASE Translated
  <2>1. p = 0 /\ By(p) = offset /\ Translation(p) = offset
    BY <1>1, <1>2, OnePart DEF Answered, By, Translation
  <2>. QED BY <1>1, <1>2, <2>1 DEF Translate, Shift
<1>3. CASE ~Translated
  <2>1. By(p) = First[p] /\ Translation(p) = First[p]
    BY <1>1, <1>3 DEF By, Translation
  <2>. QED BY <1>1, <2>1 DEF Translate, Shift
<1>. QED BY <1>2, <1>3

(* All neighbors of a query: those of the parts, translated.                 *)
LEMMA AllIs ==
  ASSUME dist \in Inputs, QueueTypes, NEW y \in Rows
  PROVE  All(y) = UNION {Shifted(OfPart(p, y), By(p)) : p \in Parts}
<1>1. ASSUME NEW p \in Parts
      PROVE  {<<Distances(p, y)[c], First[p] + c - 1 + (IF Translated THEN offset ELSE 0)>> : c \in 1..Size(p)}
               = Shifted(OfPart(p, y), By(p))
  <2>1. First[p] \in Nat /\ Size(p) \in Nat /\ (IF Translated THEN offset ELSE 0) \in Nat
    BY HostAssumption, FirstFacts, Shapes DEF QueueTypes, Translated
  <2>. DEFINE t == IF Translated THEN offset ELSE 0
              d == dist[p + 1][y + 1]
              n == Size(p)
              f == First[p]
              A == {<<d[c], f + c - 1 + t>> : c \in 1..n}
              B == {<<d[c + 1], c + (f + t)>> : c \in 0..(n - 1)}
  <2>2. A = B
    <3>. HIDE DEF t, d, n, f
    <3>1. t \in Nat /\ n \in Nat /\ f \in Nat
      BY <2>1 DEF t, n, f
    <3>2. ASSUME NEW c \in 1..n
          PROVE  <<d[c], f + c - 1 + t>> \in B
      <4>1. c - 1 \in 0..(n - 1) /\ (c - 1) + 1 = c /\ (c - 1) + (f + t) = f + c - 1 + t
        BY <3>1
      <4>. QED BY <4>1
    <3>3. ASSUME NEW c \in 0..(n - 1)
          PROVE  <<d[c + 1], c + (f + t)>> \in A
      <4>1. c + 1 \in 1..n /\ f + (c + 1) - 1 + t = c + (f + t)
        BY <3>1
      <4>. QED BY <4>1
    <3>. QED BY <3>2, <3>3
  <2>3. B = Shifted(OfPart(p, y), By(p))
    <3>1. \A c : Shift(<<d[c + 1], c>>, f + t) = <<d[c + 1], c + (f + t)>>
      BY DEF Shift
    <3>2. \A e : e \in OfPart(p, y) <=> \E c \in 0..(n - 1) : e = <<d[c + 1], c>>
      BY DEF OfPart, Cand
    <3>3. \A e : e \in Shifted(OfPart(p, y), f + t) <=> \E g \in OfPart(p, y) : e = Shift(g, f + t)
      BY DEF Shifted
    <3>4. By(p) = f + t
      BY DEF By
    <3>. HIDE DEF d, n, f, t
    <3>5. \A e : e \in B <=> \E c \in 0..(n - 1) : e = <<d[c + 1], c + (f + t)>>
      OBVIOUS
    <3>6. \A e : e \in Shifted(OfPart(p, y), f + t) <=> \E c \in 0..(n - 1) : e = <<d[c + 1], c + (f + t)>>
      <4>1. ASSUME NEW c \in 0..(n - 1) PROVE <<d[c + 1], c + (f + t)>> \in Shifted(OfPart(p, y), f + t)
        <5>1. <<d[c + 1], c>> \in OfPart(p, y)
          BY <3>2
        <5>. QED BY <3>1, <3>3, <5>1
      <4>2. ASSUME NEW e \in Shifted(OfPart(p, y), f + t)
            PROVE  \E c \in 0..(n - 1) : e = <<d[c + 1], c + (f + t)>>
        <5>1. PICK g \in OfPart(p, y) : e = Shift(g, f + t)
          BY <3>3
        <5>2. PICK c \in 0..(n - 1) : g = <<d[c + 1], c>>
          BY <3>2
        <5>. QED BY <3>1, <5>1, <5>2
      <4>. QED BY <4>1, <4>2
    <3>7. B = Shifted(OfPart(p, y), f + t)
      <4>. HIDE DEF B
      <4>. QED BY <3>5, <3>6
    <3>. QED BY <3>4, <3>7
  <2>. QED BY <2>2, <2>3 DEF Distances
<1>. QED BY <1>1 DEF All

(* They are finitely many.                                                   *)
LEMMA AllFacts ==
  ASSUME dist \in Inputs, QueueTypes, NEW y \in Rows
  PROVE  All(y) \in SUBSET (Int \X Int) /\ IsFiniteSet(All(y))
<1>. DEFINE Q == [p \in Parts |-> Shifted(OfPart(p, y), By(p))]
            U == {Q[p] : p \in Parts}
<1>1. All(y) = UNION U
  BY AllIs
<1>2. IsFiniteSet(Parts)
  BY GridRows, Interval DEF Parts
<1>3. ASSUME NEW p \in Parts
      PROVE  Q[p] \in SUBSET (Int \X Int) /\ IsFiniteSet(Q[p])
  <2>. DEFINE R == OfPart(p, y)
              t == By(p)
              f == [e \in R |-> Shift(e, t)]
              T == Shifted(R, t)
  <2>1. R \in SUBSET (Int \X Int) /\ IsFiniteSet(R)
    BY CandFacts DEF OfPart
  <2>2. t \in Int
    BY FirstFacts, HostAssumption DEF By, QueueTypes, Translated
  <2>3. f \in [R -> T] /\ \A g \in T : \E e \in R : f[e] = g
    BY DEF Shifted
  <2>4. T \in SUBSET (Int \X Int)
    <3>. HIDE DEF R, t
    <3>1. \A e \in R : Shift(e, t) \in Int \X Int
      BY <2>1, <2>2 DEF Shift
    <3>. QED BY <3>1 DEF Shifted
  <2>5. Q[p] = T
    OBVIOUS
  <2>. HIDE DEF R, t, f, T, Q
  <2>6. f \in Surjection(R, T)
    BY <2>3 DEF Surjection
  <2>. QED BY <2>1, <2>4, <2>5, <2>6, FS_Surjection
<1>4. IsFiniteSet(U)
  <2>1. Q \in [Parts -> U] /\ \A T \in U : \E p \in Parts : Q[p] = T
    OBVIOUS
  <2>. HIDE DEF Q, U
  <2>2. Q \in Surjection(Parts, U)
    BY <2>1 DEF Surjection
  <2>. QED BY <1>2, <2>2, FS_Surjection
<1>5. \A T \in U : T \in SUBSET (Int \X Int) /\ IsFiniteSet(T)
  BY <1>3
<1>. HIDE DEF U
<1>6. IsFiniteSet(UNION U)
  BY <1>4, <1>5, FS_UNION
<1>. QED BY <1>1, <1>5, <1>6

(* Merging the answers of all parts gives the best of all.                   *)
LEMMA MergeBest ==
  ASSUME IInv, TypeInv, Answered, Several \/ Translated, \A p \in Parts : Answers(p), NEW y \in Rows
  PROVE  Best(k, Nearest([q \in Parts \X Ranks |-> Translate(q[1], out[q[1]][y][q[2]])]), All(y))
<1>. DEFINE s == [q \in Parts \X Ranks |-> Translate(q[1], out[q[1]][y][q[2]])]
            Q == [p \in Parts |-> Shifted(OfPart(p, y), By(p))]
            A == [p \in Parts |-> [x \in Ranks |-> Shift(out[p][y][x], By(p))]]
            S == All(y)
<1>1. /\ k \in Nat \ {0} /\ dist \in Inputs /\ QueueTypes /\ Len(dist) \in Nat
      /\ \A p \in Parts : out[p][y] \in Lists
  BY KernelAssumption, GridRows DEF TypeInv, KernelTypes, IInv
<1>2. \A p \in Parts : By(p) \in Nat /\ \A e \in Int \X Int : Translate(p, e) = Shift(e, By(p))
  BY <1>1, TranslateFacts
<1>3. ASSUME NEW p \in Parts
      PROVE  /\ Q[p] \in SUBSET (Int \X Int) /\ IsFiniteSet(Q[p]) /\ \A e \in Q[p] : Near(e)
             /\ Best(k, A[p], Q[p]) /\ Blank(k, A[p], Q[p])
             /\ \A x \in Ranks : A[p][x] \in Int \X Int /\ s[<<p, x>>] = A[p][x]
             /\ \A e \in Q[p] : First[p] + (IF Translated THEN offset ELSE 0) <= e[2]
                                 /\ e[2] < First[p] + Size(p) + (IF Translated THEN offset ELSE 0)
  <2>. DEFINE C == 0..(Size(p) - 1)
              R == OfPart(p, y)
              a == out[p][y]
              b == A[p]
              t == By(p)
  <2>1. C \in SUBSET (0..(Size(p) - 1)) /\ Size(p) \in Nat /\ R = Cand(dist, p, y, C)
    BY <1>1, Shapes DEF OfPart
  <2>2. R \in SUBSET (Int \X Int) /\ IsFiniteSet(R) /\ \A e \in R : Near(e) /\ e[2] \in 0..(Size(p) - 1)
    BY <1>1, <2>1, CandFacts
  <2>3. Best(k, a, R) /\ Blank(k, a, R)
    BY DEF Answers
  <2>4. \A x \in Ranks : a[x] \in Int \X Int /\ b[x] = Shift(a[x], t)
    BY <1>1 DEF Lists
  <2>5. t \in Int /\ Ranks = 0..(k - 1) /\ k \in Nat
    BY <1>1, <1>2 DEF Ranks
  <2>6. \A x \in Ranks : s[<<p, x>>] = b[x] /\ b[x] \in Int \X Int
    <3>1. \A x \in Ranks : s[<<p, x>>] = Translate(p, a[x])
      OBVIOUS
    <3>2. \A x \in Ranks : b[x] \in Int \X Int
      BY <2>4, <2>5 DEF Shift
    <3>. HIDE DEF s, b, a, t
    <3>. QED BY <1>2, <2>4, <3>1, <3>2 DEF t
  <2>. HIDE DEF b, a, R, t
  <2>7. /\ Shifted(R, t) \in SUBSET (Int \X Int) /\ IsFiniteSet(Shifted(R, t)) /\ \A e \in Shifted(R, t) : Near(e)
        /\ Best(k, b, Shifted(R, t)) /\ Blank(k, b, Shifted(R, t))
    BY <2>2, <2>3, <2>4, <2>5, ShiftFacts
  <2>8. Q[p] = Shifted(R, t)
    BY DEF R, t
  <2>9. ASSUME NEW e \in Shifted(R, t)
        PROVE  /\ First[p] + (IF Translated THEN offset ELSE 0) <= e[2]
               /\ e[2] < First[p] + Size(p) + (IF Translated THEN offset ELSE 0)
    <3>1. PICK f \in R : e = Shift(f, t)
      BY DEF Shifted
    <3>2. e[2] = f[2] + t /\ f[2] \in 0..(Size(p) - 1)
      BY <2>2, <3>1 DEF Shift
    <3>3. First[p] \in Nat /\ (IF Translated THEN offset ELSE 0) \in Nat
      BY <1>1, FirstFacts, HostAssumption DEF QueueTypes, Translated
    <3>. QED BY <2>1, <3>2, <3>3 DEF t, By
  <2>. QED BY <2>6, <2>7, <2>8, <2>9 DEF b
<1>4. \A g, h \in Parts : g # h => Q[g] \cap Q[h] = {}
  <2>1. SUFFICES ASSUME NEW g \in Parts, NEW h \in Parts, g < h PROVE Q[g] \cap Q[h] = {}
    BY <1>1 DEF Parts
  <2>2. /\ First[g] + Size(g) <= First[h] /\ First[g] \in Nat /\ First[h] \in Nat /\ Size(g) \in Nat
        /\ (IF Translated THEN offset ELSE 0) \in Nat
    BY <1>1, <2>1, FirstFacts, Shapes, HostAssumption DEF QueueTypes, Translated
  <2>3. \A e \in Q[g] : e[2] \in Int /\ e[2] < First[g] + Size(g) + (IF Translated THEN offset ELSE 0)
    BY <1>3
  <2>4. \A e \in Q[h] : e[2] \in Int /\ First[h] + (IF Translated THEN offset ELSE 0) <= e[2]
    BY <1>3
  <2>. HIDE DEF Q
  <2>. QED BY <2>2, <2>3, <2>4
<1>5. S = UNION {Q[p] : p \in Parts}
  BY <1>1, AllIs
<1>6. IsFiniteSet(Parts)
  BY <1>1, Interval DEF Parts
<1>7. IsFiniteSet(S)
  BY <1>1, AllFacts
<1>8. DOMAIN s = Parts \X Ranks
  OBVIOUS
<1>. HIDE DEF s, Q, A, S
<1>9. Ranked(k, Nearest(s), S)
  <2>1. Together(Parts, Q, A, s, S)
    BY <1>3, <1>4, <1>5, <1>6, <1>7, <1>8 DEF Together
  <2>. QED BY <1>1, <2>1, NearestOfMany
<1>. QED BY <1>9 DEF Ranked, s, S

-----------------------------------------------------------------------------
(* The input decides what is to be found.                                    *)
LEMMA FoundFrame ==
  ASSUME UNCHANGED <<input, offset>>
  PROVE  /\ Parts' = Parts /\ Rows' = Rows /\ k' = k /\ dist' = dist
         /\ (Several' <=> Several) /\ (Translated' <=> Translated)
         /\ \A p : Size(p)' = Size(p) /\ Shape(p)' = Shape(p)
         /\ \A p, y : OfPart(p, y)' = OfPart(p, y)
         /\ \A y : All(y)' = All(y)
<1>1. /\ Parts' = Parts /\ Rows' = Rows /\ GridY' = GridY /\ k' = k /\ dist' = dist /\ offset' = offset
      /\ \A p : Size(p)' = Size(p) /\ GridX(p)' = GridX(p)
  BY Frame DEF input
<1>2. First' = First
  <2>1. First = FirstOf(dist)
    BY FirstIs
  <2>2. (First = FirstOf(dist))'
    BY FirstIs, PTL
  <2>. QED BY <1>1, <2>1, <2>2
<1>3. (Several' <=> Several) /\ (Translated' <=> Translated)
  BY <1>1 DEF Several, Translated
<1>4. \A p : Shape(p)' = Shape(p)
  BY <1>1 DEF Shape
<1>5. \A p, y : OfPart(p, y)' = OfPart(p, y)
  BY <1>1 DEF OfPart
<1>6. \A y : All(y)' = All(y)
  BY <1>1, <1>2, <1>3 DEF All, Distances
<1>. QED BY <1>1, <1>3, <1>4, <1>5, <1>6

(* An answer stays one while the output of its part does.                    *)
LEMMA AnswersSame ==
  ASSUME UNCHANGED <<input, offset>>, NEW p, Answers(p), out'[p] = out[p]
  PROVE  Answers(p)'
BY FoundFrame DEF Answers

(* The kernels that are not touched.                                         *)
LEMMA KernelsStay ==
  ASSUME KernelsGood, UNCHANGED <<input, offset>>,
         \A p \in ToSet(running') :
           p \in ToSet(running) /\ cta'[p] = cta[p] /\ mutexes'[p] = mutexes[p] /\ out'[p] = out[p]
  PROVE  KernelsGood'
<1>1. SUFFICES ASSUME NEW p \in ToSet(running')
               PROVE  KernelGood(Shape(p)', cta'[p], mutexes'[p], out'[p])
  BY DEF KernelsGood, ToSet
<1>2. /\ p \in ToSet(running) /\ cta'[p] = cta[p] /\ mutexes'[p] = mutexes[p] /\ out'[p] = out[p]
      /\ Shape(p)' = Shape(p)
  BY FoundFrame
<1>. QED BY <1>2 DEF KernelsGood

(* The queues when what is first in one is done.                             *)
LEMMA PopQueued ==
  ASSUME QueueTypes, NEW s, PopStep(s)
  PROVE  /\ \A op : Queued(queue, op) /\ op # Head(queue[s]) => Queued(queue', op)
         /\ UNCHANGED <<dist, offset, host, i>>
<1>1. s \in Streams /\ queue \in [Streams -> Seq(Work(i))] /\ Popped(queue, s, queue') /\ Once(queue)
  BY DEF QueueTypes, PopStep, Pop, Popped
<1>2. \A op : Queued(queue, op) /\ op # Head(queue[s]) => Queued(queue', op)
  BY <1>1, PopOnce
<1>. QED BY <1>2 DEF PopStep, request

(* The parts that were searched, when what is first in a queue is done.      *)
LEMMA SearchedPop ==
  ASSUME QueueTypes, NEW s, PopStep(s), UNCHANGED input, Searched,
         \A p \in 0..(i - 1) : Head(queue[s]) # <<"search", p>> => out'[p] = out[p],
         \A p \in 0..(i - 1) : Head(queue[s]) = <<"search", p>> => Answers(p)'
  PROVE  Searched'
<1>1. /\ \A op : Queued(queue, op) /\ op # Head(queue[s]) => Queued(queue', op)
      /\ UNCHANGED <<input, offset>> /\ i' = i
  BY PopQueued
<1>2. SUFFICES ASSUME NEW p \in 0..(i - 1), ~Queued(queue', <<"search", p>>)
               PROVE  Answers(p)'
  BY <1>1 DEF Searched
<1>3. CASE Head(queue[s]) = <<"search", p>>
  BY <1>3
<1>4. CASE Head(queue[s]) # <<"search", p>>
  <2>1. Answers(p) /\ out'[p] = out[p]
    BY <1>1, <1>2, <1>4 DEF Searched
  <2>. QED BY <1>1, <2>1, AnswersSame
<1>. QED BY <1>3, <1>4

(* The merged result, when something else than the merge is done.            *)
LEMMA MergedPop ==
  ASSUME QueueTypes, NEW s, PopStep(s), UNCHANGED input, Merged, Head(queue[s]) # <<"merge">>, res' = res
  PROVE  Merged'
<1>1. /\ Queued(queue, <<"merge">>) => Queued(queue', <<"merge">>)
      /\ UNCHANGED <<input, offset>> /\ host' = host
  BY PopQueued
<1>2. k' = k /\ Rows' = Rows /\ (Several' <=> Several) /\ (Translated' <=> Translated) /\ \A y : All(y)' = All(y)
  BY <1>1, FoundFrame
<1>. QED BY <1>1, <1>2 DEF Merged

(* The input and the request decide what is to be found of a tile.           *)
LEMMA TileSame ==
  ASSUME UNCHANGED <<input, request>>, NEW p
  PROVE  /\ k' = k /\ Rows' = Rows /\ dist' = dist /\ (Split(p)' <=> Split(p))
         /\ \A y, t : OfTile(p, y, t)' = OfTile(p, y, t)
<1>1. offset' = offset
  BY DEF request
<1>2. /\ k' = k /\ Rows' = Rows /\ dist' = dist /\ Size(p)' = Size(p)
      /\ Cols(p)' = Cols(p) /\ (Split(p)' <=> Split(p))
  BY <1>1, FoundFrame, TiledFrame
<1>. QED BY <1>2 DEF OfTile, ColsOf

(* The tiles of a part are what they were.                                   *)
LEMMA TilingSame ==
  ASSUME UNCHANGED <<input, request>>, NEW p, Tiling(p),
         out'[p] = out[p], selected'[p] = selected[p], copied'[p] = copied[p], temp'[p] = temp[p]
  PROVE  Tiling(p)'
BY TileSame DEF Tiling

(* The tiles when none is selected or copied.                                *)
LEMMA TilingsStay ==
  ASSUME Tilings, UNCHANGED <<input, request, tiled>>,
         \A p \in Parts : Queued(queue', <<"search", p>>) => Queued(queue, <<"search", p>>),
         metric = "tiled" => \A p \in Parts : Queued(queue', <<"search", p>>) => out'[p] = out[p]
  PROVE  Tilings'
<1>1. SUFFICES ASSUME metric' = "tiled", NEW p \in Parts', Queued(queue', <<"search", p>>)
               PROVE  Tiling(p)'
  BY DEF Tilings
<1>2. metric' = metric /\ Parts' = Parts /\ selected' = selected /\ copied' = copied /\ temp' = temp
  BY Frame DEF request, tiled
<1>3. Tiling(p) /\ out'[p] = out[p]
  BY <1>1, <1>2 DEF Tilings
<1>. QED BY <1>2, <1>3, TilingSame

(* The tiles when what is first in a queue is done.                          *)
LEMMA TilingsPop ==
  ASSUME QueueTypes, NEW s, PopStep(s), UNCHANGED <<input, tiled>>, Tilings,
         \A p \in Parts : Head(queue[s]) # <<"search", p>> => out'[p] = out[p]
  PROVE  Tilings'
<1>1. s \in Streams /\ queue \in [Streams -> Seq(Work(i))] /\ Popped(queue, s, queue') /\ Once(queue)
  BY DEF QueueTypes, PopStep, Pop, Popped
<1>2. \A op : Queued(queue', op) => Queued(queue, op)
  BY <1>1, PopOnce
<1>3. ASSUME NEW p \in Parts, Queued(queue', <<"search", p>>)
      PROVE  Head(queue[s]) # <<"search", p>>
  <2>1. p \in Nat
    BY DEF Parts
  <2>2. <<"search", p>> \in Parted
    BY <2>1 DEF Parted
  <2>3. Head(queue[s]) \in Parted => ~Queued(queue', Head(queue[s]))
    BY <1>1, PopOnce
  <2>. QED BY <1>3, <2>2, <2>3
<1>4. UNCHANGED <<input, request, tiled>>
  BY DEF PopStep
<1>. QED BY <1>2, <1>3, <1>4, TilingsStay

(* No work of a part is done before the queries are transposed.              *)
LEMMA TurnPrepared ==
  ASSUME OrderInv, NEW s \in Streams, NEW op, Turn(s, op), op \notin {"transpose", "wait"}, prepared \in BOOLEAN
  PROVE  prepared = TRUE
BY DEF OrderInv, Waits, Heads, Turn

(* What comes first in a queue, other than a search or the merge.            *)
LEMMA FoundPop ==
  ASSUME IInv, TypeInv, FoundInv, NEW s, PopStep(s), UNCHANGED <<input, out, kernels, tiled, res>>,
         \A p : Head(queue[s]) # <<"search", p>>, Head(queue[s]) # <<"merge">>
  PROVE  FoundInv'
<1>1. QueueTypes /\ UNCHANGED <<input, offset>>
  BY PopQueued DEF TypeInv
<1>2. KernelsGood'
  BY <1>1, KernelsStay DEF FoundInv, kernels, ToSet
<1>3. Searched'
  BY <1>1, SearchedPop DEF FoundInv
<1>4. Merged'
  BY <1>1, MergedPop DEF FoundInv
<1>5. Tilings'
  BY TilingsPop DEF FoundInv, TypeInv, IInv
<1>. QED BY <1>2, <1>3, <1>4, <1>5 DEF FoundInv

(* A kernel ends: the output of its part is the answer.                      *)
LEMMA FoundEnd ==
  ASSUME IInv, TypeInv, OrderInv, FoundInv, NEW s \in Streams, EndFused(s)
  PROVE  OrderInv' /\ FoundInv'
<1>1. PICK p \in 0..(i - 1) : p \in Parts /\ Head(queue[s]) = <<"search", p>>
  BY TurnFacts DEF EndFused, TypeInv, IInv
<1>2. /\ p \in ToSet(running) /\ EndKernel(p) /\ Pop(s) /\ queue[s] # <<>>
      /\ UNCHANGED <<request, host, i, prepared, tiled, res, roots>>
  BY <1>1 DEF EndFused, Turn, Part
<1>3. Through(p) /\ UNCHANGED <<input, out, mutexes, cta>> /\ ToSet(running') = ToSet(running) \ {p}
  BY <1>2, KernelEnd DEF EndKernel, TypeInv
<1>4. prepared = TRUE /\ dist \in Inputs /\ QueueTypes
  BY TurnPrepared DEF TypeInv, QueueTypes, IInv, EndFused
<1>5. PopStep(s)
  <2>1. ToSet(running') \subseteq {q \in ToSet(running) : Head(queue[s]) # <<"search", q>>}
    BY <1>1, <1>3
  <2>. QED BY <1>1, <1>2, <1>3, <1>4, <2>1 DEF PopStep, input
<1>6. OrderInv'
  BY <1>4, <1>5, OrderPop
<1>7. UNCHANGED <<input, offset>>
  BY <1>2, <1>3 DEF request
<1>8. KernelsGood'
  <2>1. \A q \in ToSet(running') : q \in ToSet(running) /\ cta'[q] = cta[q] /\ mutexes'[q] = mutexes[q] /\ out'[q] = out[q]
    BY <1>3
  <2>. QED BY <1>7, <2>1, KernelsStay DEF FoundInv
<1>9. Answers(p)
  <2>1. \A y \in Rows : Ranked(k, out[p][y], OfPart(p, y))
    BY <1>1, <1>2, <1>3, EndGood DEF FoundInv, KernelsGood, TypeInv, OfPart
  <2>. QED BY <2>1 DEF Answers, Ranked
<1>10. Searched'
  <2>1. Answers(p)'
    BY <1>3, <1>7, <1>9, AnswersSame
  <2>2. \A q \in 0..(i - 1) : Head(queue[s]) = <<"search", q>> => q = p
    BY <1>1
  <2>3. \A q \in 0..(i - 1) : Head(queue[s]) = <<"search", q>> => Answers(q)'
    BY <2>1, <2>2
  <2>4. \A q \in 0..(i - 1) : Head(queue[s]) # <<"search", q>> => out'[q] = out[q]
    BY <1>3
  <2>. QED BY <1>3, <1>4, <1>5, <2>3, <2>4, SearchedPop DEF FoundInv
<1>11. Merged'
  BY <1>1, <1>2, <1>3, <1>4, <1>5, MergedPop DEF FoundInv
<1>12. Tilings'
  BY <1>2, <1>3, <1>4, <1>5, TilingsPop DEF FoundInv
<1>. QED BY <1>6, <1>8, <1>10, <1>11, <1>12 DEF FoundInv

(* A kernel is launched, or one of its CTAs moves: the host's work is what   *)
(* it was.                                                                   *)
LEMMA OrderStays ==
  ASSUME OrderInv, UNCHANGED <<dist, request, host, i, queue, prepared, roots>>, Runs'
  PROVE  OrderInv'
<1>1. /\ UNCHANGED <<host, i, queue, prepared, metric, roots, dist>>
      /\ Streams' = Streams /\ Parts' = Parts /\ (Several' <=> Several)
  BY DEF request, Streams, Parts, Several
<1>2. Waits' /\ MergeLast'
  BY <1>1 DEF OrderInv, Waits, MergeLast
<1>3. RootTaken'
  BY <1>1 DEF OrderInv, RootTaken
<1>. QED BY <1>2, <1>3 DEF OrderInv

(* The merged result stays while the host and the streams do nothing.        *)
LEMMA MergedStays ==
  ASSUME Merged, UNCHANGED <<input, request, host, queue, res>>
  PROVE  Merged'
<1>1. UNCHANGED <<input, offset, host, queue, res>>
  BY DEF request
<1>2. k' = k /\ Rows' = Rows /\ (Several' <=> Several) /\ (Translated' <=> Translated) /\ \A y : All(y)' = All(y)
  BY <1>1, FoundFrame
<1>. QED BY <1>1, <1>2 DEF Merged

(* What is queued first for a part that is searched by tiles.                *)
LEMMA TiledHead ==
  ASSUME IInv, TypeInv, OrderInv, NEW s \in Streams, Turn(s, "search"), metric = "tiled"
  PROVE  /\ prepared = TRUE /\ ToSet(running) = {}
         /\ \E p \in 0..(i - 1) : /\ p \in Parts /\ Head(queue[s]) = <<"search", p>> /\ Part(s) = p
                                  /\ Queued(queue, <<"search", p>>)
<1>1. dist \in Inputs /\ QueueTypes
  BY DEF TypeInv, IInv
<1>2. prepared = TRUE
  BY <1>1, TurnPrepared DEF QueueTypes
<1>3. ToSet(running) = {}
  BY DEF OrderInv, Runs
<1>4. /\ queue[s][1] = Head(queue[s]) /\ 1 \in DOMAIN queue[s] /\ s \in DOMAIN queue
      /\ \E p \in 0..(i - 1) : p \in Parts /\ Head(queue[s]) = <<"search", p>>
  BY <1>1, TurnFacts
<1>5. PICK p \in 0..(i - 1) : p \in Parts /\ Head(queue[s]) = <<"search", p>>
  BY <1>4
<1>6. Queued(queue, <<"search", p>>) /\ Part(s) = p
  BY <1>4, <1>5 DEF Queued, Part
<1>. QED BY <1>2, <1>3, <1>5, <1>6

(* The search of a part goes on: nothing else changes.                       *)
LEMMA FoundTiling ==
  ASSUME IInv, TypeInv, OrderInv, FoundInv, metric = "tiled", ToSet(running) = {},
         NEW p \in Parts, Queued(queue, <<"search", p>>),
         UNCHANGED <<input, kernels, request, host, i, queue, prepared, res, roots>>,
         \A q \in Parts : q # p => /\ out'[q] = out[q] /\ selected'[q] = selected[q]
                                   /\ copied'[q] = copied[q] /\ temp'[q] = temp[q],
         Tiling(p)'
  PROVE  OrderInv' /\ FoundInv'
<1>1. UNCHANGED <<input, offset, dist>> /\ queue' = queue /\ i' = i /\ metric' = metric /\ Parts' = Parts
  BY FoundFrame DEF request, input
<1>2. ToSet(running') = {}
  BY DEF kernels, ToSet
<1>3. OrderInv'
  BY <1>1, <1>2, OrderStays DEF Runs
<1>4. KernelsGood'
  BY <1>1, <1>2, KernelsStay DEF FoundInv
<1>5. Searched'
  <2>1. ASSUME NEW q \in 0..(i - 1), ~Queued(queue, <<"search", q>>) PROVE Answers(q)'
    <3>1. q # p /\ q \in Parts
      <4>1. dist \in Inputs /\ i \in 0..Len(dist)
        BY DEF IInv, TypeInv, QueueTypes
      <4>2. q \in Parts
        BY <4>1, GridRows DEF Parts
      <4>. QED BY <2>1, <4>2
    <3>. QED BY <1>1, <2>1, <3>1, AnswersSame DEF FoundInv, Searched
  <2>. QED BY <1>1, <2>1 DEF Searched
<1>6. Merged'
  BY <1>1, MergedStays DEF FoundInv
<1>7. Tilings'
  <2>1. ASSUME NEW q \in Parts, Queued(queue, <<"search", q>>) PROVE Tiling(q)'
    <3>1. CASE q = p
      BY <3>1
    <3>2. CASE q # p
      <4>1. Tiling(q)
        BY <2>1 DEF FoundInv, Tilings
      <4>. QED BY <3>2, <4>1, TilingSame
    <3>. QED BY <3>1, <3>2
  <2>. QED BY <1>1, <2>1 DEF Tilings
<1>. QED BY <1>3, <1>4, <1>5, <1>6, <1>7 DEF FoundInv

(* The nearest of a tile are selected.                                       *)
LEMMA FoundSelect ==
  ASSUME IInv, TypeInv, OrderInv, FoundInv, Answered, NEW s \in Streams, SelectTile(s)
  PROVE  OrderInv' /\ FoundInv'
<1>0. metric = "tiled" /\ Turn(s, "search")
  BY DEF SelectTile
<1>1. /\ prepared = TRUE /\ ToSet(running) = {}
      /\ \E p \in 0..(i - 1) : /\ p \in Parts /\ Head(queue[s]) = <<"search", p>> /\ Part(s) = p
                               /\ Queued(queue, <<"search", p>>)
  BY <1>0, TiledHead
<1>2. PICK p \in 0..(i - 1) : p \in Parts /\ Part(s) = p /\ Queued(queue, <<"search", p>>)
  BY <1>1
<1>. DEFINE t == selected[p]
            v == [y \in Rows |-> TileNearest(p, y, t)]
<1>3. /\ t < Tiles(p) /\ (Split(p) /\ InOrder(p) => copied[p] = t)
      /\ out' = [out EXCEPT ![p] = v] /\ selected' = [selected EXCEPT ![p] = t + 1]
      /\ UNCHANGED <<input, kernels, request, host, i, queue, prepared, copied, temp, res, roots>>
  BY <1>2 DEF SelectTile
<1>4. Split(p) => copied[p] = t
  BY <1>0, <1>2, <1>3 DEF Answered, InOrder, PolicyStream, StreamOf
<1>5. /\ out \in [Parts -> [Rows -> Lists]] /\ selected \in [Parts -> Int] /\ TiledOK(p)
      /\ dist \in Inputs /\ k \in Ks
  BY <1>2 DEF TypeInv, KernelTypes, TiledTypes, IInv
<1>6. t \in Nat /\ copied[p] \in Nat
  BY <1>2, <1>5, TileShape DEF TiledOK
<1>7. \A y \in Rows : Ranked(k, v[y], OfTile(p, y, t))
  BY <1>1, <1>2, <1>6, TileBest
<1>. HIDE DEF v, t
<1>8. /\ out'[p] = v /\ selected'[p] = t + 1 /\ copied'[p] = copied[p] /\ temp'[p] = temp[p]
      /\ \A q \in Parts : q # p => /\ out'[q] = out[q] /\ selected'[q] = selected[q]
                                   /\ copied'[q] = copied[q] /\ temp'[q] = temp[q]
  BY <1>2, <1>3, <1>5
<1>9. Tiling(p)'
  <2>1. /\ k' = k /\ Rows' = Rows /\ dist' = dist /\ (Split(p)' <=> Split(p))
        /\ \A y, u : OfTile(p, y, u)' = OfTile(p, y, u)
    BY <1>3, TileSame
  <2>2. Tiling(p)
    BY <1>0, <1>2 DEF FoundInv, Tilings
  <2>3. Split(p) => copied[p] \in {(t + 1) - 1, t + 1}
    BY <1>4, <1>6
  <2>4. \A u \in 0..(copied[p] - 1), y \in Rows : Ranked(k, temp[p][u][y], OfTile(p, y, u))
    BY <2>2 DEF Tiling
  <2>5. \A y \in Rows : Ranked(k, v[y], OfTile(p, y, (t + 1) - 1))
    BY <1>6, <1>7
  <2>. QED BY <1>8, <2>1, <2>3, <2>4, <2>5 DEF Tiling
<1>. QED BY <1>0, <1>1, <1>2, <1>3, <1>8, <1>9, FoundTiling

(* They are copied.                                                          *)
LEMMA FoundCopy ==
  ASSUME IInv, TypeInv, OrderInv, FoundInv, NEW s \in Streams, CopyInOrder(s)
  PROVE  OrderInv' /\ FoundInv'
<1>0. metric = "tiled" /\ Turn(s, "search")
  BY DEF CopyInOrder
<1>1. /\ prepared = TRUE /\ ToSet(running) = {}
      /\ \E p \in 0..(i - 1) : /\ p \in Parts /\ Head(queue[s]) = <<"search", p>> /\ Part(s) = p
                               /\ Queued(queue, <<"search", p>>)
  BY <1>0, TiledHead
<1>2. PICK p \in 0..(i - 1) : p \in Parts /\ Part(s) = p /\ Queued(queue, <<"search", p>>)
  BY <1>1
<1>. DEFINE t == copied[p]
<1>3. /\ Split(p) /\ t < selected[p]
      /\ temp' = [temp EXCEPT ![p][t] = out[p]] /\ copied' = [copied EXCEPT ![p] = t + 1]
      /\ UNCHANGED <<input, out, kernels, request, host, i, queue, prepared, selected, res, roots>>
  BY <1>2 DEF CopyInOrder, CopyTile
<1>4. /\ copied \in [Parts -> Int] /\ temp = [q \in Parts |-> temp[q]] /\ TiledOK(p)
      /\ dist \in Inputs /\ k \in Ks
  BY <1>2 DEF TypeInv, KernelTypes, TiledTypes, IInv
<1>5. t \in Nat /\ selected[p] \in Nat /\ selected[p] <= Tiles(p) /\ Tiles(p) \in Nat
      /\ DOMAIN temp[p] = 0..(Tiles(p) - 1)
  BY <1>2, <1>4, TileShape DEF TiledOK
<1>6. Tiling(p)
  BY <1>0, <1>2 DEF FoundInv, Tilings
<1>7. t = selected[p] - 1
  BY <1>3, <1>5, <1>6 DEF Tiling
<1>8. \A y \in Rows : Ranked(k, out[p][y], OfTile(p, y, t))
  BY <1>3, <1>5, <1>6, <1>7 DEF Tiling
<1>9. \A u \in 0..(t - 1), y \in Rows : Ranked(k, temp[p][u][y], OfTile(p, y, u))
  BY <1>6 DEF Tiling
<1>. HIDE DEF t
<1>10. /\ temp'[p] = [temp[p] EXCEPT ![t] = out[p]]
       /\ \A q \in Parts : q # p => temp'[q] = temp[q]
  BY <1>2, <1>3, <1>4, Entry
<1>11. /\ copied'[p] = t + 1 /\ selected'[p] = selected[p] /\ out'[p] = out[p]
       /\ \A q \in Parts : q # p => /\ out'[q] = out[q] /\ selected'[q] = selected[q]
                                    /\ copied'[q] = copied[q] /\ temp'[q] = temp[q]
  BY <1>2, <1>3, <1>4, <1>10
<1>12. Tiling(p)'
  <2>1. /\ k' = k /\ Rows' = Rows /\ dist' = dist /\ (Split(p)' <=> Split(p))
        /\ \A y, u : OfTile(p, y, u)' = OfTile(p, y, u)
    BY <1>3, TileSame
  <2>2. t + 1 = selected[p]
    BY <1>5, <1>7
  <2>3. ASSUME NEW u \in 0..((t + 1) - 1), NEW y \in Rows
        PROVE  Ranked(k, temp'[p][u][y], OfTile(p, y, u))
    <3>1. t \in 0..(Tiles(p) - 1)
      BY <1>3, <1>5
    <3>2. CASE u = t
      BY <1>5, <1>8, <1>10, <3>1, <3>2
    <3>3. CASE u # t
      <4>1. u \in 0..(t - 1)
        BY <1>5, <3>3
      <4>2. temp'[p][u] = temp[p][u]
        BY <1>5, <1>10, <3>1, <3>3, <4>1
      <4>. QED BY <1>9, <4>1, <4>2
    <3>. QED BY <3>2, <3>3
  <2>. QED BY <1>3, <1>11, <2>1, <2>2, <2>3 DEF Tiling
<1>. QED BY <1>0, <1>1, <1>2, <1>3, <1>11, <1>12, FoundTiling

(* The tiles are not copied apart when the request is answered rightly.      *)
LEMMA NotApart ==
  ASSUME IInv, TypeInv, Answered, NEW s \in Streams, CopyApart(s)
  PROVE  FALSE
<1>1. /\ s \in DOMAIN queue /\ 1 \in DOMAIN queue[s] /\ queue[s][1] = Head(queue[s])
      /\ \E p \in 0..(i - 1) : p \in Parts /\ Head(queue[s]) = <<"copies", p>>
  BY TurnFacts DEF CopyApart, TypeInv, IInv
<1>2. PICK p \in Parts : Head(queue[s]) = <<"copies", p>>
  BY <1>1
<1>3. Queued(queue, <<"copies", p>>)
  BY <1>1, <1>2 DEF Queued
<1>4. metric = "tiled" /\ Split(p) /\ ~InOrder(p)
  BY <1>3 DEF TypeInv, TiledTypes, TiledOK, Apart
<1>. QED BY <1>4 DEF Answered, InOrder, PolicyStream, StreamOf

(* A part has been searched by tiles.                                        *)
LEMMA FoundTiled ==
  ASSUME IInv, TypeInv, OrderInv, FoundInv, Answered, NEW s \in Streams, EndTiled(s)
  PROVE  OrderInv' /\ FoundInv'
<1>0. metric = "tiled" /\ Turn(s, "search")
  BY DEF EndTiled
<1>1. /\ prepared = TRUE /\ ToSet(running) = {}
      /\ \E p \in 0..(i - 1) : /\ p \in Parts /\ Head(queue[s]) = <<"search", p>> /\ Part(s) = p
                               /\ Queued(queue, <<"search", p>>)
  BY <1>0, TiledHead
<1>2. PICK p \in 0..(i - 1) : /\ p \in Parts /\ Head(queue[s]) = <<"search", p>> /\ Part(s) = p
                              /\ Queued(queue, <<"search", p>>)
  BY <1>1
<1>3. dist \in Inputs /\ QueueTypes /\ k \in Ks /\ out \in [Parts -> [Rows -> Lists]] /\ TiledOK(p)
  BY <1>2 DEF TypeInv, KernelTypes, TiledTypes, IInv
<1>4. Size(p) >= k /\ (Split(p) => InOrder(p)) /\ ~(Size(p) < k)
  <2>1. Size(p) >= k /\ (Split(p) => InOrder(p))
    BY <1>0, <1>2 DEF Answered, InOrder, PolicyStream, StreamOf
  <2>2. Size(p) \in Nat /\ k \in Nat
    BY <1>2, <1>3, Shapes, KernelAssumption
  <2>. QED BY <2>1, <2>2
<1>. DEFINE v == [y \in Rows |-> Selection(p, y)]
<1>5. /\ Pop(s) /\ queue[s] # <<>> /\ selected[p] = Tiles(p)
      /\ UNCHANGED <<input, kernels, request, host, i, prepared, tiled, res, roots>>
      /\ Split(p) => copied[p] = Tiles(p) /\ out' = [out EXCEPT ![p] = v]
      /\ ~Split(p) => out' = out
  BY <1>2, <1>4 DEF EndTiled, Turn
<1>6. PopStep(s)
  BY <1>1, <1>2, <1>5 DEF PopStep, input, kernels, ToSet
<1>7. OrderInv'
  BY <1>3, <1>6, OrderPop
<1>8. UNCHANGED <<input, offset>>
  BY <1>5 DEF request
<1>9. KernelsGood'
  BY <1>1, <1>5, <1>8, KernelsStay DEF FoundInv, kernels, ToSet
<1>10. \A y \in Rows : Ranked(k, out'[p][y], OfPart(p, y))
  <2>1. Tiling(p)
    BY <1>0, <1>2 DEF FoundInv, Tilings
  <2>2. CASE Split(p)
    <3>1. out'[p] = v
      BY <1>2, <1>3, <1>5, <2>2
    <3>2. \A t \in 0..(Tiles(p) - 1), y \in Rows : Ranked(k, temp[p][t][y], OfTile(p, y, t))
      BY <1>5, <2>1, <2>2 DEF Tiling
    <3>3. \A y \in Rows : Ranked(k, Selection(p, y), OfPart(p, y))
      BY <1>2, <3>2, SelectionBest
    <3>. QED BY <3>1, <3>3
  <2>3. CASE ~Split(p)
    <3>1. out'[p] = out[p]
      BY <1>5, <2>3
    <3>2. \A y \in Rows : Tiles(p) = 1 /\ OfTile(p, y, 0) = OfPart(p, y)
      BY <1>2, <1>3, <2>3, OnlyTile
    <3>3. ASSUME NEW y \in Rows PROVE Ranked(k, out[p][y], OfPart(p, y))
      <4>1. selected[p] = 1 /\ selected[p] - 1 = 0
        BY <1>5, <3>2
      <4>2. Ranked(k, out[p][y], OfTile(p, y, selected[p] - 1))
        BY <2>1, <2>3, <4>1 DEF Tiling
      <4>. QED BY <3>2, <4>1, <4>2
    <3>. QED BY <3>1, <3>3
  <2>. QED BY <2>2, <2>3
<1>11. Answers(p)'
  <2>1. /\ k' = k /\ Rows' = Rows /\ \A y : OfPart(p, y)' = OfPart(p, y)
    BY <1>8, FoundFrame
  <2>. QED BY <1>10, <2>1 DEF Answers, Ranked
<1>12. \A q \in Parts : Head(queue[s]) # <<"search", q>> => out'[q] = out[q]
  <2>1. \A q \in Parts : q # p => out'[q] = out[q]
    BY <1>2, <1>3, <1>5
  <2>. QED BY <1>2, <2>1
<1>13. Searched'
  <2>1. \A q \in 0..(i - 1) : Head(queue[s]) = <<"search", q>> => q = p
    BY <1>2
  <2>2. \A q \in 0..(i - 1) : Head(queue[s]) = <<"search", q>> => Answers(q)'
    BY <1>11, <2>1
  <2>3. \A q \in 0..(i - 1) : q \in Parts
    BY <1>3, GridRows DEF QueueTypes, Parts
  <2>. QED BY <1>3, <1>5, <1>6, <1>12, <2>2, <2>3, SearchedPop DEF FoundInv
<1>14. Merged'
  BY <1>2, <1>3, <1>5, <1>6, MergedPop DEF FoundInv
<1>15. Tilings'
  BY <1>3, <1>5, <1>6, <1>12, TilingsPop DEF FoundInv
<1>. QED BY <1>7, <1>9, <1>13, <1>14, <1>15 DEF FoundInv

(* The parts are merged: all of them were searched.                          *)
LEMMA FoundMerge ==
  ASSUME IInv, TypeInv, OrderInv, FoundInv, Answered, MergeParts
  PROVE  OrderInv' /\ FoundInv'
<1>1. /\ dist \in Inputs /\ 0 \in Streams /\ QueueTypes /\ prepared \in BOOLEAN
      /\ Turn(0, "merge") /\ Pop(0) /\ queue[0] # <<>>
      /\ UNCHANGED <<input, out, kernels, request, host, i, prepared, tiled>>
      /\ roots' = IF Several THEN 0 ELSE roots
  BY HostAssumption DEF TypeInv, IInv, QueueTypes, Streams, MergeParts, Turn
<1>2. Head(queue[0]) = <<"merge">> /\ prepared = TRUE
  BY <1>1, TurnFacts, TurnPrepared
<1>3. PopStep(0)
  <2>1. Head(queue[0])[1] # "root" /\ \A p : Head(queue[0]) # <<"search", p>>
    BY <1>2
  <2>. QED BY <1>1, <1>2, <2>1 DEF PopStep, input, kernels, ToSet
<1>4. OrderInv'
  BY <1>1, <1>3, OrderPop
<1>5. UNCHANGED <<input, offset>>
  BY <1>1 DEF request
<1>6. KernelsGood'
  BY <1>1, <1>5, KernelsStay DEF FoundInv, kernels, ToSet
<1>7. Searched'
  <2>1. \A p \in 0..(i - 1) : Head(queue[0]) # <<"search", p>>
    BY <1>2
  <2>. QED BY <1>1, <1>3, <2>1, SearchedPop DEF FoundInv
<1>8. \A p \in Parts : Answers(p)
  <2>1. Len(queue[0]) = 1 /\ host = "returned" /\ queue[0][1] = <<"merge">> /\ DOMAIN queue[0] = 1..Len(queue[0])
    <3>1. queue[0] \in Seq(Work(i))
      BY <1>1 DEF QueueTypes
    <3>2. 1 \in DOMAIN queue[0] /\ queue[0][1] = <<"merge">> /\ DOMAIN queue[0] = 1..Len(queue[0])
      BY <1>1, <1>2, <3>1, HeadFirst
    <3>. QED BY <1>1, <3>2 DEF OrderInv, MergeLast
  <2>2. i = Len(dist) /\ \A s \in Streams \ {0} : queue[s] = <<>>
    BY <2>1 DEF OrderInv, MergeLast
  <2>3. ASSUME NEW p PROVE ~Queued(queue, <<"search", p>>)
    <3>1. SUFFICES ASSUME NEW s \in Streams, NEW a \in DOMAIN queue[s], queue[s][a] = <<"search", p>> PROVE FALSE
      BY <1>1 DEF Queued, QueueTypes
    <3>2. s = 0
      BY <2>2, <3>1
    <3>3. a = 1
      BY <2>1, <3>1, <3>2
    <3>. QED BY <2>1, <3>1, <3>2, <3>3
  <2>. QED BY <2>2, <2>3 DEF FoundInv, Searched, Parts
<1>9. Merged'
  <2>1. SUFFICES ASSUME Several \/ Translated, NEW y \in Rows PROVE Best(k, res'[y], All(y))
    BY <1>5, FoundFrame DEF Merged
  <2>2. res'[y] = Nearest([q \in Parts \X Ranks |-> Translate(q[1], out[q[1]][y][q[2]])])
    BY DEF MergeParts
  <2>3. Best(k, Nearest([q \in Parts \X Ranks |-> Translate(q[1], out[q[1]][y][q[2]])]), All(y))
    BY <1>8, <2>1, MergeBest
  <2>. QED BY <2>2, <2>3
<1>10. Tilings'
  BY <1>1, <1>3, TilingsPop DEF FoundInv
<1>. QED BY <1>4, <1>6, <1>7, <1>9, <1>10 DEF FoundInv

(* A kernel is launched.                                                     *)
LEMMA FoundStart ==
  ASSUME IInv, TypeInv, OrderInv, FoundInv, NEW s \in Streams, StartFused(s)
  PROVE  OrderInv' /\ FoundInv'
<1>1. PICK p \in 0..(i - 1) : p \in Parts /\ Head(queue[s]) = <<"search", p>>
  BY TurnFacts DEF StartFused, TypeInv, IInv
<1>2. /\ metric # "tiled" /\ queue[s] # <<>> /\ p \notin ToSet(running) /\ LaunchKernel(p) /\ UNCHANGED hostvars
  BY <1>1 DEF StartFused, Turn, Part
<1>3. UNCHANGED <<input, offset, out, queue, i, metric, pool, dist>>
  BY <1>2 DEF LaunchKernel, hostvars, request, input
<1>4. ToSet(running') = ToSet(running) \cup {p}
  <2>1. running \in Seq(Parts)
    BY DEF TypeInv, KernelTypes
  <2>2. running' = Append(running, p)
    BY <1>2 DEF LaunchKernel
  <2>. QED BY <1>1, <2>1, <2>2 DEF ToSet
<1>5. Runs'
  <2>1. SUFFICES ASSUME NEW q \in ToSet(running')
                 PROVE  metric # "tiled" /\ \E t \in Streams : queue[t] # <<>> /\ Head(queue[t]) = <<"search", q>>
    BY <1>3 DEF Runs, Streams
  <2>2. CASE q = p
    BY <1>1, <1>2, <2>2
  <2>3. CASE q # p
    BY <1>4, <2>1, <2>3 DEF OrderInv, Runs
  <2>. QED BY <2>2, <2>3
<1>6. OrderInv'
  BY <1>2, <1>3, <1>5, OrderStays DEF hostvars
<1>7. KernelsGood'
  <2>1. ASSUME NEW q \in ToSet(running') PROVE KernelGood(Shape(q), cta'[q], mutexes'[q], out[q])
    <3>1. CASE q = p
      BY <1>1, <1>2, <3>1, LaunchGood DEF TypeInv
    <3>2. CASE q # p
      <4>1. cta'[q] = cta[q] /\ mutexes'[q] = mutexes[q]
        BY <1>2, <3>2, OutsideDomain DEF LaunchKernel, IInv
      <4>. QED BY <1>4, <2>1, <3>2, <4>1 DEF FoundInv, KernelsGood
    <3>. QED BY <3>1, <3>2
  <2>2. \A q : Shape(q)' = Shape(q)
    BY <1>3, FoundFrame
  <2>. QED BY <1>3, <2>1, <2>2 DEF KernelsGood, ToSet
<1>8. Searched'
  <2>1. \A q \in 0..(i - 1) : ~Queued(queue, <<"search", q>>) => Answers(q)'
    BY <1>3, AnswersSame DEF FoundInv, Searched
  <2>. QED BY <1>3, <2>1 DEF Searched
<1>9. Merged'
  BY <1>2, <1>3, MergedStays DEF FoundInv, hostvars
<1>10. Tilings'
  BY <1>2, <1>3, TilingsStay DEF FoundInv, hostvars
<1>. QED BY <1>6, <1>7, <1>8, <1>9, <1>10 DEF FoundInv

(* A CTA of a kernel moves.                                                  *)
LEMMA FoundCta ==
  ASSUME IInv, TypeInv, OrderInv, FoundInv, NEW p \in ToSet(running), NEW c \in DOMAIN cta[p], Cta(p, c),
         UNCHANGED hostvars
  PROVE  OrderInv' /\ FoundInv'
<1>1. p \in Parts /\ KernelTypes
  BY DEF TypeInv, KernelTypes, ToSet
<1>2. UNCHANGED <<input, running, offset, queue, i, metric, pool, dist>>
  BY <1>1, CtaOutput DEF hostvars, request, input
<1>3. ASSUME NEW q \in Parts, q # p
      PROVE  cta'[q] = cta[q] /\ mutexes'[q] = mutexes[q] /\ out'[q] = out[q]
  <2>1. PICK r : Move(p, c, r)
    BY DEF Cta, Dispatch, Tile, Acquire, Write, Release, Take, Copy, Free, Merge, Store
  <2>2. mutexes' = mutexes \/ \E y, b : mutexes' = [mutexes EXCEPT ![p][y] = b]
    BY DEF Cta, Dispatch, Tile, Acquire, Write, Release, Take, Copy, Free, Merge, Store, Swap, Set
  <2>3. out' = out \/ \E y, b : out' = [out EXCEPT ![p][y] = b]
    BY DEF Cta, Dispatch, Tile, Acquire, Write, Release, Take, Copy, Free, Merge, Store
  <2>4. DOMAIN cta = Parts /\ DOMAIN mutexes = Parts /\ DOMAIN out = Parts
    BY <1>1 DEF KernelTypes, IInv
  <2>5. cta'[q] = cta[q]
    BY <1>3, <2>1, <2>4 DEF Move
  <2>6. mutexes'[q] = mutexes[q]
    BY <1>3, <2>2, <2>4
  <2>7. out'[q] = out[q]
    BY <1>3, <2>3, <2>4
  <2>. QED BY <2>5, <2>6, <2>7
<1>4. Runs'
  BY <1>2 DEF OrderInv, Runs, Streams, ToSet
<1>5. OrderInv'
  BY <1>2, <1>4, OrderStays DEF hostvars
<1>6. KernelsGood'
  <2>1. ASSUME NEW q \in ToSet(running) PROVE KernelGood(Shape(q), cta'[q], mutexes'[q], out'[q])
    <3>1. KernelGood(Shape(q), cta[q], mutexes[q], out[q])
      BY DEF FoundInv, KernelsGood
    <3>2. CASE q = p
      BY <1>1, <3>1, <3>2, CtaGood
    <3>3. CASE q # p
      <4>1. q \in Parts
        BY <1>1 DEF KernelTypes, ToSet
      <4>. QED BY <1>3, <3>1, <3>3, <4>1
    <3>. QED BY <3>2, <3>3
  <2>2. \A q : Shape(q)' = Shape(q)
    BY <1>2, FoundFrame
  <2>. QED BY <1>2, <2>1, <2>2 DEF KernelsGood, ToSet
<1>7. Queued(queue, <<"search", p>>)
  <2>1. PICK t \in Streams : queue[t] # <<>> /\ Head(queue[t]) = <<"search", p>>
    BY DEF OrderInv, Runs
  <2>2. queue \in [Streams -> Seq(Work(i))]
    BY DEF TypeInv, QueueTypes
  <2>3. 1 \in DOMAIN queue[t] /\ queue[t][1] = <<"search", p>>
    BY <2>1, <2>2, HeadFirst
  <2>. QED BY <2>2, <2>3 DEF Queued
<1>8. Searched'
  <2>1. ASSUME NEW q \in 0..(i - 1), ~Queued(queue, <<"search", q>>) PROVE Answers(q)'
    <3>1. q # p
      BY <1>7, <2>1
    <3>2. dist \in Inputs /\ i \in 0..Len(dist)
      BY DEF TypeInv, QueueTypes, IInv
    <3>3. q \in Parts
      BY <2>1, <3>2, GridRows DEF Parts
    <3>4. out'[q] = out[q] /\ Answers(q)
      BY <1>3, <2>1, <3>1, <3>3 DEF FoundInv, Searched
    <3>. QED BY <1>2, <3>4, AnswersSame
  <2>. QED BY <1>2, <2>1 DEF Searched
<1>9. Merged'
  BY <1>2, MergedStays DEF FoundInv, hostvars
<1>10. Tilings'
  <2>1. metric # "tiled"
    BY DEF OrderInv, Runs
  <2>. QED BY <1>2, <2>1, TilingsStay DEF FoundInv, hostvars
<1>. QED BY <1>5, <1>6, <1>8, <1>9, <1>10 DEF FoundInv

-----------------------------------------------------------------------------
(* At the start nothing was searched.                                        *)
LEMMA FoundInit == Init => FoundInv
<1>. SUFFICES ASSUME Init PROVE FoundInv
  OBVIOUS
<1>1. host = "start" /\ i = 0 /\ running = <<>>
  BY DEF Init, KernelInit
<1>2. ToSet(running) = {} /\ 0..(i - 1) = {}
  BY <1>1 DEF ToSet
<1>3. \A op : ~Queued(queue, op)
  BY DEF Init, Queued
<1>. QED BY <1>1, <1>2, <1>3 DEF FoundInv, KernelsGood, Searched, Merged, Tilings

(* The host queues work, or returns.                                         *)
LEMMA FoundHost ==
  ASSUME IInv, TypeInv, OrderInv, FoundInv, Host
  PROVE  OrderInv' /\ FoundInv'
<1>1. UNCHANGED <<input, out, kernels, offset>> /\ dist \in Inputs /\ QueueTypes
  BY DEF Host, Prepare, SearchPart, SyncStreamPool, request, TypeInv, IInv
<1>2. KernelsGood'
  BY <1>1, KernelsStay DEF FoundInv, kernels, ToSet
<1>3. \A q : Answers(q) => Answers(q)'
  BY <1>1, AnswersSame
<1>4. CASE Prepare
  <2>1. i' = 0 /\ host' = "parts"
    BY <1>4 DEF OrderInv, Waits, Prepare
  <2>2. 0..(i' - 1) = {}
    BY <2>1
  <2>3. Searched' /\ Merged'
    BY <2>1, <2>2 DEF Searched, Merged
  <2>4. \A p : ~Queued(queue', <<"search", p>>)
    <3>1. \A s \in DOMAIN queue' : \A a \in DOMAIN queue'[s] : queue'[s][a] \in {<<"transpose">>, <<"wait">>}
      BY <1>4 DEF Prepare
    <3>. QED BY <3>1 DEF Queued
  <2>5. Tilings'
    BY <2>4 DEF Tilings
  <2>. QED BY <1>1, <1>2, <1>4, <2>3, <2>5, OrderPrepare DEF FoundInv
<1>5. CASE SearchPart
  <2>1. /\ i \in Nat /\ i' = i + 1
        /\ \A op : Queued(queue, op) => Queued(queue', op)
        /\ Queued(queue', <<"search", i>>)
    BY <1>1, <1>5, SearchPartQueue
  <2>2. Searched'
    <3>1. ASSUME NEW q \in 0..i, ~Queued(queue', <<"search", q>>) PROVE Answers(q)'
      <4>1. q # i
        BY <2>1, <3>1
      <4>2. q \in 0..(i - 1) /\ ~Queued(queue, <<"search", q>>)
        BY <2>1, <3>1, <4>1
      <4>. QED BY <1>3, <4>2 DEF FoundInv, Searched
    <3>2. 0..(i' - 1) = 0..i
      BY <2>1
    <3>. QED BY <3>1, <3>2 DEF Searched
  <2>3. Merged'
    BY <1>5 DEF Merged, SearchPart
  <2>4. Tilings'
    <3>1. SUFFICES ASSUME metric' = "tiled", NEW p \in Parts', Queued(queue', <<"search", p>>)
                   PROVE  Tiling(p)'
      BY DEF Tilings
    <3>2. UNCHANGED <<input, out, request, tiled>> /\ Parts' = Parts /\ metric' = metric
      BY <1>5, Frame DEF SearchPart, request
    <3>3. Tiling(p)
      <4>1. CASE Queued(queue, <<"search", p>>)
        BY <3>1, <3>2, <4>1 DEF FoundInv, Tilings
      <4>2. CASE ~Queued(queue, <<"search", p>>)
        <5>1. p = i
          BY <1>1, <1>5, <3>1, <4>2, SearchPartQueue
        <5>2. selected[p] = 0 /\ copied[p] = 0
          <6>1. TiledOK(p)
            BY <3>1, <3>2 DEF TypeInv, TiledTypes
          <6>. QED BY <2>1, <5>1, <6>1 DEF TiledOK
        <5>. QED BY <5>2 DEF Tiling
      <4>. QED BY <4>1, <4>2
    <3>. QED BY <3>2, <3>3, TilingSame DEF tiled
  <2>. QED BY <1>1, <1>2, <1>5, <2>2, <2>3, <2>4, OrderSearch DEF FoundInv
<1>6. CASE SyncStreamPool
  <2>1. /\ OrderInv'
        /\ \A op : Queued(queue', op) <=> Queued(queue, op) \/ (op = <<"merge">> /\ (Several \/ Translated))
    BY <1>1, <1>6, OrderSync
  <2>2. Searched'
    BY <1>3, <1>6, <2>1 DEF FoundInv, Searched, SyncStreamPool
  <2>3. Merged'
    <3>1. (Several' <=> Several) /\ (Translated' <=> Translated)
      BY <1>1, FoundFrame
    <3>. QED BY <2>1, <3>1 DEF Merged
  <2>4. Tilings'
    <3>1. \A p : Queued(queue', <<"search", p>>) => Queued(queue, <<"search", p>>)
      <4>1. \A p : <<"search", p>> # <<"merge">>
        OBVIOUS
      <4>. QED BY <2>1, <4>1
    <3>2. UNCHANGED <<input, request, tiled>> /\ out' = out
      BY <1>6 DEF SyncStreamPool
    <3>3. Tilings
      BY DEF FoundInv
    <3>. QED BY <3>1, <3>2, <3>3, TilingsStay
  <2>. QED BY <1>2, <2>1, <2>2, <2>3, <2>4 DEF FoundInv
<1>. QED BY <1>4, <1>5, <1>6 DEF Host

(* Every step keeps what was found.                                          *)
LEMMA FoundNext ==
  ASSUME IInv, TypeInv, OrderInv, FoundInv, Answered, [Next]_vars
  PROVE  OrderInv' /\ FoundInv'
<1>1. dist \in Inputs /\ QueueTypes /\ 0 \in Streams /\ prepared \in BOOLEAN
  BY HostAssumption DEF TypeInv, IInv, QueueTypes, Streams
<1>2. CASE Host
  BY <1>2, FoundHost
<1>3. CASE Transpose
  <2>1. /\ Turn(0, "transpose") /\ Pop(0) /\ queue[0] # <<>> /\ prepared' = TRUE
        /\ UNCHANGED <<input, out, kernels, request, host, i, tiled, res, roots>>
    BY <1>3 DEF Transpose, Turn
  <2>2. Head(queue[0]) = <<"transpose">>
    BY <1>1, <2>1, TurnFacts
  <2>3. PopStep(0)
    BY <1>1, <2>1, <2>2 DEF PopStep, input, kernels, ToSet
  <2>4. Head(queue[0]) # <<"merge">> /\ \A p : Head(queue[0]) # <<"search", p>>
    BY <2>2
  <2>. QED BY <1>1, <2>1, <2>3, <2>4, OrderPop, FoundPop
<1>4. CASE MergeParts
  BY <1>4, FoundMerge
<1>5. ASSUME NEW s \in Streams, Stream(s)
      PROVE  OrderInv' /\ FoundInv'
  <2>1. CASE Wait(s)
    <3>1. /\ Turn(s, "wait") /\ Pop(s) /\ queue[s] # <<>> /\ prepared' = TRUE
          /\ UNCHANGED <<input, out, kernels, request, host, i, tiled, res, roots>>
      BY <1>1, <2>1 DEF Wait, Turn
    <3>2. Head(queue[s]) = <<"wait">>
      BY <1>1, <3>1, TurnFacts
    <3>3. PopStep(s)
      BY <1>1, <3>1, <3>2 DEF PopStep, input, kernels, ToSet
    <3>4. Head(queue[s]) # <<"merge">> /\ \A p : Head(queue[s]) # <<"search", p>>
      BY <3>2
    <3>. QED BY <1>1, <3>1, <3>3, <3>4, OrderPop, FoundPop
  <2>2. CASE Root(s)
    <3>1. /\ Turn(s, "root") /\ Pop(s) /\ queue[s] # <<>> /\ roots' = roots + 1
          /\ UNCHANGED <<input, out, kernels, request, host, i, prepared, tiled, res>>
      BY <2>2 DEF Root, Turn
    <3>2. Head(queue[s])[1] = "root" /\ prepared' = TRUE
      BY <1>1, <3>1, TurnPrepared DEF Turn
    <3>3. Head(queue[s]) # <<"merge">> /\ \A p : Head(queue[s]) # <<"search", p>>
      BY <3>2
    <3>4. PopStep(s)
      BY <1>1, <3>1, <3>2, <3>3 DEF PopStep, input, kernels, ToSet
    <3>. QED BY <1>1, <3>1, <3>3, <3>4, OrderPop, FoundPop
  <2>3. CASE CopyApart(s)
    BY <2>3, NotApart
  <2>. QED BY <1>5, <2>1, <2>2, <2>3, FoundStart, FoundEnd, FoundSelect, FoundCopy, FoundTiled DEF Stream
<1>6. ASSUME NEW p \in ToSet(running), NEW c \in DOMAIN cta[p], Cta(p, c), UNCHANGED hostvars
      PROVE  OrderInv' /\ FoundInv'
  BY <1>6, FoundCta
<1>7. CASE UNCHANGED vars
  <2>1. UNCHANGED <<input, out, kernels, hostvars, offset, dist>>
    BY <1>7 DEF vars, input, hostvars, request
  <2>2. UNCHANGED <<queue, metric, i>>
    BY <2>1 DEF hostvars, request
  <2>3. Runs'
    BY <2>1, <2>2 DEF OrderInv, Runs, Streams, kernels, ToSet, hostvars, request
  <2>4. OrderInv'
    BY <2>1, <2>3, OrderStays DEF hostvars
  <2>5. KernelsGood'
    BY <2>1, KernelsStay DEF FoundInv, kernels, ToSet
  <2>6. Searched'
    <3>1. \A q : Answers(q) => Answers(q)'
      BY <2>1, AnswersSame
    <3>. QED BY <2>2, <3>1 DEF FoundInv, Searched
  <2>7. Merged'
    BY <2>1, MergedStays DEF FoundInv, hostvars
  <2>8. Tilings'
    BY <2>1, TilingsStay DEF FoundInv, hostvars
  <2>. QED BY <2>4, <2>5, <2>6, <2>7, <2>8 DEF FoundInv
<1>. QED BY <1>2, <1>3, <1>4, <1>5, <1>6, <1>7 DEF Next, Device

(* What is answered rightly is said by what is asked.                        *)
LEMMA AnsweredStays ==
  ASSUME IInv, TypeInv, [Next]_vars
  PROVE  Answered' <=> Answered
<1>1. UNCHANGED <<input, request>>
  <2>1. CASE Host
    BY <2>1 DEF Host, Prepare, SearchPart, SyncStreamPool
  <2>2. CASE Transpose \/ MergeParts
    BY <2>2 DEF Transpose, MergeParts
  <2>3. ASSUME NEW s \in Streams, Stream(s) PROVE UNCHANGED <<input, request>>
    BY <2>3 DEF Stream, Wait, StartFused, EndFused, SelectTile, CopyInOrder, CopyApart, CopyTile, EndTiled, Root,
                LaunchKernel, EndKernel, hostvars
  <2>4. ASSUME NEW p \in ToSet(running), NEW c \in DOMAIN cta[p], Cta(p, c), UNCHANGED hostvars
        PROVE  UNCHANGED <<input, request>>
    <3>1. p \in Parts
      BY DEF TypeInv, KernelTypes, ToSet
    <3>. QED BY <2>4, <3>1, CtaOutput DEF TypeInv, hostvars
  <2>5. CASE UNCHANGED vars
    BY <2>5 DEF vars, hostvars
  <2>. QED BY <2>1, <2>2, <2>3, <2>4, <2>5 DEF Next, Device
<1>2. UNCHANGED <<input, metric, pool, offset, cached>>
  BY <1>1 DEF request
<1>3. /\ k' = k /\ metric' = metric /\ Parts' = Parts /\ pool' = pool /\ cached' = cached
      /\ (Several' <=> Several) /\ (Translated' <=> Translated)
      /\ \A p : Size(p)' = Size(p) /\ (Split(p)' <=> Split(p))
  BY <1>1, <1>2, FoundFrame, TiledFrame
<1>. QED BY <1>3 DEF Answered

(* What is found is invariant, for the inputs that are answered rightly.     *)
FoundAll == Answered => OrderInv /\ FoundInv
LEMMA FoundInvariance == Spec => []FoundAll
<1>1. Init => FoundAll
  BY OrderInit, FoundInit DEF FoundAll
<1>2. IInv /\ TypeInv /\ FoundAll /\ [Next]_vars => FoundAll'
  BY FoundNext, AnsweredStays DEF FoundAll
<1>. QED BY <1>1, <1>2, Invariance, TypeInvariance, PTL DEF Spec

-----------------------------------------------------------------------------
(* When all has ended, the result is the best of all.                        *)
LEMMA DoneBest ==
  ASSUME IInv, TypeInv, OrderInv, FoundInv, Done, NEW y \in Rows
  PROVE  Best(k, Result(y), All(y))
<1>1. dist \in Inputs /\ QueueTypes /\ i = Len(dist) /\ host = "returned" /\ \A op : ~Queued(queue, op)
  <2>1. \A op : ~Queued(queue, op)
    BY DEF Queued, Done, TypeInv, QueueTypes
  <2>. QED BY <2>1 DEF IInv, TypeInv, OrderInv, MergeLast, Done
<1>2. CASE Several \/ Translated
  BY <1>1, <1>2 DEF FoundInv, Merged, Result
<1>3. CASE ~(Several \/ Translated)
  <2>1. Len(dist) = 1 /\ Parts = {0}
    BY <1>1, <1>3, OnePart
  <2>2. Best(k, out[0][y], OfPart(0, y))
    BY <1>1, <2>1 DEF FoundInv, Searched, Answers
  <2>3. All(y) = OfPart(0, y)
    <3>1. By(0) = 0
      BY <1>1, <1>3, FirstFacts DEF By
    <3>2. All(y) = Shifted(OfPart(0, y), 0)
      <4>1. All(y) = UNION {Shifted(OfPart(p, y), By(p)) : p \in {0}}
        BY <1>1, <2>1, AllIs
      <4>. QED BY <3>1, <4>1
    <3>3. OfPart(0, y) \in SUBSET (Int \X Int)
      BY <1>1, <2>1, CandFacts DEF OfPart
    <3>4. \A e \in OfPart(0, y) : Shift(e, 0) = e
      <4>. HIDE DEF OfPart
      <4>. QED BY <3>3 DEF Shift
    <3>. QED BY <3>2, <3>4 DEF Shifted
  <2>. QED BY <1>3, <2>2, <2>3 DEF Result
<1>. QED BY <1>2, <1>3

(* The best of a set are in order, and none of the others is nearer.         *)
Foremost(S, n) == 0..((IF Cardinality(S) < n THEN Cardinality(S) ELSE n) - 1)
InFront(a, S, F) ==
  /\ \A x \in F : a[x] \in S
  /\ \A x, z \in F : x < z => a[x] # a[z] /\ a[x][1] <= a[z][1]
  /\ \A x \in F, f \in S : (\A z \in F : a[z] # f) => a[x][1] <= f[1]

(* The first places of a list of the best are in order, the nearest first.   *)
LEMMA BestFacts ==
  ASSUME NEW S \in SUBSET (Int \X Int), IsFiniteSet(S), NEW n \in Nat, NEW a, Best(n, a, S)
  PROVE  InFront(a, S, Foremost(S, n))
<1>. DEFINE F == Foremost(S, n)
<1>0. F = 0..((IF Cardinality(S) < n THEN Cardinality(S) ELSE n) - 1)
  BY DEF Foremost
<1>. HIDE DEF F
<1>1. Cardinality(S) \in Nat /\ \A x \in F : x \in 0..(n - 1) /\ x < Cardinality(S)
  BY <1>0, RankFacts
<1>2. \A x \in F : a[x] \in S /\ a[x] \in Int \X Int /\ Cardinality(Lower(S, a[x])) = x /\ x \in Nat
  BY <1>1 DEF Best
<1>3. ASSUME NEW x \in F, NEW z \in F, x < z
      PROVE  a[x] # a[z] /\ a[x][1] <= a[z][1]
  <2>1. a[x] # a[z] /\ ~Precedes(a[z], a[x])
    BY <1>2, <1>3, RankFacts
  <2>. QED BY <1>2, <2>1, Order
<1>4. ASSUME NEW x \in F, NEW f \in S, \A z \in F : a[z] # f
      PROVE  a[x][1] <= f[1]
  <2>. DEFINE z == Cardinality(Lower(S, f))
  <2>1. z \in Nat /\ z < Cardinality(S) /\ f \in Int \X Int
    BY RankFacts
  <2>2. z \notin F
    <3>1. SUFFICES ASSUME z \in F PROVE FALSE
      OBVIOUS
    <3>2. a[z] \in S /\ Cardinality(Lower(S, a[z])) = z
      BY <1>2, <3>1
    <3>3. a[z] = f
      BY <3>2, RankFacts
    <3>. QED BY <1>4, <3>1, <3>3
  <2>3. x < z
    BY <1>0, <1>1, <2>1, <2>2
  <2>4. ~Precedes(f, a[x]) /\ f # a[x]
    BY <1>2, <2>1, <2>3, RankFacts
  <2>. QED BY <1>2, <2>1, <2>4, Order
<1>. QED BY <1>2, <1>3, <1>4 DEF InFront, F

(* When the call has returned and its work has ended, the result is the k    *)
(* nearest neighbors of all parts, in order, each once and under its own id, *)
(* and with the root of its distance if the metric asks for it: for every    *)
(* input that brute_force_knn_impl answers rightly, whatever the parts, the  *)
(* pool, the order of the streams and of the CTAs of their kernels.          *)
THEOREM NearestCorrect == Spec => []NearestFound
<1>1. IInv /\ TypeInv /\ FoundAll => NearestFound
  <2>. SUFFICES ASSUME IInv, TypeInv, OrderInv, FoundInv, Answered, Done
                PROVE  /\ roots = IF metric = "fused_sqrt" THEN 1 ELSE 0
                       /\ \A y \in Rows :
                            LET found == 0..((IF Cardinality(All(y)) < k THEN Cardinality(All(y)) ELSE k) - 1)
                                chosen == {Result(y)[x] : x \in found}
                            IN  /\ chosen \subseteq All(y)
                                /\ \A x, z \in found :
                                     x < z => Result(y)[x] # Result(y)[z] /\ Result(y)[x][1] <= Result(y)[z][1]
                                /\ \A e \in chosen, f \in All(y) \ chosen : e[1] <= f[1]
    BY DEF NearestFound, Rooted, FoundAll
  <2>1. /\ dist \in Inputs /\ QueueTypes /\ k \in Nat /\ i = Len(dist) /\ i # 0
        /\ ~Queued(queue, <<"root", 0>>)
    <3>1. ~Queued(queue, <<"root", 0>>)
      BY DEF Queued, Done, TypeInv, QueueTypes
    <3>2. Len(dist) # 0
      BY GridRows DEF IInv
    <3>. QED BY <3>1, <3>2, KernelAssumption DEF IInv, TypeInv, KernelTypes, OrderInv, MergeLast, Done
  <2>2. roots = IF metric = "fused_sqrt" THEN 1 ELSE 0
    BY <2>1 DEF OrderInv, RootTaken, Answered
  <2>3. ASSUME NEW y \in Rows,
               NEW found, found = 0..((IF Cardinality(All(y)) < k THEN Cardinality(All(y)) ELSE k) - 1)
        PROVE  /\ \A x \in found : Result(y)[x] \in All(y)
               /\ \A x, z \in found : x < z => Result(y)[x] # Result(y)[z] /\ Result(y)[x][1] <= Result(y)[z][1]
               /\ \A x \in found, f \in All(y) \ {Result(y)[z] : z \in found} : Result(y)[x][1] <= f[1]
    <3>1. All(y) \in SUBSET (Int \X Int) /\ IsFiniteSet(All(y))
      BY <2>1, AllFacts
    <3>2. Best(k, Result(y), All(y))
      BY DoneBest
    <3>. DEFINE S == All(y)
                a == Result(y)
    <3>3. /\ S \in SUBSET (Int \X Int) /\ IsFiniteSet(S) /\ Best(k, a, S)
          /\ found = Foremost(S, k)
      BY <2>3, <3>1, <3>2 DEF Foremost
    <3>. HIDE DEF S, a
    <3>4. /\ \A x \in found : a[x] \in S
          /\ \A x, z \in found : x < z => a[x] # a[z] /\ a[x][1] <= a[z][1]
          /\ \A x \in found, f \in S : (\A z \in found : a[z] # f) => a[x][1] <= f[1]
      <4>1. InFront(a, S, Foremost(S, k))
        BY <2>1, <3>3, BestFacts
      <4>. QED BY <3>3, <4>1 DEF InFront
    <3>. QED BY <3>4 DEF S, a
  <2>. QED BY <2>2, <2>3
<1>. QED BY <1>1, Invariance, TypeInvariance, FoundInvariance, PTL

=============================================================================
