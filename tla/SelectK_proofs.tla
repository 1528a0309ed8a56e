---------------------------- MODULE SelectK_proofs ----------------------------
(***************************************************************************)
(* Proofs about SelectK, for any rows, capacities and block sizes: the     *)
(* tree merge of a block needs one barrier in a round, and the warps       *)
(* select the k best elements of a row.                                    *)
(***************************************************************************)
EXTENDS SelectK, FiniteSetTheorems, NaturalsInduction, WellFoundedInduction, TLAPS

(* The barrier that ends the stores of a subwarp's round: the first one      *)
(* comes after that of done, if there is one there.                          *)
FirstRound == IF variant = "distributed_ext" THEN 2 ELSE 1
Round(s) == IF sub[s].pc = "load" THEN sub[s].arrived
            ELSE IF sub[s].pc = "add" THEN FirstRound ELSE sub[s].arrived + 1

Pieces == 0..(CeilDiv(nwarps, 2) - 1)

SubOK(s) ==
  /\ {"pc", "arrived", "nwarps", "shift"} \subseteq DOMAIN sub[s]
  /\ sub[s].arrived \in Nat /\ sub[s].nwarps \in Nat \ {0} /\ sub[s].shift \in BOOLEAN
  /\ sub[s].nwarps <= nwarps
  /\ ~sub[s].shift => sub[s].nwarps <= CeilDiv(nwarps, 2)
  /\ sub[s].pc = "add" => sub[s].arrived = 0
  /\ Round(s) >= FirstRound

Domains ==
  /\ DOMAIN sub = Subwarps /\ DOMAIN queue = Subwarps /\ DOMAIN smem = Pieces
  /\ \A s \in Subwarps : SubOK(s)

(* Nobody is more than one round ahead of another, and what a round is like  *)
(* follows from its number.                                                  *)
Barriers ==
  \A s, t \in Subwarps : Round(s) > FirstRound => sub[t].arrived >= Round(s) - 1
Agreement ==
  \A s, t \in Subwarps :
    /\ Round(t) = Round(s) => sub[t].nwarps = sub[s].nwarps /\ sub[t].shift = sub[s].shift
    /\ Round(t) = Round(s) + 1 => sub[t].nwarps = Split(s) /\ sub[t].shift = ~sub[s].shift

(* What a subwarp stores.                                                    *)
BestOf(S, m, min) ==
  LET key(e) == IF min THEN e[1] ELSE 2^Width - 1 - e[1]
      before(a, b) == key(a) < key(b) \/ (a[1] = b[1] /\ a[2] < b[2])
  IN  {x \in S : Cardinality({y \in S : before(y, x)}) < m}
Kept(s) == BestOf(queue[s], Trimmed, select_min)

(* What was stored for a subwarp is there until it has been loaded, although *)
(* its partner may have gone on to the next round,                           *)
ForLoad ==
  \A s, t \in Subwarps :
    t = s + Split(s) /\ t < sub[s].nwarps /\ sub[t].arrived >= Round(s)
    => smem[LoadPlace(s)] = Kept(t)

(* and what was stored for one that is still in the round before, too.       *)
ForLater ==
  \A s, t \in Subwarps :
    sub[t].pc = "load" /\ t = s + Split(t) /\ t < sub[t].nwarps /\ Round(s) = Round(t) - 1
    => smem[StorePlace(t)] = Kept(t)

TreeInv == Domains /\ Barriers /\ Agreement /\ ForLoad /\ ForLater

IInv ==
  /\ nwarps \in Int
  /\ algo = "radix" => where # "warpsort"
  /\ where = "warpsort" => TreeInv

still == <<select_min, variant, nwarps, k, n, num_of_block, merging>>

-----------------------------------------------------------------------------
LEMMA Halves ==
  ASSUME NEW a \in Nat \ {0}
  PROVE  /\ (a + 1) \div 2 \in Nat \ {0} /\ (a + 1) \div 2 <= a
         /\ a - (a + 1) \div 2 <= (a + 1) \div 2
         /\ a > 1 => (a + 1) \div 2 < a
         /\ CeilDiv(a, 2) = (a + 1) \div 2
         /\ \A b \in Nat : a <= b => (a + 1) \div 2 <= (b + 1) \div 2
BY DEF CeilDiv

LEMMA SubwarpFacts ==
  ASSUME nwarps \in Int, Domains, NEW s \in Subwarps
  PROVE  /\ s \in Nat /\ s < nwarps /\ nwarps \in Nat \ {0}
         /\ SubOK(s)
         /\ Split(s) \in Nat \ {0} /\ Split(s) <= sub[s].nwarps
         /\ sub[s].nwarps - Split(s) <= Split(s)
         /\ Split(s) <= CeilDiv(nwarps, 2) /\ CeilDiv(nwarps, 2) \in Nat
         /\ FirstRound \in Nat \ {0}
         /\ Round(s) \in Nat \ {0}
         /\ sub[s].arrived <= Round(s)
         /\ sub[s].pc \notin {"load", "add"} => Round(s) = sub[s].arrived + 1
         /\ sub[s].pc = "load" => Round(s) = sub[s].arrived
<1>1. s \in Nat /\ s < nwarps /\ nwarps \in Nat \ {0} /\ SubOK(s)
  BY DEF Subwarps, Domains
<1>2. /\ Split(s) \in Nat \ {0} /\ Split(s) <= sub[s].nwarps
      /\ sub[s].nwarps - Split(s) <= Split(s)
      /\ Split(s) <= CeilDiv(nwarps, 2) /\ CeilDiv(nwarps, 2) \in Nat
  BY <1>1, Halves DEF SubOK, Split
<1>3. FirstRound \in Nat \ {0}
  BY DEF FirstRound
<1> QED
  BY <1>1, <1>2, <1>3 DEF SubOK, Round

(* Rounds of two subwarps.                                                   *)
LEMMA Near ==
  ASSUME nwarps \in Int, Domains, Barriers, NEW s \in Subwarps, NEW t \in Subwarps
  PROVE  Round(t) >= Round(s) - 1
BY SubwarpFacts DEF Barriers, SubOK

(* What is stored in one round goes to different places.                     *)
LEMMA Places ==
  ASSUME nwarps \in Int, Domains, NEW s \in Subwarps, Split(s) <= s, s < sub[s].nwarps
  PROVE  StorePlace(s) \in Pieces
BY SubwarpFacts DEF StorePlace, Pieces, SubOK

LEMMA KeptBest ==
  ASSUME NEW s
  PROVE  /\ Kept(s) = Best(queue[s], Trimmed)
         /\ Kept(s)' = Best(queue[s], Trimmed)'
BY DEF Kept, BestOf, Best, Precedes, Better, Twiddle

-----------------------------------------------------------------------------
LEMMA StillTrimmed ==
  ASSUME UNCHANGED still
  PROVE  Trimmed' = Trimmed /\ Subwarps' = Subwarps /\ Pieces' = Pieces
         /\ FirstRound' = FirstRound /\ CeilDiv(nwarps, 2)' = CeilDiv(nwarps, 2)
BY DEF still, Trimmed, Size, Smaller, Subwarps, Pieces, FirstRound, CeilDiv

LEMMA StartInv ==
  ASSUME nwarps \in Int, NEW b, StartOfBlock(b), UNCHANGED <<variant, nwarps>>
  PROVE  TreeInv'
<1> USE DEF StartOfBlock
<1>1. /\ Subwarps' = Subwarps /\ FirstRound' = FirstRound /\ Pieces' = Pieces
      /\ FirstRound \in Nat \ {0}
  BY DEF Subwarps, FirstRound, Pieces, CeilDiv
<1>2. ASSUME NEW s \in Subwarps
      PROVE  /\ sub'[s] = [pc |-> "add", arrived |-> 0, nwarps |-> nwarps, shift |-> TRUE]
             /\ Round(s)' = FirstRound
             /\ SubOK(s)'
  <2>1. sub'[s] = [pc |-> "add", arrived |-> 0, nwarps |-> nwarps, shift |-> TRUE]
    OBVIOUS
  <2>2. nwarps \in Nat \ {0}
    BY <1>2 DEF Subwarps
  <2>3. /\ {"pc", "arrived", "nwarps", "shift"} \subseteq DOMAIN sub'[s]
        /\ sub'[s].pc = "add" /\ sub'[s].arrived = 0 /\ sub'[s].nwarps = nwarps /\ sub'[s].shift = TRUE
    BY <2>1
  <2>4. Round(s)' = FirstRound
    BY <1>1, <2>3 DEF Round
  <2>5. sub'[s].shift \in BOOLEAN /\ (~sub'[s].shift => sub'[s].nwarps <= CeilDiv(nwarps, 2)')
    BY <2>3, Zenon
  <2>6. nwarps' = nwarps /\ Round(s)' >= FirstRound'
    BY <1>1, <2>4
  <2> HIDE DEF StartOfBlock
  <2>7. SubOK(s)'
    BY <2>2, <2>3, <2>5, <2>6 DEF SubOK
  <2> QED
    BY <2>1, <2>4, <2>7
<1>3. Domains'
  BY <1>1, <1>2 DEF Domains, Pieces
<1>4. Barriers' /\ Agreement'
  BY <1>1, <1>2 DEF Barriers, Agreement
<1>5. ForLoad'
  BY <1>1, <1>2 DEF ForLoad
<1>6. ForLater'
  BY <1>1, <1>2 DEF ForLater
<1> QED
  BY <1>3, <1>4, <1>5, <1>6 DEF TreeInv

(* A step in which nobody enters a round or stores.                          *)
LEMMA Frame ==
  ASSUME nwarps \in Int, TreeInv, UNCHANGED still, smem' = smem,
         DOMAIN queue' = Subwarps, DOMAIN sub' = Subwarps,
         \A s \in Subwarps :
           /\ {"pc", "arrived", "nwarps", "shift"} \subseteq DOMAIN sub'[s]
           /\ sub'[s].nwarps = sub[s].nwarps /\ sub'[s].shift = sub[s].shift
           /\ sub'[s].arrived \in Nat /\ sub'[s].arrived >= sub[s].arrived
           /\ sub'[s].pc = "add" => sub'[s].arrived = 0
           /\ Round(s)' = Round(s)
           /\ sub'[s].pc = "load" => sub[s].pc = "load" /\ queue'[s] = queue[s]
           /\ \/ queue'[s] = queue[s] /\ sub'[s].arrived = sub[s].arrived
              \/ sub'[s].arrived < FirstRound
  PROVE  TreeInv'
<1>1. /\ Trimmed' = Trimmed /\ Subwarps' = Subwarps /\ Pieces' = Pieces
      /\ FirstRound' = FirstRound /\ CeilDiv(nwarps, 2)' = CeilDiv(nwarps, 2)
  BY StillTrimmed
<1>2. \A s \in Subwarps : Split(s)' = Split(s) /\ LoadPlace(s)' = LoadPlace(s) /\ StorePlace(s)' = StorePlace(s)
  BY DEF Split, LoadPlace, StorePlace
<1>3. Domains'
  <2>1. \A s \in Subwarps : SubOK(s)'
    BY <1>1 DEF TreeInv, Domains, SubOK, still
  <2> QED
    BY <1>1, <2>1 DEF TreeInv, Domains
<1>4. \A s \in Subwarps : Round(s) >= FirstRound /\ Round(s) \in Nat /\ FirstRound \in Nat /\ sub[s].arrived \in Nat
  BY SubwarpFacts DEF TreeInv, SubOK
<1>5. ASSUME NEW s \in Subwarps, queue'[s] = queue[s]
      PROVE  Kept(s)' = Kept(s)
  BY <1>1, <1>5 DEF Kept, still
<1>6. Barriers'
  BY <1>1, <1>4 DEF TreeInv, Barriers
<1>7. Agreement'
  BY <1>1, <1>2 DEF TreeInv, Agreement
<1>8. ForLoad'
  <2> SUFFICES ASSUME NEW s \in Subwarps, NEW t \in Subwarps,
                      t = s + Split(s), t < sub[s].nwarps, sub'[t].arrived >= Round(s)
               PROVE  smem[LoadPlace(s)] = Kept(t)'
    BY <1>1, <1>2 DEF ForLoad
  <2> QED
    BY <1>4, <1>5 DEF TreeInv, ForLoad
<1>9. ForLater'
  <2> SUFFICES ASSUME NEW s \in Subwarps, NEW t \in Subwarps, sub[t].pc = "load", queue'[t] = queue[t],
                      t = s + Split(t), t < sub[t].nwarps, Round(s) = Round(t) - 1
               PROVE  smem[StorePlace(t)] = Kept(t)
    BY <1>1, <1>2, <1>5 DEF ForLater
  <2> QED
    BY DEF TreeInv, ForLater
<1> QED
  BY <1>3, <1>6, <1>7, <1>8, <1>9 DEF TreeInv

(* Store puts the queue of a subwarp in a piece that nobody else needs.      *)
LEMMA StoreInv ==
  ASSUME nwarps \in Int, TreeInv, NEW u \in Subwarps, Store(u)
  PROVE  TreeInv'
<1> DEFINE Stores == Split(u) <= u /\ u < sub[u].nwarps
<1>1. UNCHANGED still /\ queue' = queue
  BY DEF Store, still, input, shape, n
<1>2. /\ Trimmed' = Trimmed /\ Subwarps' = Subwarps /\ Pieces' = Pieces
      /\ FirstRound' = FirstRound /\ CeilDiv(nwarps, 2)' = CeilDiv(nwarps, 2)
  BY <1>1, StillTrimmed
<1>3. Domains /\ Barriers /\ Agreement /\ ForLoad /\ ForLater /\ DOMAIN sub = Subwarps
  BY DEF TreeInv, Domains
<1>4. sub' = [sub EXCEPT ![u] = [sub[u] EXCEPT !.pc = "load", !.arrived = @ + 1]]
  BY DEF Store
<1>5. /\ DOMAIN sub' = Subwarps
      /\ \A s \in Subwarps \ {u} : sub'[s] = sub[s]
      /\ DOMAIN sub'[u] = DOMAIN sub[u] /\ sub'[u].pc = "load" /\ sub'[u].arrived = sub[u].arrived + 1
      /\ sub'[u].nwarps = sub[u].nwarps /\ sub'[u].shift = sub[u].shift
  <2>1. SubOK(u) /\ {"pc", "arrived", "nwarps", "shift"} \subseteq DOMAIN sub[u]
    BY <1>3 DEF Domains, SubOK
  <2> QED
    BY <1>3, <1>4, <2>1
<1>6. sub[u].pc = "store" /\ sub[u].arrived = Round(u) - 1 /\ Round(u) \in Nat \ {0}
  <2>1. sub[u].pc = "store"
    BY DEF Store
  <2> QED
    BY <1>3, <2>1, SubwarpFacts DEF SubOK
<1>7. \A s \in Subwarps : /\ Round(s)' = Round(s) /\ Split(s)' = Split(s)
                          /\ LoadPlace(s)' = LoadPlace(s) /\ StorePlace(s)' = StorePlace(s)
                          /\ sub'[s].arrived >= sub[s].arrived
                          /\ sub'[s].nwarps = sub[s].nwarps /\ sub'[s].shift = sub[s].shift
                          /\ Kept(s)' = Kept(s)
  <2>1. \A s \in Subwarps : sub[s].arrived \in Nat
    BY <1>3 DEF Domains, SubOK
  <2>2. \A s \in Subwarps : Round(s)' = Round(s)
    BY <1>2, <1>5, <1>6, <2>1 DEF Round
  <2>3. \A s \in Subwarps : sub'[s].nwarps = sub[s].nwarps /\ sub'[s].shift = sub[s].shift
    BY <1>5
  <2>4. \A s \in Subwarps : Kept(s)' = Kept(s)
    BY <1>1, <1>2 DEF Kept, still
  <2> QED
    BY <1>5, <2>1, <2>2, <2>3, <2>4 DEF Split, LoadPlace, StorePlace
<1>8. /\ Stores => StorePlace(u) \in Pieces
      /\ smem' = IF Stores THEN [smem EXCEPT ![StorePlace(u)] = Kept(u)] ELSE smem
      /\ DOMAIN smem = Pieces
  BY <1>3, Places, KeptBest DEF Store, Domains
<1>9. Domains'
  <2>1. \A s \in Subwarps : SubOK(s)'
    BY <1>1, <1>2, <1>3, <1>5, <1>6, <1>7 DEF Domains, SubOK, still
  <2> QED
    BY <1>1, <1>2, <1>3, <1>5, <1>8, <2>1 DEF Domains
<1>10. Barriers'
  <2> SUFFICES ASSUME NEW s \in Subwarps, NEW t \in Subwarps, Round(s) > FirstRound
               PROVE  sub'[t].arrived >= Round(s) - 1
    BY <1>2, <1>7 DEF Barriers
  <2>1. sub[t].arrived >= Round(s) - 1 /\ sub'[t].arrived >= sub[t].arrived
    BY <1>3, <1>7 DEF Barriers
  <2>2. sub[t].arrived \in Nat /\ Round(s) \in Nat
    BY <1>3, SubwarpFacts DEF SubOK
  <2>3. sub'[t].arrived \in Nat
    BY <1>5, <2>2
  <2> QED
    BY <2>1, <2>2, <2>3
<1>11. Agreement'
  BY <1>2, <1>3, <1>7 DEF Agreement
<1>12. ForLoad'
  <2> SUFFICES ASSUME NEW s \in Subwarps, NEW t \in Subwarps,
                      t = s + Split(s), t < sub[s].nwarps, sub'[t].arrived >= Round(s)
               PROVE  smem'[LoadPlace(s)] = Kept(t)
    BY <1>2, <1>7 DEF ForLoad
  <2>1. CASE t = u
    <3>1. Round(u) >= Round(s) /\ Round(s) \in Nat
      BY <1>3, <1>5, <1>6, <2>1, SubwarpFacts
    <3>2. CASE Round(u) = Round(s)
      <4>1. sub[u].nwarps = sub[s].nwarps /\ sub[u].shift = sub[s].shift /\ Split(u) = Split(s)
        BY <1>3, <3>2 DEF Agreement, Split
      <4>2. Stores /\ StorePlace(u) = LoadPlace(s)
        BY <1>3, <2>1, <4>1, SubwarpFacts DEF StorePlace, LoadPlace
      <4> QED
        BY <1>8, <2>1, <4>2
    <3>3. CASE Round(u) # Round(s)
      <4>1. Round(u) = Round(s) + 1
        BY <1>3, <3>1, <3>3, Near, <1>6
      <4>2. ~Stores
        BY <1>3, <2>1, <4>1, SubwarpFacts DEF Agreement
      <4>3. sub[u].arrived >= Round(s)
        BY <1>6, <3>1, <4>1
      <4> QED
        BY <1>3, <1>8, <2>1, <4>2, <4>3 DEF ForLoad
    <3> QED
      BY <3>2, <3>3
  <2>2. CASE t # u
    <3>1. smem[LoadPlace(s)] = Kept(t)
      BY <1>3, <1>5, <2>2 DEF ForLoad
    <3>2. ASSUME Stores PROVE StorePlace(u) # LoadPlace(s)
      <4>1. CASE Round(u) = Round(s)
        <5>1. sub[u].nwarps = sub[s].nwarps /\ sub[u].shift = sub[s].shift /\ Split(u) = Split(s)
          BY <1>3, <4>1 DEF Agreement, Split
        <5> QED
          BY <1>3, <2>2, <5>1, SubwarpFacts DEF StorePlace, LoadPlace
      <4>2. CASE Round(u) = Round(s) + 1
        <5>1. sub[u].nwarps = Split(s) /\ sub[u].shift = ~sub[s].shift
          BY <1>3, <4>2 DEF Agreement
        <5>2. u # s /\ u \in Nat /\ s \in Nat /\ u < Split(s) /\ Split(u) \in Nat \ {0} /\ Split(s) \in Nat
          BY <1>3, <3>2, <4>2, <5>1, <1>6, SubwarpFacts
        <5>3. CASE sub[s].shift
          BY <5>1, <5>2, <5>3 DEF StorePlace, LoadPlace
        <5>4. CASE ~sub[s].shift
          <6>1. LoadPlace(s) = s + Split(s)
            BY <5>4 DEF LoadPlace
          <6>2. StorePlace(u) <= u
            BY <5>2 DEF StorePlace
          <6>3. StorePlace(u) \in Int
            BY <5>2 DEF StorePlace
          <6> QED
            BY <5>2, <6>1, <6>2, <6>3
        <5> QED
          BY <5>3, <5>4
      <4>3. CASE Round(u) = Round(s) - 1
        <5>1. Round(s) > FirstRound
          BY <1>3, <1>6, <4>3, SubwarpFacts DEF SubOK
        <5>2. sub[u].arrived >= Round(s) - 1
          BY <1>3, <5>1 DEF Barriers
        <5> QED
          BY <1>3, <1>6, <4>3, <5>2, SubwarpFacts
      <4> QED
        BY <1>3, <1>6, <4>1, <4>2, <4>3, Near, SubwarpFacts
    <3> QED
      BY <1>8, <3>1, <3>2
  <2> QED
    BY <2>1, <2>2
<1>13. ForLater'
  <2> SUFFICES ASSUME NEW s \in Subwarps, NEW t \in Subwarps, sub'[t].pc = "load",
                      t = s + Split(t), t < sub[t].nwarps, Round(s) = Round(t) - 1
               PROVE  smem'[StorePlace(t)] = Kept(t)
    BY <1>2, <1>7 DEF ForLater
  <2>1. CASE t = u
    <3>1. Stores
      BY <1>3, <2>1, SubwarpFacts
    <3> QED
      BY <1>8, <2>1, <3>1
  <2>2. CASE t # u
    <3>1. smem[StorePlace(t)] = Kept(t)
      BY <1>3, <1>5, <2>2 DEF ForLater
    <3>2. Round(u) = Round(t)
      <4>1. Round(t) > FirstRound
        BY <1>3, SubwarpFacts DEF SubOK
      <4>2. sub[u].arrived >= Round(t) - 1
        BY <1>3, <4>1 DEF Barriers
      <4>3. Round(s) >= Round(u) - 1
        BY <1>3, Near
      <4> QED
        BY <1>3, <1>6, <4>2, <4>3, SubwarpFacts
    <3>3. sub[u].nwarps = sub[t].nwarps /\ sub[u].shift = sub[t].shift /\ Split(u) = Split(t)
      BY <1>3, <3>2 DEF Agreement, Split
    <3>4. StorePlace(u) # StorePlace(t)
      BY <1>3, <2>2, <3>3, SubwarpFacts DEF StorePlace
    <3> QED
      BY <1>8, <3>1, <3>4
  <2> QED
    BY <2>1, <2>2
<1> QED
  BY <1>9, <1>10, <1>11, <1>12, <1>13 DEF TreeInv

(* Load takes what is in the place, and makes the next round the subwarp's.  *)
LEMMA LoadInv ==
  ASSUME nwarps \in Int, TreeInv, NEW u \in Subwarps, Load(u)
  PROVE  TreeInv'
<1>1. UNCHANGED still /\ smem' = smem
  BY DEF Load, still, input, shape, n
<1>2. /\ Trimmed' = Trimmed /\ Subwarps' = Subwarps /\ Pieces' = Pieces
      /\ FirstRound' = FirstRound /\ CeilDiv(nwarps, 2)' = CeilDiv(nwarps, 2)
  BY <1>1, StillTrimmed
<1>3. Domains /\ Barriers /\ Agreement /\ ForLoad /\ ForLater /\ DOMAIN sub = Subwarps /\ DOMAIN queue = Subwarps
  BY DEF TreeInv, Domains
<1>4. SubOK(u) /\ {"pc", "arrived", "nwarps", "shift"} \subseteq DOMAIN sub[u]
  BY <1>3 DEF Domains, SubOK
<1>5. sub' = [sub EXCEPT ![u] = [sub[u] EXCEPT !.pc = "store", !.nwarps = Split(u), !.shift = ~sub[u].shift]]
  BY DEF Load, Shifted
<1>6. /\ DOMAIN sub' = Subwarps
      /\ \A s \in Subwarps \ {u} : sub'[s] = sub[s]
      /\ DOMAIN sub'[u] = DOMAIN sub[u] /\ sub'[u].pc = "store" /\ sub'[u].arrived = sub[u].arrived
      /\ sub'[u].nwarps = Split(u) /\ sub'[u].shift = ~sub[u].shift
  BY <1>3, <1>4, <1>5
<1>7. sub[u].pc = "load" /\ Round(u) = sub[u].arrived /\ Round(u) \in Nat \ {0}
  BY <1>3, SubwarpFacts DEF Load
<1>8. \A s \in Subwarps : sub[s].arrived >= Round(u) /\ Round(s) >= Round(u) /\ Round(s) \in Nat /\ sub[s].arrived \in Nat
  BY <1>3, <1>7, SubwarpFacts DEF Load, Arrived, SubOK
<1>9. /\ \A s \in Subwarps : sub'[s].arrived = sub[s].arrived
      /\ Round(u)' = Round(u) + 1
      /\ \A s \in Subwarps \ {u} :
           /\ Round(s)' = Round(s) /\ Split(s)' = Split(s)
           /\ LoadPlace(s)' = LoadPlace(s) /\ StorePlace(s)' = StorePlace(s)
           /\ sub'[s].nwarps = sub[s].nwarps /\ sub'[s].shift = sub[s].shift
  BY <1>2, <1>6, <1>7 DEF Round, Split, LoadPlace, StorePlace
<1>10. /\ DOMAIN queue' = Subwarps
       /\ \A s \in Subwarps : s # u \/ ~(s < sub[s].nwarps - Split(s)) => queue'[s] = queue[s]
  BY <1>3 DEF Load
<1>11. \A s \in Subwarps : queue'[s] = queue[s] => Kept(s)' = Kept(s)
  BY <1>1, <1>2 DEF Kept, still
<1>12. \A s \in Subwarps : Round(s) \in {Round(u), Round(u) + 1}
  BY <1>3, <1>7, <1>8, Near
<1>13. Domains'
  <2>1. ASSUME NEW s \in Subwarps, s # u PROVE SubOK(s)'
    <3>1. SubOK(s)
      BY <1>3 DEF Domains
    <3> QED
      BY <1>1, <1>2, <1>6, <1>9, <2>1, <3>1 DEF SubOK, still
  <2>2. SubOK(u)'
    <3>1. Split(u) \in Nat \ {0} /\ Split(u) <= CeilDiv(nwarps, 2) /\ Split(u) <= nwarps
      BY <1>3, <1>4, SubwarpFacts DEF SubOK
    <3>2. sub'[u].shift \in BOOLEAN
      BY <1>6, Zenon
    <3>3. Round(u)' >= FirstRound'
      BY <1>2, <1>4, <1>7, <1>9, SubwarpFacts, <1>3 DEF SubOK
    <3> QED
      BY <1>1, <1>2, <1>4, <1>6, <3>1, <3>2, <3>3 DEF SubOK, still
  <2>3. DOMAIN smem = Pieces
    BY <1>3 DEF Domains
  <2> QED
    BY <1>1, <1>2, <1>6, <1>10, <2>1, <2>2, <2>3 DEF Domains
<1>14. Barriers'
  <2> SUFFICES ASSUME NEW s \in Subwarps, NEW t \in Subwarps, Round(s)' > FirstRound
               PROVE  sub[t].arrived >= Round(s)' - 1
    BY <1>2, <1>9 DEF Barriers
  <2>1. CASE s = u
    BY <1>7, <1>8, <1>9, <2>1
  <2>2. CASE s # u
    BY <1>3, <1>9, <2>2 DEF Barriers
  <2> QED
    BY <2>1, <2>2
<1>15. Agreement'
  <2>1. ASSUME NEW s \in Subwarps, NEW t \in Subwarps, s # u, t # u
        PROVE  /\ Round(t)' = Round(s)' => sub'[t].nwarps = sub'[s].nwarps /\ sub'[t].shift = sub'[s].shift
               /\ Round(t)' = Round(s)' + 1 => sub'[t].nwarps = Split(s)' /\ sub'[t].shift = ~sub'[s].shift
    BY <1>3, <1>9, <2>1 DEF Agreement
  <2>2. ASSUME NEW t \in Subwarps, t # u
        PROVE  /\ Round(t)' = Round(u)' => sub'[t].nwarps = sub'[u].nwarps /\ sub'[t].shift = sub'[u].shift
               /\ Round(t)' # Round(u)' + 1
    <3>1. Round(t)' # Round(u)' + 1
      BY <1>7, <1>9, <1>12, <2>2
    <3>2. Round(t)' = Round(u)' => sub[t].nwarps = Split(u) /\ sub[t].shift = ~sub[u].shift
      BY <1>3, <1>9, <2>2 DEF Agreement
    <3> QED
      BY <1>6, <2>2, <3>1, <3>2
  <2>3. ASSUME NEW s \in Subwarps, s # u
        PROVE  /\ Round(u)' = Round(s)' => sub'[u].nwarps = sub'[s].nwarps /\ sub'[u].shift = sub'[s].shift
               /\ Round(u)' = Round(s)' + 1 => sub'[u].nwarps = Split(s)' /\ sub'[u].shift = ~sub'[s].shift
    <3>1. CASE Round(s)' = Round(u)'
      BY <1>7, <1>9, <2>2, <2>3, <3>1
    <3>2. CASE Round(u)' = Round(s)' + 1
      <4>1. Round(u) = Round(s)
        BY <1>7, <1>8, <1>9, <2>3, <3>2
      <4>2. sub[u].nwarps = sub[s].nwarps /\ sub[u].shift = sub[s].shift /\ Split(u) = Split(s)
        BY <1>3, <4>1 DEF Agreement, Split
      <4> QED
        BY <1>6, <1>7, <1>9, <2>3, <3>2, <4>2
    <3> QED
      BY <3>1, <3>2
  <2>4. Round(u)' # Round(u)' + 1
    BY <1>7, <1>9
  <2> QED
    BY <1>2, <2>1, <2>2, <2>3, <2>4 DEF Agreement
<1>16. ForLoad'
  <2> SUFFICES ASSUME NEW s \in Subwarps, NEW t \in Subwarps,
                      t = s + Split(s)', t < sub'[s].nwarps, sub[t].arrived >= Round(s)'
               PROVE  smem[LoadPlace(s)'] = Kept(t)'
    BY <1>1, <1>2, <1>9 DEF ForLoad
  <2>1. CASE s = u
    <3>1. Round(t) = Round(u) + 1 /\ sub[t].arrived = Round(t)
      <4>1. sub[t].arrived >= Round(u) + 1
        BY <1>9, <2>1
      <4>2. sub[t].arrived <= Round(t)
        BY <1>3, SubwarpFacts
      <4> QED
        BY <1>7, <1>8, <1>12, <4>1, <4>2
    <3>2. t # u /\ Kept(t)' = Kept(t)
      BY <1>7, <1>10, <1>11, <3>1
    <3>3. sub[t].pc = "load"
      <4>1. sub[t].pc \notin {"load", "add"} => Round(t) = sub[t].arrived + 1
        BY <1>3, SubwarpFacts
      <4>2. sub[t].pc = "add" => sub[t].arrived = 0
        BY <1>3 DEF Domains, SubOK
      <4> QED
        BY <1>7, <1>8, <3>1, <4>1, <4>2
    <3>4. sub[t].nwarps = sub'[u].nwarps /\ sub[t].shift = sub'[u].shift
      BY <1>3, <1>6, <3>1 DEF Agreement
    <3>5. Split(t) = Split(u)' /\ StorePlace(t) = LoadPlace(u)'
      <4>1. Split(t) = Split(u)'
        BY <3>4 DEF Split
      <4>2. t \in Nat /\ u \in Nat /\ Split(t) \in Nat
        BY <1>3, SubwarpFacts
      <4> QED
        BY <2>1, <3>4, <4>1, <4>2 DEF StorePlace, LoadPlace
    <3>6. t = u + Split(t) /\ t < sub[t].nwarps /\ Round(u) = Round(t) - 1
      BY <1>7, <2>1, <3>1, <3>4, <3>5
    <3>7. smem[StorePlace(t)] = Kept(t)
      BY <1>3, <3>3, <3>6 DEF ForLater
    <3> QED
      BY <2>1, <3>2, <3>5, <3>7
  <2>2. CASE s # u
    <3>1. smem[LoadPlace(s)] = Kept(t) /\ t = s + Split(s)
      BY <1>3, <1>9, <2>2 DEF ForLoad
    <3>2. queue'[t] = queue[t]
      <4>1. CASE t # u
        BY <1>10, <4>1
      <4>2. CASE t = u
        <5>1. Round(s) = Round(u)
          BY <1>7, <1>8, <1>9, <2>2, <4>2
        <5>2. Split(u) = Split(s)
          BY <1>3, <5>1 DEF Agreement, Split
        <5>3. /\ u = s + Split(u) /\ s \in Nat /\ u \in Nat /\ Split(u) \in Nat /\ sub[u].nwarps \in Nat
              /\ sub[u].nwarps - Split(u) <= Split(u)
          BY <1>3, <1>4, <3>1, <4>2, <5>2, SubwarpFacts DEF SubOK
        <5>4. ~(u < sub[u].nwarps - Split(u))
          BY <5>3
        <5> QED
          BY <1>10, <4>2, <5>4
      <4> QED
        BY <4>1, <4>2
    <3> QED
      BY <1>9, <1>11, <2>2, <3>1, <3>2
  <2> QED
    BY <2>1, <2>2
<1>17. ForLater'
  <2> SUFFICES ASSUME NEW s \in Subwarps, NEW t \in Subwarps, t # u, sub[t].pc = "load",
                      t = s + Split(t), t < sub[t].nwarps, Round(s)' = Round(t) - 1
               PROVE  smem[StorePlace(t)] = Kept(t)'
    BY <1>1, <1>2, <1>6, <1>9 DEF ForLater
  <2>1. s # u
    BY <1>7, <1>9, <1>12
  <2>2. Round(s) = Round(t) - 1
    BY <1>9, <2>1
  <2> QED
    BY <1>3, <1>10, <1>11, <2>2 DEF ForLater
<1> QED
  BY <1>13, <1>14, <1>15, <1>16, <1>17 DEF TreeInv

-----------------------------------------------------------------------------
LEMMA AddInv ==
  ASSUME nwarps \in Int, TreeInv, NEW w, Add(w)
  PROVE  TreeInv'
<1>1. UNCHANGED still /\ smem' = smem /\ sub' = sub
  BY DEF Add, still, input, shape, n
<1>2. DOMAIN queue = Subwarps /\ DOMAIN sub = Subwarps /\ \A s \in Subwarps : SubOK(s)
  BY DEF TreeInv, Domains
<1>3. queue' = queue \/ \E b : queue' = Merged(w, b)
  BY DEF Add, AddImmediate, AddFiltered, AddDistributed, MergeIn
<1>4. DOMAIN queue' = Subwarps
  BY <1>2, <1>3 DEF Merged
<1>5. \A s \in Subwarps : s \div PerWarp = w => sub[s].pc = "add" /\ sub[s].arrived = 0
  BY <1>2 DEF Add, Adding, SubwarpsOf, SubOK
<1>6. \A s \in Subwarps : s \div PerWarp # w => queue'[s] = queue[s]
  BY <1>3 DEF Merged
<1>7. FirstRound' = FirstRound /\ 0 < FirstRound
  BY <1>1, StillTrimmed DEF FirstRound
<1> QED
  BY <1>1, <1>2, <1>4, <1>5, <1>6, <1>7, Frame DEF SubOK, Round

LEMMA DoneInv ==
  ASSUME nwarps \in Int, TreeInv, NEW w, Done(w)
  PROVE  TreeInv'
<1>1. UNCHANGED still /\ smem' = smem
  BY DEF Done, still, input, shape, n
<1>2. DOMAIN queue = Subwarps /\ DOMAIN sub = Subwarps /\ \A s \in Subwarps : SubOK(s)
  BY DEF TreeInv, Domains
<1>3. DOMAIN queue' = Subwarps /\ \A s \in Subwarps : s \notin SubwarpsOf(w) => queue'[s] = queue[s]
  BY <1>2 DEF Done, MergeIn, Merged, SubwarpsOf
<1>4. FirstRound' = FirstRound /\ FirstRound = IF AfterDone = "sync" THEN 2 ELSE 1
  BY <1>1, StillTrimmed DEF FirstRound, AfterDone
<1> DEFINE now(s) == [sub[s] EXCEPT !.pc = AfterDone, !.arrived = IF AfterDone = "sync" THEN 1 ELSE 0]
<1>5. sub' = [s \in Subwarps |-> IF s \in SubwarpsOf(w) THEN now(s) ELSE sub[s]]
  BY DEF Done
<1>6. ASSUME NEW s \in SubwarpsOf(w)
      PROVE  /\ s \in Subwarps /\ sub[s].pc = "add" /\ sub[s].arrived = 0
             /\ DOMAIN sub'[s] = DOMAIN sub[s]
             /\ sub'[s].pc = AfterDone /\ sub'[s].arrived = IF AfterDone = "sync" THEN 1 ELSE 0
             /\ sub'[s].nwarps = sub[s].nwarps /\ sub'[s].shift = sub[s].shift
  <2>1. s \in Subwarps /\ sub[s].pc = "add"
    BY DEF Done, Adding, SubwarpsOf
  <2>2. SubOK(s) /\ {"pc", "arrived", "nwarps", "shift"} \subseteq DOMAIN sub[s]
    BY <1>2, <2>1 DEF SubOK
  <2>3. sub'[s] = now(s)
    BY <1>5, <2>1
  <2> QED
    BY <2>1, <2>2, <2>3 DEF SubOK
<1>7. \A s \in Subwarps : s \notin SubwarpsOf(w) => sub'[s] = sub[s] /\ queue'[s] = queue[s]
  BY <1>3, <1>5
<1>8. DOMAIN sub' = Subwarps
  BY <1>5
<1>9. AfterDone \in {"sync", "store"}
  BY DEF AfterDone
<1> HIDE DEF now
<1>10. \A s \in Subwarps : Round(s)' = Round(s)
  BY <1>4, <1>6, <1>7, <1>9 DEF Round
<1>11. ASSUME NEW s \in Subwarps
       PROVE  /\ {"pc", "arrived", "nwarps", "shift"} \subseteq DOMAIN sub'[s]
              /\ sub'[s].nwarps = sub[s].nwarps /\ sub'[s].shift = sub[s].shift
              /\ sub'[s].arrived \in Nat /\ sub'[s].arrived >= sub[s].arrived
              /\ sub'[s].pc = "add" => sub'[s].arrived = 0
              /\ sub'[s].pc = "load" => sub[s].pc = "load" /\ queue'[s] = queue[s]
              /\ \/ queue'[s] = queue[s] /\ sub'[s].arrived = sub[s].arrived
                 \/ sub'[s].arrived < FirstRound
  <2>1. CASE s \in SubwarpsOf(w)
    BY <1>2, <1>4, <1>6, <1>9, <2>1 DEF SubOK
  <2>2. CASE s \notin SubwarpsOf(w)
    BY <1>2, <1>7, <2>2 DEF SubOK
  <2> QED
    BY <2>1, <2>2
<1> QED
  BY <1>1, <1>3, <1>8, <1>10, <1>11, Frame

LEMMA PlaceInv ==
  ASSUME nwarps \in Int, TreeInv, NEW u \in Subwarps, NEW pc,
         (sub[u].pc = "sync" /\ pc = "store") \/ (sub[u].pc = "store" /\ pc = "end"),
         sub' = [sub EXCEPT ![u].pc = pc], queue' = queue, smem' = smem, UNCHANGED still
  PROVE  TreeInv'
<1>1. DOMAIN queue = Subwarps /\ DOMAIN sub = Subwarps /\ \A s \in Subwarps : SubOK(s)
  BY DEF TreeInv, Domains
<1>2. /\ DOMAIN sub' = Subwarps
      /\ DOMAIN sub'[u] = DOMAIN sub[u] /\ sub'[u].pc = pc /\ sub'[u].arrived = sub[u].arrived
      /\ sub'[u].nwarps = sub[u].nwarps /\ sub'[u].shift = sub[u].shift
      /\ \A s \in Subwarps \ {u} : sub'[s] = sub[s]
  BY <1>1 DEF SubOK
<1>3. FirstRound' = FirstRound
  BY StillTrimmed
<1>4. \A s \in Subwarps : Round(s)' = Round(s)
  BY <1>2, <1>3 DEF Round
<1>5. ASSUME NEW s \in Subwarps
      PROVE  /\ {"pc", "arrived", "nwarps", "shift"} \subseteq DOMAIN sub'[s]
             /\ sub'[s].nwarps = sub[s].nwarps /\ sub'[s].shift = sub[s].shift
             /\ sub'[s].arrived \in Nat /\ sub'[s].arrived = sub[s].arrived
             /\ sub'[s].pc = "add" => sub'[s].arrived = 0
             /\ sub'[s].pc = "load" => sub[s].pc = "load"
  BY <1>1, <1>2 DEF SubOK
<1> QED
  BY <1>1, <1>2, <1>4, <1>5, Frame

-----------------------------------------------------------------------------
(* The order of elements, with select_min as a parameter, how many of a set  *)
(* come before one of them, and the first m of a set.                        *)
Pairs == Int \X Int
Beats(min, a, b) == IF min THEN a[1] < b[1] ELSE b[1] < a[1]
Comes(min, a, b) == Beats(min, a, b) \/ (a[1] = b[1] /\ a[2] < b[2])
Lower(min, S, e) == {y \in S : Comes(min, y, e)}
Foremost(min, S, m) == {x \in S : Cardinality(Lower(min, S, x)) < m}

(* A set speaks for an element when it has it, or m others that are as good: *)
(* the m best of the set are then no worse than with the element.            *)
AsGood(min, S, e) == {x \in S : ~Beats(min, e, x)}
Covered(min, m, S, e) == e \in S \/ Cardinality(AsGood(min, S, e)) >= m

(* Every set of natural numbers has a least one.                             *)
LEMMA NatLeast ==
  ASSUME NEW S \in SUBSET Nat, S # {}
  PROVE  \E x \in S : \A y \in S : x <= y
<1> DEFINE Less == {p \in Nat \X Nat : p[1] < p[2]}
<1>1. IsWellFoundedOn(Less, Nat)
  BY NatLessThanWellFounded DEF OpToRel
<1>2. PICK x \in S : \A y \in S : ~(<<y, x>> \in Less)
  BY <1>1, WFMin, Zenon
<1>3. \A y \in S : ~(y < x)
  BY <1>2
<1> QED
  BY <1>3

LEMMA Order ==
  ASSUME NEW min \in BOOLEAN
  PROVE  /\ \A a \in Pairs : ~Comes(min, a, a) /\ ~Beats(min, a, a)
         /\ \A a, b \in Pairs : a = b \/ Comes(min, a, b) \/ Comes(min, b, a)
         /\ \A a, b \in Pairs : Comes(min, a, b) => ~Comes(min, b, a) /\ ~Beats(min, b, a)
         /\ \A a, b, c \in Pairs : Comes(min, a, b) /\ Comes(min, b, c) => Comes(min, a, c)
         /\ \A a, b, c \in Pairs : ~Beats(min, a, b) /\ ~Beats(min, b, c) => ~Beats(min, a, c)
BY SMT DEF Comes, Beats, Pairs

(* A part of a finite set, without a member.                                 *)
LEMMA Smaller1 ==
  ASSUME NEW U, IsFiniteSet(U), NEW V \in SUBSET U, NEW e \in U, e \notin V
  PROVE  IsFiniteSet(V) /\ Cardinality(V) \in Nat /\ Cardinality(U) \in Nat
         /\ Cardinality(V) < Cardinality(U)
<1>1. V \cup {e} \in SUBSET U
  OBVIOUS
<1>2. IsFiniteSet(V) /\ Cardinality(V) \in Nat /\ Cardinality(U) \in Nat
  BY FS_Subset, FS_CardinalityType
<1>3. Cardinality(V \cup {e}) = Cardinality(V) + 1 /\ Cardinality(V \cup {e}) <= Cardinality(U)
  BY <1>1, <1>2, FS_AddElement, FS_Subset
<1> QED
  BY <1>2, <1>3

(* How many of a set come before its members tells them apart.               *)
LEMMA RankFacts ==
  ASSUME NEW min \in BOOLEAN, NEW S \in SUBSET Pairs, IsFiniteSet(S)
  PROVE  /\ Cardinality(S) \in Nat
         /\ \A e : IsFiniteSet(Lower(min, S, e)) /\ Cardinality(Lower(min, S, e)) \in Nat
         /\ \A e \in S : Cardinality(Lower(min, S, e)) < Cardinality(S)
         /\ \A e, f \in S : Comes(min, e, f)
              => Cardinality(Lower(min, S, e)) < Cardinality(Lower(min, S, f))
         /\ \A e, f \in S : Cardinality(Lower(min, S, e)) = Cardinality(Lower(min, S, f)) => e = f
<1>1. Cardinality(S) \in Nat
  BY FS_CardinalityType
<1>2. ASSUME NEW e
      PROVE  IsFiniteSet(Lower(min, S, e)) /\ Cardinality(Lower(min, S, e)) \in Nat
  BY FS_Subset, FS_CardinalityType DEF Lower
<1>4. ASSUME NEW e \in S
      PROVE  Cardinality(Lower(min, S, e)) < Cardinality(S)
  <2>1. Lower(min, S, e) \in SUBSET S /\ e \notin Lower(min, S, e)
    BY Order DEF Lower
  <2> QED
    BY <2>1, Smaller1
<1>5. ASSUME NEW e \in S, NEW f \in S, Comes(min, e, f)
      PROVE  Cardinality(Lower(min, S, e)) < Cardinality(Lower(min, S, f))
  <2>1. Lower(min, S, e) \in SUBSET Lower(min, S, f)
    BY <1>5, Order DEF Lower
  <2>2. e \in Lower(min, S, f) /\ e \notin Lower(min, S, e)
    BY <1>5, Order DEF Lower
  <2> QED
    BY <1>2, <2>1, <2>2, Smaller1
<1>6. ASSUME NEW e \in S, NEW f \in S, Cardinality(Lower(min, S, e)) = Cardinality(Lower(min, S, f))
      PROVE  e = f
  <2>1. e \in Pairs /\ f \in Pairs
    OBVIOUS
  <2>2. Cardinality(Lower(min, S, e)) \in Nat /\ Cardinality(Lower(min, S, f)) \in Nat
    BY <1>2
  <2>3. ~Comes(min, e, f)
    BY <1>5, <1>6, <2>2
  <2>4. ~Comes(min, f, e)
    BY <1>5, <1>6, <2>2
  <2> QED
    BY <2>1, <2>3, <2>4, Order
<1> QED
  BY <1>1, <1>2, <1>4, <1>5, <1>6

LEMMA Interval ==
  ASSUME NEW m \in Nat
  PROVE  IsFiniteSet(0..(m - 1)) /\ Cardinality(0..(m - 1)) = m
<1>1. CASE m = 0
  <2>1. 0..(m - 1) = {}
    BY <1>1
  <2> QED
    BY <1>1, <2>1, FS_EmptySet
<1>2. CASE m > 0
  <2>1. m - 1 \in Int /\ ~(0 > m - 1) /\ (m - 1) - 0 + 1 = m
    BY <1>2
  <2> QED
    BY <2>1, FS_Interval
<1> QED
  BY <1>1, <1>2

(* Every rank below the size of a set is that of a member.                   *)
LEMMA RankExists ==
  ASSUME NEW min \in BOOLEAN, NEW S \in SUBSET Pairs, IsFiniteSet(S), NEW x \in Nat, x < Cardinality(S)
  PROVE  \E e \in S : Cardinality(Lower(min, S, e)) = x
<1> DEFINE m == Cardinality(S)
           f == [e \in S |-> Cardinality(Lower(min, S, e))]
           R == 0..(m - 1)
<1>1. m \in Nat /\ \A e \in S : f[e] \in R
  BY RankFacts
<1>2. IsFiniteSet(R) /\ Cardinality(R) = m
  BY <1>1, Interval
<1>3. \A e, g \in S : f[e] = f[g] => e = g
  BY RankFacts
<1>4. f \in [S -> R]
  BY <1>1
<1>5. f \in Injection(S, R)
  BY <1>3, <1>4 DEF Injection, IsInjective
<1> HIDE DEF f, R
<1>6. f \in Surjection(S, R)
  BY <1>2, <1>5, FS_Injection
<1>7. x \in R
  BY <1>1 DEF R
<1>8. PICK e \in S : f[e] = x
  BY <1>6, <1>7 DEF Surjection
<1> QED
  BY <1>8 DEF f

(* The first m of a set: no more than m, and those that are left out have m  *)
(* before them.                                                              *)
LEMMA ForemostFacts ==
  ASSUME NEW min \in BOOLEAN, NEW S \in SUBSET Pairs, IsFiniteSet(S), NEW m \in Nat
  PROVE  /\ Foremost(min, S, m) \in SUBSET S /\ IsFiniteSet(Foremost(min, S, m))
         /\ Cardinality(Foremost(min, S, m)) \in Nat /\ Cardinality(Foremost(min, S, m)) <= m
         /\ \A y \in S \ Foremost(min, S, m) :
              /\ Cardinality(Foremost(min, S, m)) >= m
              /\ \A x \in Foremost(min, S, m) : Comes(min, x, y)
<1> DEFINE B == Foremost(min, S, m)
           rank(e) == Cardinality(Lower(min, S, e))
<1>1. B \in SUBSET S
  BY DEF Foremost
<1>2. IsFiniteSet(B) /\ Cardinality(B) \in Nat
  BY <1>1, FS_Subset, FS_CardinalityType
<1>3. Cardinality(B) <= m
  <2> DEFINE f == [e \in B |-> rank(e)]
             R == 0..(m - 1)
  <2>1. \A e \in B : rank(e) \in R
    BY RankFacts DEF Foremost
  <2>2. \A e, g \in B : f[e] = f[g] => e = g
    BY <1>1, RankFacts
  <2>3. f \in [B -> R]
    BY <2>1
  <2>4. f \in Injection(B, R)
    BY <2>2, <2>3 DEF Injection, IsInjective
  <2>5. IsFiniteSet(R) /\ Cardinality(R) = m
    BY Interval
  <2> HIDE DEF f, R, B
  <2> QED
    BY <2>4, <2>5, <1>2, FS_Injection
<1>4. ASSUME NEW y \in S, y \notin B
      PROVE  /\ Cardinality(B) >= m
             /\ \A x \in B : Comes(min, x, y)
  <2>1. \A e \in S : rank(e) \in Nat
    BY RankFacts
  <2>2. rank(y) >= m
    BY <1>4, <2>1 DEF Foremost
  <2>3. \A x \in B : rank(x) < m
    BY DEF Foremost
  <2>4. ASSUME NEW x \in B PROVE Comes(min, x, y)
    <3>1. x \in S /\ x # y
      BY <1>1, <1>4
    <3>2. Comes(min, y, x) => rank(y) < rank(x)
      BY <3>1, RankFacts
    <3>3. ~Comes(min, y, x)
      BY <2>1, <2>2, <2>3, <3>1, <3>2
    <3> QED
      BY <3>1, <3>3, Order
  <2> DEFINE N == {rank(e) : e \in S \ B}
  <2>5. N \in SUBSET Nat /\ N # {}
    BY <1>4, <2>1
  <2>6. PICK r \in N : \A q \in N : r <= q
    <3> HIDE DEF N
    <3> QED
      BY <2>5, NatLeast
  <2>7. PICK z \in S \ B : r = rank(z)
    BY <2>6
  <2>8. Lower(min, S, z) \in SUBSET B
    <3> SUFFICES ASSUME NEW x \in S, Comes(min, x, z), x \notin B PROVE FALSE
      BY DEF Lower
    <3>1. rank(x) < rank(z)
      BY <2>7, RankFacts
    <3>2. rank(x) \in N
      OBVIOUS
    <3> QED
      BY <2>1, <2>6, <2>7, <3>1, <3>2
  <2>9. rank(z) >= m
    BY <2>1, <2>7 DEF Foremost
  <2>10. rank(z) <= Cardinality(B)
    BY <1>2, <2>8, FS_Subset
  <2> QED
    BY <1>2, <2>1, <2>4, <2>7, <2>9, <2>10
<1> QED
  BY <1>1, <1>2, <1>3, <1>4

-----------------------------------------------------------------------------
(* A set speaks for whatever a set that it speaks for speaks for.            *)
LEMMA CoverTrans ==
  ASSUME NEW min \in BOOLEAN, NEW S \in SUBSET Pairs, IsFiniteSet(S),
         NEW Q \in SUBSET Pairs, IsFiniteSet(Q),
         NEW m \in Nat, NEW e \in Pairs, Covered(min, m, S, e), \A d \in S : Covered(min, m, Q, d)
  PROVE  Covered(min, m, Q, e)
<1>1. \A d : IsFiniteSet(AsGood(min, Q, d)) /\ Cardinality(AsGood(min, Q, d)) \in Nat
  BY FS_Subset, FS_CardinalityType DEF AsGood
<1>2. CASE e \in S
  BY <1>2
<1>3. CASE e \notin S
  <2>1. Cardinality(AsGood(min, S, e)) >= m
    BY <1>3 DEF Covered
  <2>2. CASE AsGood(min, S, e) \in SUBSET Q
    <3>1. AsGood(min, S, e) \in SUBSET AsGood(min, Q, e)
      BY <2>2 DEF AsGood
    <3>2. Cardinality(AsGood(min, S, e)) \in Nat
          /\ Cardinality(AsGood(min, S, e)) <= Cardinality(AsGood(min, Q, e))
      BY <1>1, <3>1, FS_Subset, FS_CardinalityType
    <3> QED
      BY <1>1, <2>1, <3>2 DEF Covered
  <2>3. CASE AsGood(min, S, e) \notin SUBSET Q
    <3>1. PICK d \in S : ~Beats(min, e, d) /\ d \notin Q
      BY <2>3 DEF AsGood
    <3>2. Cardinality(AsGood(min, Q, d)) >= m
      BY <3>1 DEF Covered
    <3>3. AsGood(min, Q, d) \in SUBSET AsGood(min, Q, e)
      <4> SUFFICES ASSUME NEW x \in Q, ~Beats(min, d, x) PROVE ~Beats(min, e, x)
        BY DEF AsGood
      <4>1. x \in Pairs /\ d \in Pairs
        OBVIOUS
      <4> QED
        BY <3>1, <4>1, Order
    <3>4. Cardinality(AsGood(min, Q, d)) <= Cardinality(AsGood(min, Q, e))
      BY <1>1, <3>3, FS_Subset
    <3> QED
      BY <1>1, <3>2, <3>4 DEF Covered
  <2> QED
    BY <2>2, <2>3
<1> QED
  BY <1>2, <1>3

(* So does a larger set, and the first m or more of a set.                   *)
LEMMA CoverMore ==
  ASSUME NEW min \in BOOLEAN, NEW Q \in SUBSET Pairs, IsFiniteSet(Q), NEW S \in SUBSET Q,
         NEW m \in Nat, NEW e \in Pairs, Covered(min, m, S, e)
  PROVE  Covered(min, m, Q, e)
<1>1. IsFiniteSet(S)
  BY FS_Subset
<1>2. \A d \in S : Covered(min, m, Q, d)
  BY DEF Covered
<1>3. S \in SUBSET Pairs
  OBVIOUS
<1> QED
  BY <1>1, <1>2, <1>3, CoverTrans

LEMMA CoverFirst ==
  ASSUME NEW min \in BOOLEAN, NEW S \in SUBSET Pairs, IsFiniteSet(S),
         NEW m \in Nat, NEW c \in Nat, m <= c, NEW e \in Pairs, Covered(min, m, S, e)
  PROVE  Covered(min, m, Foremost(min, S, c), e)
<1> DEFINE B == Foremost(min, S, c)
<1>1. B \in SUBSET S /\ IsFiniteSet(B) /\ Cardinality(B) \in Nat
  BY ForemostFacts
<1>2. ASSUME NEW d \in S PROVE Covered(min, m, B, d)
  <2>1. CASE d \in B
    BY <2>1 DEF Covered
  <2>2. CASE d \notin B
    <3>1. Cardinality(B) >= c /\ \A x \in B : Comes(min, x, d)
      BY <2>2, ForemostFacts
    <3>2. \A x \in B : ~Beats(min, d, x)
      BY <1>1, <3>1, Order
    <3>3. AsGood(min, B, d) = B
      BY <3>2 DEF AsGood
    <3> HIDE DEF B
    <3> QED
      BY <1>1, <3>1, <3>3 DEF Covered
  <2> QED
    BY <2>1, <2>2
<1>3. B \in SUBSET Pairs
  BY <1>1
<1> HIDE DEF B
<1> QED
  BY <1>1, <1>2, <1>3, CoverTrans DEF B

-----------------------------------------------------------------------------
(* Quotients and remainders.                                                 *)
LEMMA Quotient ==
  ASSUME NEW d \in Nat \ {0}, NEW a \in Nat
  PROVE  /\ a \div d \in Nat /\ a % d \in 0..(d - 1) /\ a = (a \div d) * d + (a % d)
         /\ \A q \in Nat : q * d <= a /\ a < q * d + d => a \div d = q /\ a % d = a - q * d
<1> DEFINE u == a \div d
           r == a % d
<1>1. u \in Int /\ r \in 0..(d - 1) /\ a = d * u + r
  OBVIOUS
<1> HIDE DEF u, r
<1>2. u \in Nat
  <2>1. u <= -1 => d * u <= -d
    BY <1>1
  <2> QED
    BY <1>1, <2>1
<1>3. d * u = u * d
  BY <1>1
<1>4. ASSUME NEW q \in Nat, q * d <= a, a < q * d + d
      PROVE  u = q
  <2>1. u >= q + 1 => u * d >= q * d + d
    <3>1. (q + 1) * d = q * d + d
      OBVIOUS
    <3>2. u >= q + 1 => u * d >= (q + 1) * d
      BY <1>2
    <3> QED
      BY <3>1, <3>2
  <2>2. u <= q - 1 => u * d + d <= q * d
    <3>1. (u + 1) * d = u * d + d
      BY <1>2
    <3>2. u <= q - 1 => (u + 1) * d <= q * d
      BY <1>2
    <3> QED
      BY <3>1, <3>2
  <2> QED
    BY <1>1, <1>2, <1>3, <1>4, <2>1, <2>2
<1>5. \A q \in Nat : q * d <= a /\ a < q * d + d => u = q /\ r = a - q * d
  BY <1>1, <1>3, <1>4
<1> QED
  BY <1>1, <1>2, <1>3, <1>5 DEF u, r

(* What is below a product is in one of its parts.                           *)
LEMMA Below2 ==
  ASSUME NEW d \in Nat \ {0}, NEW m \in Nat, NEW a \in Nat, a < m * d
  PROVE  a \div d \in 0..(m - 1)
<1> DEFINE u == a \div d
<1>1. u \in Nat /\ u * d <= a
  BY Quotient
<1> HIDE DEF u
<1>2. ~(u >= m)
  <2> SUFFICES ASSUME u >= m PROVE FALSE
    OBVIOUS
  <2>1. u * d >= m * d
    BY <1>1
  <2>2. u * d \in Int /\ m * d \in Int
    BY <1>1
  <2> QED
    BY <1>1, <2>1, <2>2
<1>3. u \in 0..(m - 1)
  BY <1>1, <1>2
<1> QED
  BY <1>3 DEF u

LEMMA Within ==
  ASSUME NEW d \in Nat \ {0}, NEW m \in Nat, NEW q \in 0..(m - 1), NEW r \in 0..(d - 1)
  PROVE  /\ q * d + r \in 0..(m * d - 1)
         /\ (q * d + r) \div d = q /\ (q * d + r) % d = r
<1>1. q * d \in Nat /\ m * d \in Nat /\ (q + 1) * d = q * d + d
  OBVIOUS
<1>2. (q + 1) * d <= m * d
  OBVIOUS
<1>3. q * d + r \in Nat
  BY <1>1
<1>4. (q * d + r) \div d = q /\ (q * d + r) % d = r
  <2> DEFINE a == q * d + r
  <2>1. a \in Nat /\ q * d <= a /\ a < q * d + d /\ a - q * d = r
    BY <1>1
  <2> HIDE DEF a
  <2>2. a \div d = q /\ a % d = r
    BY <2>1, Quotient
  <2> QED
    BY <2>2 DEF a
<1> QED
  BY <1>1, <1>2, <1>3, <1>4

-----------------------------------------------------------------------------
(* A launch, as it is set up.                                                *)
Shape ==
  /\ row \in Seq(Keys) /\ csr \in BOOLEAN /\ select_min \in BOOLEAN
  /\ k \in Nat \ {0} /\ \E c \in Capacities : Fits(c, k)
  /\ variant \in Variants
  /\ num_of_block \in Nat \ {0}
  /\ \E warps \in Nat \ {0} : nwarps = warps * (FullCapacity \div Capacity)

NumWarps == nwarps \div PerWarp
NumBlocks == IF merging THEN 1 ELSE num_of_block

LEMMA ShapeFacts ==
  ASSUME Shape
  PROVE  /\ WarpSize \in Nat \ {0} /\ Capacity \in Nat \ {0} /\ k <= Capacity
         /\ WarpWidth \in Nat \ {0} /\ PerWarp \in Nat \ {0} /\ WarpSize = PerWarp * WarpWidth
         /\ MaxArrLen \in Nat \ {0} /\ MaxBufLen \in Nat \ {0}
         /\ NumWarps \in Nat \ {0} /\ nwarps \in Nat \ {0} /\ nwarps = NumWarps * PerWarp
         /\ Warps = 0..(NumWarps - 1)
         /\ Blockdim \in Nat \ {0} /\ Blockdim = NumWarps * WarpSize
         /\ NumBlocks \in Nat \ {0}
         /\ Stride \in Nat \ {0} /\ Stride = NumBlocks * Blockdim
         /\ n \in Nat /\ Size \in Nat /\ Trimmed \in Nat /\ Trimmed <= k /\ Trimmed <= Size
<1>1. WarpSize \in Nat \ {0} /\ Capacity \in Nat \ {0} /\ k <= Capacity /\ MaxBufLen \in Nat \ {0}
      /\ (Capacity < WarpSize => WarpSize % Capacity = 0)
  <2>1. Capacity \in Capacities /\ Fits(Capacity, k)
    BY DEF Shape, Capacity
  <2> QED
    BY <2>1, WarpAssumption DEF Fits
<1>2. /\ WarpWidth \in Nat \ {0} /\ PerWarp \in Nat \ {0} /\ WarpSize = PerWarp * WarpWidth
      /\ FullCapacity \div Capacity = PerWarp /\ MaxArrLen \in Nat \ {0}
  <2>1. CASE Capacity < WarpSize
    <3>1. WarpWidth = Capacity /\ FullCapacity = WarpSize
      BY <1>1, <2>1 DEF WarpWidth, Smaller, FullCapacity, Larger
    <3>2. WarpSize \div Capacity \in Nat /\ WarpSize = (WarpSize \div Capacity) * Capacity
      <4> DEFINE x == WarpSize \div Capacity
      <4>1. x \in Nat /\ WarpSize = x * Capacity + (WarpSize % Capacity)
        BY <1>1, Quotient
      <4>2. WarpSize % Capacity = 0
        BY <1>1, <2>1
      <4> HIDE DEF x
      <4>3. x * Capacity \in Int
        BY <1>1, <4>1
      <4>4. WarpSize = x * Capacity
        BY <4>1, <4>2, <4>3
      <4> QED
        BY <4>1, <4>4 DEF x
    <3>3. WarpSize \div Capacity # 0
      BY <1>1, <3>2
    <3>4. Capacity \div Capacity = 1
      <4>1. 1 * Capacity = Capacity
        BY <1>1
      <4> QED
        BY <1>1, <4>1, Quotient
    <3> QED
      BY <1>1, <3>1, <3>2, <3>3, <3>4 DEF PerWarp, MaxArrLen
  <2>2. CASE Capacity >= WarpSize
    <3>1. WarpWidth = WarpSize /\ FullCapacity = Capacity
      BY <1>1, <2>2 DEF WarpWidth, Smaller, FullCapacity, Larger
    <3>2. WarpSize \div WarpSize = 1 /\ Capacity \div Capacity = 1
      <4>1. 1 * Capacity = Capacity /\ 1 * WarpSize = WarpSize
        BY <1>1
      <4> QED
        BY <1>1, <4>1, Quotient
    <3>3. Capacity \div WarpSize \in Nat /\ Capacity = (Capacity \div WarpSize) * WarpSize + (Capacity % WarpSize)
          /\ Capacity % WarpSize \in 0..(WarpSize - 1)
      BY <1>1, Quotient
    <3>4. Capacity \div WarpSize # 0
      BY <1>1, <2>2, <3>3
    <3>5. WarpSize = 1 * WarpSize
      BY <1>1
    <3> QED
      BY <1>1, <3>1, <3>2, <3>3, <3>4, <3>5 DEF PerWarp, MaxArrLen
  <2> QED
    BY <1>1, <2>1, <2>2
<1>3. PICK warps \in Nat \ {0} : nwarps = warps * PerWarp
  BY <1>2 DEF Shape
<1>4. nwarps \div PerWarp = warps /\ nwarps \in Nat \ {0}
  <2>1. warps * PerWarp \in Nat
    BY <1>2
  <2>2. warps * PerWarp >= 1 * PerWarp
    BY <1>2
  <2>3. (warps * PerWarp) \div PerWarp = warps
    BY <1>2, <2>1, Quotient
  <2> QED
    BY <1>2, <1>3, <2>1, <2>2, <2>3
<1>5. NumWarps \in Nat \ {0} /\ nwarps = NumWarps * PerWarp /\ Warps = 0..(NumWarps - 1)
  BY <1>3, <1>4 DEF NumWarps, Warps
<1>6. Blockdim = NumWarps * WarpSize /\ Blockdim \in Nat \ {0}
  <2>1. (NumWarps * PerWarp) * WarpWidth = NumWarps * (PerWarp * WarpWidth)
    BY <1>2, <1>5
  <2>2. NumWarps * WarpSize >= 1 * WarpSize /\ NumWarps * WarpSize \in Nat
    BY <1>1, <1>5
  <2> QED
    BY <1>1, <1>2, <1>5, <2>1, <2>2 DEF Blockdim
<1>7. NumBlocks \in Nat \ {0}
  BY DEF NumBlocks, Shape
<1>8. Stride = NumBlocks * Blockdim /\ Stride \in Nat \ {0}
  <2>1. Stride = Blockdim * NumBlocks
    BY DEF Stride, NumBlocks
  <2>2. Blockdim * NumBlocks = NumBlocks * Blockdim
    BY <1>6, <1>7
  <2>3. NumBlocks * Blockdim >= 1 * Blockdim /\ NumBlocks * Blockdim \in Nat
    BY <1>6, <1>7
  <2> QED
    BY <1>6, <2>1, <2>2, <2>3
<1>9. n \in Nat
  BY DEF Shape, n
<1>10. Size \in Nat
  BY <1>9 DEF Size, Shape
<1>11. Trimmed \in Nat /\ Trimmed <= k /\ Trimmed <= Size
  BY <1>10 DEF Trimmed, Smaller, Shape
<1> QED
  BY <1>1, <1>2, <1>4, <1>5, <1>6, <1>7, <1>8, <1>9, <1>10, <1>11

(* Subwarps of a warp, and lanes of a subwarp.                               *)
LEMMA LaneFacts ==
  ASSUME Shape
  PROVE  /\ \A w \in Warps, l \in Lanes : Lane(l, w) \in Subwarps /\ Lane(l, w) \div PerWarp = w
         /\ \A s \in Subwarps : s \div PerWarp \in Warps
<1>1. /\ WarpSize \in Nat \ {0} /\ WarpWidth \in Nat \ {0} /\ PerWarp \in Nat \ {0}
      /\ WarpSize = PerWarp * WarpWidth
      /\ NumWarps \in Nat \ {0} /\ nwarps \in Nat /\ nwarps = NumWarps * PerWarp /\ Warps = 0..(NumWarps - 1)
  BY ShapeFacts
<1>2. ASSUME NEW w \in Warps, NEW l \in Lanes
      PROVE  Lane(l, w) \in Subwarps /\ Lane(l, w) \div PerWarp = w
  <2>1. l \in Nat /\ l < PerWarp * WarpWidth
    BY <1>1 DEF Lanes
  <2>2. l \div WarpWidth \in 0..(PerWarp - 1)
    BY <1>1, <2>1, Below2
  <2>3. /\ w * PerWarp + l \div WarpWidth \in 0..(NumWarps * PerWarp - 1)
        /\ (w * PerWarp + l \div WarpWidth) \div PerWarp = w
    BY <1>1, <2>2, Within
  <2> QED
    BY <1>1, <2>3 DEF Lane, Subwarps
<1>3. ASSUME NEW s \in Subwarps PROVE s \div PerWarp \in Warps
  <2>1. s \in Nat /\ s < NumWarps * PerWarp
    BY <1>1 DEF Subwarps
  <2> QED
    BY <1>1, <2>1, Below2
<1> QED
  BY <1>2, <1>3

(* The first element of a warp, and where its lanes come by.                 *)
First(w) == blk * Blockdim + w * WarpSize
Place(b, w, t, l) == b * Blockdim + w * WarpSize + t * Stride + l
LEMMA EveryPlace ==
  ASSUME Shape, NEW p \in Nat
  PROVE  /\ (p % Stride) \div Blockdim \in 0..(NumBlocks - 1)
         /\ \E w \in Warps, t \in Nat, l \in Lanes : p = Place((p % Stride) \div Blockdim, w, t, l)
<1>1. /\ WarpSize \in Nat \ {0} /\ NumWarps \in Nat \ {0} /\ Warps = 0..(NumWarps - 1)
      /\ Blockdim \in Nat \ {0} /\ Blockdim = NumWarps * WarpSize
      /\ NumBlocks \in Nat \ {0} /\ Stride \in Nat \ {0} /\ Stride = NumBlocks * Blockdim
  BY ShapeFacts
<1> DEFINE t == p \div Stride
           r == p % Stride
           b == r \div Blockdim
           q == r % Blockdim
           w == q \div WarpSize
           l == q % WarpSize
<1>2. t \in Nat /\ r \in Nat /\ r < NumBlocks * Blockdim /\ p = t * Stride + r
  <2>1. t \in Nat /\ r \in 0..(Stride - 1) /\ p = t * Stride + r
    BY <1>1, Quotient
  <2> HIDE DEF t, r
  <2> QED
    BY <1>1, <2>1
<1> HIDE DEF t, r
<1>3. b \in 0..(NumBlocks - 1) /\ q \in Nat /\ q < NumWarps * WarpSize /\ r = b * Blockdim + q
  <2>1. b \in 0..(NumBlocks - 1)
    BY <1>1, <1>2, Below2
  <2>2. q \in 0..(Blockdim - 1) /\ r = b * Blockdim + q
    BY <1>1, <1>2, Quotient
  <2> HIDE DEF b, q
  <2> QED
    BY <1>1, <2>1, <2>2
<1> HIDE DEF b, q
<1>4. w \in Warps /\ l \in 0..(WarpSize - 1) /\ q = w * WarpSize + l
  <2>1. w \in 0..(NumWarps - 1)
    BY <1>1, <1>3, Below2
  <2>2. l \in 0..(WarpSize - 1) /\ q = w * WarpSize + l
    BY <1>1, <1>3, Quotient
  <2> HIDE DEF w, l
  <2> QED
    BY <1>1, <2>1, <2>2
<1> HIDE DEF w, l
<1>5. t * Stride \in Nat /\ b * Blockdim \in Nat /\ w * WarpSize \in Nat
  <2>1. \A x \in Nat, y \in Nat : x * y \in Nat
    OBVIOUS
  <2>2. b \in Nat /\ w \in Nat
    BY <1>1, <1>3, <1>4
  <2> QED
    BY <1>1, <1>2, <2>1, <2>2
<1>6. p = Place(b, w, t, l) /\ l \in Lanes
  BY <1>2, <1>3, <1>4, <1>5 DEF Place, Lanes
<1> QED
  BY <1>2, <1>3, <1>4, <1>6 DEF b, r

LEMMA WholeWarps ==
  ASSUME NEW a \in Nat \ {0}, NEW b \in Nat \ {0}, a % b = 0
  PROVE  a \div b \in Nat \ {0}
<1>1. a \div b \in Int
  OBVIOUS
<1>2. a < b => a % b = a
  OBVIOUS
<1>3. a >= b => a \div b >= 1
  OBVIOUS
<1> QED
  BY <1>1, <1>2, <1>3

(* The host's choice is such a launch.                                       *)
LEMMA CeilDivPositive ==
  ASSUME NEW a \in Nat \ {0}, NEW b \in Nat \ {0}
  PROVE  CeilDiv(a, b) \in Nat \ {0}
<1>1. a + b - 1 \in Nat /\ a + b - 1 >= b
  OBVIOUS
<1> DEFINE u == (a + b - 1) \div b
<1>2. u \in Nat /\ a + b - 1 < u * b + b
  <2> DEFINE r == (a + b - 1) % b
  <2>1. u \in Nat /\ r \in 0..(b - 1) /\ a + b - 1 = u * b + r
    BY <1>1, Quotient
  <2> HIDE DEF u, r
  <2> QED
    BY <2>1
<1> HIDE DEF u
<1>3. u # 0
  BY <1>1, <1>2
<1> QED
  BY <1>2, <1>3 DEF CeilDiv, u

LEMMA Times ==
  ASSUME NEW a \in Nat \ {0}, NEW b \in Nat \ {0}
  PROVE  a * b \in Nat \ {0}
<1>1. a * b >= 1 * b /\ a * b \in Nat
  OBVIOUS
<1> QED
  BY <1>1

LEMMA LaunchShape ==
  ASSUME SelectInit, WarpInit
  PROVE  Shape
<1>1. /\ Capacity \in Nat \ {0} /\ WarpSize \in Nat \ {0}
      /\ MultiFactor \in Nat \ {0} /\ SingleFactor \in Nat \ {0}
      /\ k \in Nat \ {0} /\ \E c \in Capacities : Fits(c, k)
  <2>1. \E c \in Capacities : Fits(c, k)
    BY WarpAssumption DEF SelectInit
  <2>2. Capacity \in Capacities
    BY <2>1 DEF Capacity
  <2> QED
    BY <2>1, <2>2, WarpAssumption, ShapeAssumption DEF SelectInit
<1>2. FullCapacity \in Nat \ {0}
  BY <1>1 DEF FullCapacity, Larger
<1>3. len \in Nat \ {0} /\ row \in Seq(Keys)
  <2>1. row \in Seq(Keys) /\ n \in Nat /\ Cols \in Nat /\ k <= Cols
    BY RowsAssumption, ShapeAssumption DEF SelectInit, n
  <2>2. ~csr => k <= n
    BY DEF SelectInit
  <2> QED
    BY <1>1, <2>1, <2>2 DEF len
<1>4. FullCapacity * MultiFactor \in Nat \ {0} /\ FullCapacity * SingleFactor \in Nat \ {0}
  BY <1>1, <1>2, Times
<1>5. ASSUME NEW size \in BlockSizes
      PROVE  /\ size \div WarpSize \in Nat \ {0}
             /\ OneBlock(size)[1] = 1 /\ OneBlock(size)[2] \in Nat \ {0}
  <2>1. size \in Nat \ {0} /\ size % WarpSize = 0
    BY WarpAssumption
  <2>2. size \div WarpSize \in Nat \ {0}
    BY <1>1, <2>1, WholeWarps
  <2> DEFINE per_warp == RoundUp(CeilDiv(len, size \div WarpSize), WarpSize)
             least == FullCapacity * SingleFactor
             each == IF per_warp < least THEN least ELSE per_warp
  <2>3. CeilDiv(len, size \div WarpSize) \in Nat \ {0}
    BY <1>3, <2>2, CeilDivPositive
  <2>4. per_warp \in Nat \ {0}
    BY <1>1, <2>3, CeilDivPositive, Times DEF RoundUp
  <2>5. OneBlock(size) = <<1, CeilDiv(len, each)>>
    BY DEF OneBlock
  <2>6. each \in Nat \ {0}
    BY <1>4, <2>4
  <2> HIDE DEF each
  <2> QED
    BY <1>3, <2>2, <2>5, <2>6, CeilDivPositive
<1>6. ASSUME NEW size \in BlockSizes, NEW grid \in GridSizes, grid # 0
      PROVE  ManyBlocks(size, grid)[1] \in Nat \ {0} /\ ManyBlocks(size, grid)[2] \in Nat \ {0}
  <2> DEFINE warps == size \div WarpSize
             least == FullCapacity * MultiFactor
             per_warp == RoundUp(CeilDiv(CeilDiv(len, grid), warps), WarpSize)
             per_block == Smaller(warps * least, len)
  <2>1. warps \in Nat \ {0} /\ least \in Nat \ {0} /\ grid \in Nat \ {0}
    BY <1>4, <1>5, <1>6, WarpAssumption
  <2>2. ManyBlocks(size, grid) \in {<<CeilDiv(len, per_warp * warps), warps>>,
                                    <<CeilDiv(len, per_block), CeilDiv(per_block, least)>>}
    BY DEF ManyBlocks
  <2>3. per_block \in Nat \ {0}
    <3> HIDE DEF warps, least
    <3> QED
      BY <1>3, <2>1, Times DEF Smaller
  <2>4. per_warp \in Nat \ {0}
    <3>1. CeilDiv(CeilDiv(len, grid), warps) \in Nat \ {0}
      BY <1>3, <2>1, CeilDivPositive
    <3> QED
      BY <1>1, <3>1, CeilDivPositive, Times DEF RoundUp
  <2> HIDE DEF warps, least, per_block, per_warp
  <2>5. per_warp * warps \in Nat \ {0}
    BY <2>1, <2>4, Times
  <2>6. CeilDiv(per_block, least) \in Nat \ {0} /\ CeilDiv(len, per_block) \in Nat \ {0}
        /\ CeilDiv(len, per_warp * warps) \in Nat \ {0}
    BY <1>3, <2>1, <2>3, <2>5, CeilDivPositive
  <2> QED
    BY <2>1, <2>2, <2>6
<1>7. PICK p \in LaunchParameters : num_of_block = p[1] /\ nwarps = p[2] * (FullCapacity \div Capacity)
  BY DEF WarpInit
<1>8. p[1] \in Nat \ {0} /\ p[2] \in Nat \ {0}
  BY <1>5, <1>6, <1>7 DEF LaunchParameters
<1> QED
  BY <1>1, <1>3, <1>7, <1>8 DEF Shape, SelectInit, WarpInit

LEMMA InitInv == Init => IInv
<1> SUFFICES ASSUME Init PROVE IInv
  OBVIOUS
<1>1. where = "host" /\ SelectInit
  BY DEF Init, SelectInit
<1>2. nwarps \in Int
  <2>1. CASE WarpIdle
    BY <2>1 DEF WarpIdle
  <2>2. CASE WarpInit
    BY <1>1, <2>2, LaunchShape, ShapeFacts
  <2> QED
    BY <2>1, <2>2 DEF Init
<1> QED
  BY <1>1, <1>2 DEF IInv

-----------------------------------------------------------------------------
(* One step of a launch.                                                     *)
LEMMA WarpsortInv ==
  ASSUME IInv, Warpsort
  PROVE  IInv'
<1>1. algo' = algo /\ algo = "warpsort" /\ nwarps \in Int /\ nwarps' = nwarps /\ variant' = variant
  BY DEF IInv, Warpsort, WarpNext, WarpActs, Begin, Add, Done, Sync, Store, Load, StoreResult, EndBlock, shape
<1>2. SUFFICES ASSUME where' = "warpsort" PROVE TreeInv'
  BY <1>1 DEF IInv
<1>3. CASE Begin
  BY <1>1, <1>3, StartInv DEF Begin
<1>4. ASSUME where = "warpsort", NEW w, Add(w) \/ Done(w) PROVE TreeInv'
  BY <1>1, <1>4, AddInv, DoneInv DEF IInv
<1>5. ASSUME where = "warpsort", NEW s \in DOMAIN sub, Sync(s) \/ Store(s) \/ Load(s) PROVE TreeInv'
  <2>1. TreeInv /\ s \in Subwarps
    BY <1>5 DEF IInv, TreeInv, Domains
  <2>2. CASE Sync(s)
    <3>1. /\ sub[s].pc = "sync" /\ sub' = [sub EXCEPT ![s].pc = "store"]
          /\ queue' = queue /\ smem' = smem /\ UNCHANGED still
      BY <2>2 DEF Sync, still, input, shape, n
    <3> QED
      BY <1>1, <2>1, <3>1, PlaceInv
  <2> QED
    BY <1>1, <1>5, <2>1, <2>2, StoreInv, LoadInv
<1>6. CASE StoreResult
  <2>1. TreeInv /\ DOMAIN sub = Subwarps /\ DOMAIN queue = Subwarps
    BY <1>6 DEF IInv, StoreResult, TreeInv, Domains
  <2>2. /\ sub[0].pc = "store" /\ sub' = [sub EXCEPT ![0].pc = "end"]
        /\ queue' = queue /\ smem' = smem /\ UNCHANGED still
    BY <1>6 DEF StoreResult, still, input, shape, n
  <2>3. CASE 0 \in Subwarps
    BY <1>1, <2>1, <2>2, <2>3, PlaceInv
  <2>4. CASE 0 \notin Subwarps
    <3>1. Subwarps = {}
      BY <1>1, <2>4 DEF Subwarps
    <3>2. DOMAIN sub' = Subwarps
      BY <2>1, <2>2
    <3> QED
      BY <1>1, <2>1, <2>2, <3>1, <3>2, Frame
  <2> QED
    BY <2>3, <2>4
<1>7. CASE EndBlock
  BY <1>1, <1>2, <1>7, StartInv DEF EndBlock
<1>8. CASE WarpActs
  <2>1. where = "warpsort"
    BY <1>8 DEF WarpActs, Add, Adding, Done, Sync, Store, Load
  <2> QED
    BY <1>4, <1>5, <1>8, <2>1 DEF WarpActs
<1> QED
  BY <1>3, <1>6, <1>7, <1>8 DEF Warpsort, WarpNext

(* The radix kernels, and what happens at the host, start no launch of       *)
(* warps.                                                                    *)
LEMMA OtherInv ==
  ASSUME IInv, NoElements \/ Radix \/ Return \/ UNCHANGED vars
  PROVE  IInv'
<1>1. CASE NoElements
  BY <1>1 DEF IInv, NoElements, warponly, shape
<1>2. CASE Return
  BY <1>2 DEF IInv, Return, warponly, shape
<1>3. CASE Radix
  <2>1. algo = "radix" /\ algo' = algo /\ where # "warpsort" /\ nwarps' = nwarps /\ nwarps \in Int
    BY <1>3 DEF IInv, Radix, warponly, shape
  <2>2. CASE RadixHost
    <3>1. where' # "warpsort"
      BY <2>1, <2>2 DEF RadixHost, SelectAll, Launch, Finish, StartOneBlock, OneBlockPass, OneBlockLast
    <3> QED
      BY <2>1, <3>1 DEF IInv
  <2>3. CASE \E b \in DOMAIN block : RadixBlock(b)
    <3>1. where' = where
      BY <2>3 DEF RadixBlock, Start, FilterAndHistogram, MergeHistogram, EndPass, StartLast, LastFilterOne
    <3> QED
      BY <2>1, <3>1 DEF IInv
  <2> QED
    BY <1>3, <2>2, <2>3 DEF Radix, RadixNext
<1>4. CASE UNCHANGED vars
  <2>1. UNCHANGED <<algo, where, shape, input, merging, queue, smem, sub>>
    BY <1>4 DEF vars, warponly
  <2>2. UNCHANGED still /\ nwarps' = nwarps
    BY <2>1 DEF still, input, shape, n
  <2>3. ASSUME where = "warpsort" PROVE TreeInv'
    <3>1. TreeInv /\ nwarps \in Int
      BY <2>3 DEF IInv
    <3>2. DOMAIN sub = Subwarps /\ DOMAIN queue = Subwarps /\ \A s \in Subwarps : SubOK(s)
      BY <3>1 DEF TreeInv, Domains
    <3>3. FirstRound' = FirstRound
      BY <2>2, StillTrimmed
    <3>4. \A s \in Subwarps : Round(s)' = Round(s)
      BY <2>1, <3>3 DEF Round
    <3> QED
      BY <2>1, <2>2, <3>1, <3>2, <3>4, Frame DEF SubOK
  <2> QED
    BY <2>1, <2>2, <2>3 DEF IInv
<1> QED
  BY <1>1, <1>2, <1>3, <1>4

(* The invariant of the tree merge: subwarps of a block are at most one      *)
(* round apart, agree on what a round is, and find what was stored for them  *)
(* (block_sort::done).                                                       *)
THEOREM Invariance == Spec => []IInv
<1>1. IInv /\ [Next]_vars => IInv'
  BY WarpsortInv, OtherInv DEF Next
<1> QED
  BY InitInv, <1>1, PTL DEF Spec

(* A subwarp that has passed the barrier of its round merges in what its     *)
(* partner of this round has stored, whatever others have stored since: one  *)
(* barrier in a round is enough, as the comment in block_sort::done says.    *)
THEOREM HandOverCorrect == Spec => []HandedOver
<1>1. ASSUME IInv PROVE HandedOver
  <2> SUFFICES ASSUME where = "warpsort", NEW s \in DOMAIN sub,
                      sub[s].pc = "load", Arrived(s), s < sub[s].nwarps - Split(s)
               PROVE  smem[LoadPlace(s)] = Best(queue[s + Split(s)], Trimmed)
    BY DEF HandedOver
  <2>1. TreeInv /\ nwarps \in Int /\ Domains /\ s \in Subwarps
    BY <1>1 DEF IInv, TreeInv, Domains
  <2>2. /\ s \in Nat /\ nwarps \in Nat /\ SubOK(s) /\ Split(s) \in Nat
        /\ Round(s) = sub[s].arrived
    BY <2>1, SubwarpFacts
  <2>3. s + Split(s) \in Subwarps /\ s + Split(s) < sub[s].nwarps
    BY <2>2 DEF SubOK, Subwarps
  <2>4. sub[s + Split(s)].arrived >= Round(s)
    BY <2>2, <2>3 DEF Arrived
  <2>5. smem[LoadPlace(s)] = Kept(s + Split(s))
    BY <2>1, <2>3, <2>4 DEF TreeInv, ForLoad
  <2> QED
    BY <2>5, KeptBest
<1> QED
  BY <1>1, Invariance, PTL

-----------------------------------------------------------------------------
(* What a launch may select.                                                 *)
Items == {Read(i) : i \in {j \in 0..(Size - 1) : Real(Read(j))}}
TmpPairs == DOMAIN tmp = 0..(num_of_block * k - 1) /\ \A i \in DOMAIN tmp : tmp[i] \in Keys \X Int

rigid == <<row, csr, k, select_min, len_i, variant, num_of_block, nwarps, merging, blk>>
SameLaunch == UNCHANGED rigid /\ (merging => tmp' = tmp)

LEMMA Rigid ==
  ASSUME SameLaunch
  PROVE  /\ Capacity' = Capacity /\ WarpWidth' = WarpWidth /\ PerWarp' = PerWarp /\ MaxArrLen' = MaxArrLen
         /\ Warps' = Warps /\ Subwarps' = Subwarps /\ Pieces' = Pieces
         /\ Size' = Size /\ Trimmed' = Trimmed /\ Stride' = Stride /\ n' = n
         /\ \A i : Read(i)' = Read(i)
         /\ \A e : Real(e)' = Real(e)
         /\ \A w : First(w)' = First(w) /\ SubwarpsOf(w)' = SubwarpsOf(w)
         /\ \A l, w : Lane(l, w)' = Lane(l, w)
         /\ \A b, s : Buffered(b, s)' = Buffered(b, s)
         /\ Items' = Items /\ select_min' = select_min
         /\ UNCHANGED <<row, csr, k, len_i, variant, num_of_block, nwarps, merging, blk>>
<1>1. UNCHANGED <<row, csr, k, select_min, len_i, variant, num_of_block, nwarps, merging, blk>>
  BY DEF SameLaunch, rigid
<1>2. Capacity' = Capacity /\ WarpWidth' = WarpWidth /\ PerWarp' = PerWarp /\ MaxArrLen' = MaxArrLen
  BY <1>1 DEF Capacity, WarpWidth, PerWarp, MaxArrLen
<1>3. Warps' = Warps /\ Subwarps' = Subwarps /\ Pieces' = Pieces
  BY <1>1, <1>2 DEF Warps, Subwarps, Pieces, CeilDiv
<1>4. n' = n /\ Size' = Size /\ Stride' = Stride /\ Blockdim' = Blockdim
  BY <1>1, <1>2 DEF n, Size, Stride, Blockdim
<1>5. Trimmed' = Trimmed
  BY <1>1, <1>4 DEF Trimmed, Smaller
<1>6. Dummy' = Dummy /\ \A e : Real(e)' = Real(e)
  BY <1>1 DEF Dummy, Real, Bound
<1>7. \A i : Read(i)' = Read(i)
  <2>1. merging => tmp' = tmp
    BY DEF SameLaunch
  <2> QED
    BY <1>1, <1>4, <1>6, <2>1 DEF Read, Element
<1>8. Items' = Items
  <2>1. \A i : Real(Read(i))' = Real(Read(i))
    BY <1>1, <1>7 DEF Real, Bound
  <2> QED
    BY <1>4, <1>7, <2>1 DEF Items
<1>9. \A w : First(w)' = First(w) /\ SubwarpsOf(w)' = SubwarpsOf(w)
  BY <1>1, <1>2, <1>3, <1>4 DEF First, SubwarpsOf
<1>10. \A l, w : Lane(l, w)' = Lane(l, w)
  BY <1>2 DEF Lane
<1>11. \A b, s : Buffered(b, s)' = Buffered(b, s)
  BY <1>2, <1>10 DEF Buffered
<1> QED
  BY <1>1, <1>2, <1>3, <1>4, <1>5, <1>6, <1>7, <1>8, <1>9, <1>10, <1>11

LEMMA KeysInt ==
  /\ 2^Width \in Int
  /\ \A x \in Keys : x \in Int /\ Bound \in Keys
<1>1. 2^Width \in Int
  BY WidthAssumption
<1>2. \A x \in Keys : x \in Int /\ 0 <= x /\ x <= 2^Width - 1
  BY <1>1 DEF Keys
<1>3. \A x \in Keys : 0 \in Keys /\ 2^Width - 1 \in Keys
  BY <1>1, <1>2 DEF Keys
<1> QED
  BY <1>1, <1>2, <1>3 DEF Bound

LEMMA ElementPair ==
  ASSUME Shape, NEW i \in 0..(n - 1)
  PROVE  Element(i) \in Keys \X Nat
<1>1. row \in Seq(Keys) /\ Len(row) \in Nat /\ n = Len(row)
  BY DEF Shape, n
<1>2. i \in Nat /\ i + 1 \in 1..Len(row)
  BY <1>1
<1>3. row[i + 1] \in Keys
  BY <1>1, <1>2
<1> QED
  BY <1>2, <1>3 DEF Element

LEMMA ItemsFacts ==
  ASSUME Shape, TmpPairs
  PROVE  /\ IsFiniteSet(Items) /\ Items \in SUBSET Pairs /\ Items \in SUBSET (Keys \X Int)
         /\ \A i \in Nat : Real(Read(i)) => Read(i) \in Items
<1>1. Size \in Nat /\ n \in Nat
  BY ShapeFacts
<1> DEFINE R == {j \in 0..(Size - 1) : Real(Read(j))}
           f == [i \in R |-> Read(i)]
<1>2. IsFiniteSet(R)
  BY <1>1, Interval, FS_Subset
<1>3. Items = {f[i] : i \in R}
  BY DEF Items
<1> HIDE DEF R
<1>4. IsFiniteSet({f[i] : i \in R})
  <2> DEFINE T == {f[i] : i \in R}
  <2>1. f \in [R -> T] /\ \A t \in T : \E i \in R : f[i] = t
    <3>1. \A i \in R : f[i] \in T
      OBVIOUS
    <3> QED
      BY <3>1
  <2>2. f \in Surjection(R, T)
    <3> HIDE DEF f, T
    <3> QED
      BY <2>1 DEF Surjection
  <2> HIDE DEF f, T
  <2>3. IsFiniteSet(T)
    BY <1>2, <2>2, FS_Surjection
  <2> QED
    BY <2>3 DEF T
<1> HIDE DEF f
<1>5. ASSUME NEW i \in 0..(Size - 1) PROVE Read(i) \in Keys \X Int
  <2>1. ~(i >= Size)
    BY <1>1
  <2>2. CASE merging
    <3>1. Size = num_of_block * k
      BY <2>2 DEF Size
    <3>2. tmp[i] \in Keys \X Int
      BY <3>1 DEF TmpPairs
    <3> QED
      BY <2>1, <2>2, <3>2 DEF Read
  <2>3. CASE ~merging
    <3>1. Size = n /\ Read(i) = Element(i)
      BY <2>1, <2>3 DEF Size, Read
    <3> QED
      BY <3>1, ElementPair
  <2> QED
    BY <2>2, <2>3
<1>6. Items \in SUBSET (Keys \X Int) /\ Items \in SUBSET Pairs
  BY <1>5, KeysInt DEF Items, Pairs
<1>7. ASSUME NEW i \in Nat, Real(Read(i)) PROVE Read(i) \in Items
  <2>1. i < Size
    <3>1. i >= Size => Read(i) = Dummy /\ ~Real(Dummy)
      BY DEF Read, Real, Dummy
    <3> QED
      BY <1>1, <1>7, <3>1
  <2> QED
    BY <1>1, <1>7, <2>1 DEF Items
<1> QED
  BY <1>3, <1>4, <1>6, <1>7

(* Best, without the state it is written with.                               *)
LEMMA BestIs ==
  ASSUME NEW S \in SUBSET Pairs, select_min \in BOOLEAN
  PROVE  /\ \A m : Best(S, m) = Foremost(select_min, S, m)
         /\ \A a, b \in Pairs : /\ Better(a, b) <=> Beats(select_min, a, b)
                                /\ Precedes(a, b) <=> Comes(select_min, a, b)
<1>1. \A a, b \in Pairs : Better(a, b) <=> Beats(select_min, a, b)
  BY KeysInt DEF Better, Twiddle, Beats, Pairs
<1>2. \A a, b \in Pairs : Precedes(a, b) <=> Comes(select_min, a, b)
  BY <1>1 DEF Precedes, Comes
<1>3. \A x \in S : {y \in S : Precedes(y, x)} = Lower(select_min, S, x)
  BY <1>2 DEF Lower
<1>4. \A m : Best(S, m) = Foremost(select_min, S, m)
  BY <1>3 DEF Best, Foremost
<1> QED
  BY <1>1, <1>2, <1>4

-----------------------------------------------------------------------------
(* The buffer of a warp, by variant.                                         *)
BufOK(B, f) ==
  /\ DOMAIN B = Lanes /\ \A l \in Lanes : B[l] \in SUBSET Items
  /\ f \in Nat
  /\ variant = "immediate" => f < MaxArrLen /\ \A l \in Lanes : Cardinality(B[l]) <= f
  /\ variant = "filtered" => f = 0 /\ \A l \in Lanes : Cardinality(B[l]) <= MaxBufLen
  /\ variant \notin {"immediate", "filtered"}
     => f < WarpSize /\ \A l \in Lanes : Cardinality(B[l]) <= 1 /\ (l >= f => B[l] = {})

WarpsOK ==
  /\ DOMAIN base = Warps /\ DOMAIN buf = Warps /\ DOMAIN fill = Warps
  /\ \A w \in Warps : base[w] \in Nat /\ BufOK(buf[w], fill[w])
                       /\ \E t \in Nat : base[w] = First(w) + t * Stride

(* What adding does: b is what the buffers have when they are merged.        *)
Added1(w, b) ==
  /\ DOMAIN b = Warps /\ DOMAIN buf' = Warps /\ DOMAIN fill' = Warps
  /\ \A v \in Warps \ {w} : b[v] = buf[v] /\ buf'[v] = buf[v] /\ fill'[v] = fill[v]
  /\ \A l \in Lanes : buf[w][l] \in SUBSET b[w][l] /\ b[w][l] \in SUBSET Items
  /\ \/ queue' = queue /\ buf' = b
     \/ queue' = Merged(w, b)
  /\ \A l \in Added(w) : \E x \in Lanes : Read(base[w] + l) \in b[w][x] \cup buf'[w][x]
  /\ BufOK(buf'[w], fill'[w])

LEMMA AddOneMore ==
  ASSUME NEW S, IsFiniteSet(S), NEW e
  PROVE  /\ Cardinality(S) \in Nat /\ Cardinality(S \cup {e}) \in Nat
         /\ Cardinality(S \cup {e}) <= Cardinality(S) + 1
<1>1. IsFiniteSet(S \cup {e})
      /\ Cardinality(S \cup {e}) = IF e \in S THEN Cardinality(S) ELSE Cardinality(S) + 1
  BY FS_AddElement
<1>2. Cardinality(S) \in Nat
  BY FS_CardinalityType
<1> QED
  BY <1>1, <1>2

LEMMA AddMost ==
  ASSUME NEW S, IsFiniteSet(S), NEW e, NEW T, T = S \/ T = S \cup {e}
  PROVE  Cardinality(S) \in Nat /\ Cardinality(T) \in Nat /\ Cardinality(T) <= Cardinality(S) + 1
<1>1. Cardinality(T) = Cardinality(S) \/ Cardinality(T) = Cardinality(S \cup {e})
  BY Zenon
<1>2. /\ Cardinality(S) \in Nat /\ Cardinality(S \cup {e}) \in Nat
      /\ Cardinality(S \cup {e}) <= Cardinality(S) + 1
  BY AddOneMore
<1> QED
  BY <1>1, <1>2

LEMMA SmallSets ==
  /\ Cardinality({}) = 0
  /\ \A e : Cardinality({e}) = 1
BY FS_EmptySet, FS_Singleton

LEMMA GivenItems ==
  ASSUME Shape, TmpPairs, WarpsOK, NEW w \in Warps
  PROVE  /\ base[w] \in Nat
         /\ Added(w) \in SUBSET Given(w) /\ Given(w) \in SUBSET Lanes
         /\ \A l \in Given(w) : Read(base[w] + l) \in Items
<1>1. base[w] \in Nat
  BY DEF WarpsOK
<1>2. \A l \in Lanes : base[w] + l \in Nat
  <2>1. WarpSize \in Nat
    BY ShapeFacts
  <2> QED
    BY <1>1, <2>1 DEF Lanes
<1>3. Given(w) \in SUBSET Lanes /\ \A l \in Given(w) : Real(Read(base[w] + l))
  BY DEF Given
<1>4. \A i \in Nat : Real(Read(i)) => Read(i) \in Items
  BY ItemsFacts
<1>5. \A l \in Given(w) : Read(base[w] + l) \in Items
  BY <1>2, <1>3, <1>4
<1> QED
  BY <1>1, <1>3, <1>5 DEF Added

(* The buffers r are those of b, with what the lanes of L have read.         *)
Gains(r, b, w, L) ==
  /\ DOMAIN r = Warps /\ r = [v \in Warps |-> r[v]] /\ \A v \in Warps \ {w} : r[v] = b[v]
  /\ DOMAIN r[w] = Lanes
  /\ \A l \in Lanes : r[w][l] = IF l \in L THEN b[w][l] \cup {Read(base[w] + l)} ELSE b[w][l]

LEMMA WithFacts ==
  ASSUME NEW b, DOMAIN b = Warps, NEW w \in Warps, NEW L
  PROVE  Gains(With(b, w, L), b, w, L)
BY DEF With, Gains

LEMMA ImmediateStep ==
  ASSUME Shape, TmpPairs, WarpsOK, NEW w \in Warps, variant = "immediate", AddImmediate(w)
  PROVE  \E b : Added1(w, b)
<1> DEFINE b == With(buf, w, Added(w))
           full == fill[w] + 1 = MaxArrLen
<1>1. /\ IF full THEN queue' = Merged(w, b) ELSE queue' = queue
      /\ buf' = [b EXCEPT ![w] = IF full THEN [l \in Lanes |-> {}] ELSE b[w]]
      /\ fill' = [fill EXCEPT ![w] = IF full THEN 0 ELSE fill[w] + 1]
  <2>1. DOMAIN fill = Warps /\ DOMAIN b = Warps
    <3>1. DOMAIN fill = Warps /\ DOMAIN buf = Warps
      BY DEF WarpsOK
    <3>2. Gains(b, buf, w, Added(w))
      BY <3>1, WithFacts
    <3> HIDE DEF b
    <3> QED
      BY <3>1, <3>2 DEF Gains
  <2> HIDE DEF b
  <2> QED
    BY <2>1 DEF AddImmediate, MergeIn, b
<1>2. /\ DOMAIN b = Warps /\ DOMAIN buf = Warps /\ DOMAIN fill = Warps
      /\ b = [v \in Warps |-> b[v]]
      /\ \A v \in Warps \ {w} : b[v] = buf[v]
      /\ DOMAIN b[w] = Lanes
      /\ \A l \in Lanes : b[w][l] = IF l \in Added(w) THEN buf[w][l] \cup {Read(base[w] + l)} ELSE buf[w][l]
  <2>1. DOMAIN buf = Warps /\ DOMAIN fill = Warps
    BY DEF WarpsOK
  <2>2. Gains(b, buf, w, Added(w))
    BY <2>1, WithFacts
  <2> HIDE DEF b
  <2> QED
    BY <2>1, <2>2 DEF Gains
<1> HIDE DEF b, full
<1>3. /\ BufOK(buf[w], fill[w]) /\ fill[w] \in Nat /\ fill[w] < MaxArrLen
      /\ \A l \in Lanes : buf[w][l] \in SUBSET Items /\ Cardinality(buf[w][l]) <= fill[w]
  BY DEF WarpsOK, BufOK
<1>4. \A l \in Lanes : b[w][l] \in SUBSET Items /\ Cardinality(b[w][l]) <= fill[w] + 1
  <2> SUFFICES ASSUME NEW l \in Lanes
               PROVE  b[w][l] \in SUBSET Items /\ Cardinality(b[w][l]) <= fill[w] + 1
    OBVIOUS
  <2>1. IsFiniteSet(buf[w][l])
    BY <1>3, ItemsFacts, FS_Subset
  <2>2. Cardinality(b[w][l]) <= Cardinality(buf[w][l]) + 1 /\ Cardinality(buf[w][l]) \in Nat
        /\ Cardinality(b[w][l]) \in Nat
    <3>1. b[w][l] = buf[w][l] \/ b[w][l] = buf[w][l] \cup {Read(base[w] + l)}
      BY <1>2, Zenon
    <3> QED
      BY <2>1, <3>1, AddMost, Zenon
  <2>3. b[w][l] \in SUBSET Items
    BY <1>2, <1>3, GivenItems
  <2> QED
    BY <1>3, <2>2, <2>3
<1>5. CASE full
  <2>1. /\ buf'[w] = [l \in Lanes |-> {}] /\ fill'[w] = 0 /\ DOMAIN buf' = Warps /\ DOMAIN fill' = Warps
        /\ \A v \in Warps \ {w} : buf'[v] = b[v] /\ fill'[v] = fill[v]
        /\ queue' = Merged(w, b)
    BY <1>1, <1>2, <1>5
  <2>2. BufOK(buf'[w], fill'[w])
    <3>1. 0 < MaxArrLen
      BY ShapeFacts
    <3> QED
      BY <2>1, <3>1, SmallSets DEF BufOK
  <2>3. Added1(w, b)
    BY <1>2, <1>4, <2>1, <2>2, GivenItems DEF Added1
  <2> QED
    BY <2>3
<1>6. CASE ~full
  <2>1. /\ buf'[w] = b[w] /\ fill'[w] = fill[w] + 1 /\ DOMAIN buf' = Warps /\ DOMAIN fill' = Warps
        /\ \A v \in Warps \ {w} : buf'[v] = b[v] /\ fill'[v] = fill[v]
        /\ queue' = queue /\ buf' = b
    BY <1>1, <1>2, <1>6
  <2>2. BufOK(buf'[w], fill'[w])
    <3>1. fill[w] + 1 < MaxArrLen
      <4>1. MaxArrLen \in Nat
        BY ShapeFacts
      <4> QED
        BY <1>3, <1>6, <4>1 DEF full
    <3> QED
      BY <1>2, <1>3, <1>4, <2>1, <3>1 DEF BufOK
  <2>3. Added1(w, b)
    BY <1>2, <1>4, <2>1, <2>2, GivenItems DEF Added1
  <2> QED
    BY <2>3
<1> QED
  BY <1>5, <1>6

LEMMA FilteredStep ==
  ASSUME Shape, TmpPairs, WarpsOK, NEW w \in Warps, variant = "filtered", AddFiltered(w)
  PROVE  \E b : Added1(w, b)
<1> DEFINE full == {l \in Added(w) : Cardinality(buf[w][l]) = MaxBufLen}
           b == With(buf, w, Added(w) \ full)
           clear == [b EXCEPT ![w] = [l \in Lanes |-> {}]]
<1>1. /\ IF full # {} THEN queue' = Merged(w, b) ELSE queue' = queue
      /\ buf' = IF full # {} THEN With(clear, w, full) ELSE b
      /\ fill' = fill
  BY DEF AddFiltered, MergeIn
<1>2. /\ DOMAIN b = Warps /\ DOMAIN buf = Warps /\ DOMAIN fill = Warps
      /\ b = [v \in Warps |-> b[v]]
      /\ \A v \in Warps \ {w} : b[v] = buf[v]
      /\ DOMAIN b[w] = Lanes
      /\ \A l \in Lanes : b[w][l] = IF l \in Added(w) \ full THEN buf[w][l] \cup {Read(base[w] + l)} ELSE buf[w][l]
  <2>1. DOMAIN buf = Warps /\ DOMAIN fill = Warps
    BY DEF WarpsOK
  <2> HIDE DEF full
  <2>2. Gains(b, buf, w, Added(w) \ full)
    BY <2>1, WithFacts
  <2> HIDE DEF b
  <2> QED
    BY <2>1, <2>2 DEF Gains
<1>3. full \in SUBSET Added(w) /\ Added(w) \in SUBSET Lanes
      /\ \A l \in Added(w) \ full : Cardinality(buf[w][l]) # MaxBufLen
  BY GivenItems
<1>4. clear[w] = [l \in Lanes |-> {}] /\ DOMAIN clear = Warps /\ \A v \in Warps \ {w} : clear[v] = b[v]
  <2> HIDE DEF b
  <2> QED
    BY <1>2
<1> HIDE DEF b, full, clear
<1>5. /\ BufOK(buf[w], fill[w]) /\ fill[w] = 0 /\ MaxBufLen \in Nat \ {0}
      /\ \A l \in Lanes : buf[w][l] \in SUBSET Items /\ Cardinality(buf[w][l]) <= MaxBufLen
  BY ShapeFacts DEF WarpsOK, BufOK
<1>6. \A l \in Lanes : b[w][l] \in SUBSET Items /\ Cardinality(b[w][l]) <= MaxBufLen
  <2> SUFFICES ASSUME NEW l \in Lanes
               PROVE  b[w][l] \in SUBSET Items /\ Cardinality(b[w][l]) <= MaxBufLen
    OBVIOUS
  <2>1. IsFiniteSet(buf[w][l])
    BY <1>5, ItemsFacts, FS_Subset
  <2>2. l \in Added(w) \ full => Cardinality(b[w][l]) <= Cardinality(buf[w][l]) + 1
    <3>1. b[w][l] = buf[w][l] \/ b[w][l] = buf[w][l] \cup {Read(base[w] + l)}
      BY <1>2, Zenon
    <3> QED
      BY <2>1, <3>1, AddMost, Zenon
  <2>3. Cardinality(buf[w][l]) \in Nat /\ (l \notin Added(w) \ full => b[w][l] = buf[w][l])
    BY <1>2, <2>1, FS_CardinalityType
  <2>4. b[w][l] \in SUBSET Items
    BY <1>2, <1>5, GivenItems
  <2>5. IsFiniteSet(b[w][l])
    BY <2>4, ItemsFacts, FS_Subset
  <2>6. Cardinality(b[w][l]) \in Nat
    BY <2>5, FS_CardinalityType
  <2> QED
    BY <1>3, <1>5, <2>2, <2>3, <2>4, <2>6
<1>7. CASE full # {}
  <2>1. buf' = With(clear, w, full) /\ fill' = fill /\ queue' = Merged(w, b)
    BY <1>1, <1>7
  <2>2. /\ DOMAIN buf' = Warps /\ \A v \in Warps \ {w} : buf'[v] = b[v]
        /\ DOMAIN buf'[w] = Lanes
        /\ \A l \in Lanes : buf'[w][l] = IF l \in full THEN {Read(base[w] + l)} ELSE {}
    <3>1. Gains(buf', clear, w, full)
      BY <1>4, <2>1, WithFacts
    <3>2. \A l \in Lanes : clear[w][l] = {}
      BY <1>4
    <3> QED
      BY <1>4, <3>1, <3>2 DEF Gains
  <2>3. BufOK(buf'[w], fill'[w])
    <3>1. \A l \in Lanes : buf'[w][l] \in SUBSET Items
      BY <1>3, <2>2, GivenItems
    <3>2. \A l \in Lanes : Cardinality(buf'[w][l]) <= MaxBufLen
      <4> SUFFICES ASSUME NEW l \in Lanes PROVE Cardinality(buf'[w][l]) <= MaxBufLen
        OBVIOUS
      <4>1. buf'[w][l] = {Read(base[w] + l)} \/ buf'[w][l] = {}
        BY <2>2, Zenon
      <4>2. Cardinality(buf'[w][l]) = 1 \/ Cardinality(buf'[w][l]) = 0
        BY <4>1, SmallSets, Zenon
      <4> QED
        BY <1>5, <4>2
    <3> QED
      BY <1>5, <2>1, <2>2, <3>1, <3>2 DEF BufOK
  <2>4. \A l \in Added(w) : \E x \in Lanes : Read(base[w] + l) \in b[w][x] \cup buf'[w][x]
    BY <1>2, <1>3, <2>2
  <2>5. Added1(w, b)
    BY <1>2, <1>6, <2>1, <2>2, <2>3, <2>4 DEF Added1
  <2> QED
    BY <2>5
<1>8. CASE full = {}
  <2>1. buf' = b /\ fill' = fill /\ queue' = queue
    BY <1>1, <1>8
  <2>2. BufOK(buf'[w], fill'[w])
    BY <1>2, <1>5, <1>6, <2>1 DEF BufOK
  <2>3. \A l \in Added(w) : \E x \in Lanes : Read(base[w] + l) \in b[w][x] \cup buf'[w][x]
    BY <1>2, <1>3, <1>8
  <2>4. Added1(w, b)
    BY <1>2, <1>6, <2>1, <2>2, <2>3 DEF Added1
  <2> QED
    BY <2>4
<1> QED
  BY <1>7, <1>8

(* Lanes take places one after the other.                                    *)
Turn(A, l) == Cardinality({x \in A : x < l})
LEMMA TurnFacts ==
  ASSUME WarpSize \in Nat \ {0}, NEW A \in SUBSET Lanes
  PROVE  /\ Cardinality(A) \in Nat /\ Cardinality(A) <= WarpSize
         /\ \A l \in A : Turn(A, l) \in Nat /\ Turn(A, l) < Cardinality(A)
         /\ \A l, m \in A : Turn(A, l) = Turn(A, m) => l = m
<1>1. IsFiniteSet(Lanes) /\ Cardinality(Lanes) = WarpSize
  BY Interval DEF Lanes
<1>2. IsFiniteSet(A) /\ Cardinality(A) \in Nat /\ Cardinality(A) <= WarpSize
  BY <1>1, FS_Subset, FS_CardinalityType
<1>3. \A l \in Lanes : l \in Int
  BY DEF Lanes
<1>4. ASSUME NEW l \in A
      PROVE  Turn(A, l) \in Nat /\ Turn(A, l) < Cardinality(A)
  <2> DEFINE B == {x \in A : x < l}
  <2>1. B \in SUBSET A /\ l \notin B
    BY <1>3
  <2> HIDE DEF B
  <2>2. Cardinality(B) \in Nat /\ Cardinality(B) < Cardinality(A)
    BY <1>2, <2>1, Smaller1
  <2> QED
    BY <2>2 DEF Turn, B
<1>5. ASSUME NEW l \in A, NEW m \in A, l < m
      PROVE  Turn(A, l) < Turn(A, m)
  <2> DEFINE B == {x \in A : x < l}
             C == {x \in A : x < m}
  <2>1. B \in SUBSET C /\ l \notin B /\ l \in C
    BY <1>3, <1>5
  <2>2. IsFiniteSet(C)
    BY <1>2, FS_Subset
  <2> HIDE DEF B, C
  <2>3. Cardinality(B) < Cardinality(C)
    BY <2>1, <2>2, Smaller1
  <2> QED
    BY <2>3 DEF Turn, B, C
<1>6. ASSUME NEW l \in A, NEW m \in A, Turn(A, l) = Turn(A, m)
      PROVE  l = m
  <2>1. l \in Int /\ m \in Int /\ Turn(A, l) \in Nat /\ Turn(A, m) \in Nat
    BY <1>3, <1>4
  <2>2. ~(l < m) /\ ~(m < l)
    BY <1>5, <1>6, <2>1
  <2> QED
    BY <2>1, <2>2
<1> QED
  BY <1>2, <1>4, <1>6

LEMMA DistributedStep ==
  ASSUME Shape, TmpPairs, WarpsOK, NEW w \in Warps, variant \notin {"immediate", "filtered"},
         AddDistributed(w)
  PROVE  \E b : Added1(w, b)
<1> DEFINE A == Added(w)
           place(l) == fill[w] + Turn(A, l)
           At(p) == {Read(base[w] + l) : l \in {x \in A : place(x) = p}}
           b == [buf EXCEPT ![w] = [p \in Lanes |-> buf[w][p] \cup At(p)]]
           sum == fill[w] + Cardinality(A)
           full == sum >= WarpSize
<1>1. DOMAIN buf = Warps /\ DOMAIN fill = Warps /\ base[w] \in Nat /\ BufOK(buf[w], fill[w])
  BY DEF WarpsOK
<1>2. /\ IF full THEN queue' = Merged(w, b) ELSE queue' = queue
      /\ buf' = IF full THEN [buf EXCEPT ![w] = [p \in Lanes |-> At(p + WarpSize)]] ELSE b
      /\ fill' = [fill EXCEPT ![w] = sum % WarpSize]
  BY <1>1 DEF AddDistributed, MergeIn, Turn
<1>3. /\ WarpSize \in Nat \ {0}
      /\ fill[w] \in Nat /\ fill[w] < WarpSize
      /\ \A l \in Lanes : /\ buf[w][l] \in SUBSET Items /\ Cardinality(buf[w][l]) <= 1
                          /\ l >= fill[w] => buf[w][l] = {}
  BY <1>1, ShapeFacts DEF BufOK
<1>4. /\ Cardinality(A) \in Nat /\ Cardinality(A) <= WarpSize
      /\ \A l \in A : Turn(A, l) \in Nat /\ Turn(A, l) < Cardinality(A)
      /\ \A l, m \in A : Turn(A, l) = Turn(A, m) => l = m
  BY <1>3, TurnFacts, GivenItems
<1>5. /\ DOMAIN b = Warps /\ DOMAIN b[w] = Lanes
      /\ \A v \in Warps \ {w} : b[v] = buf[v]
      /\ \A l \in Lanes : b[w][l] = buf[w][l] \cup At(l)
  BY <1>1
<1>6. \A l \in A : place(l) \in Nat /\ fill[w] <= place(l) /\ place(l) < sum
  BY <1>3, <1>4
<1>7. \A l, m \in A : place(l) = place(m) => l = m
  BY <1>3, <1>4
<1>8. \A l \in A : Read(base[w] + l) \in Items
  BY GivenItems
<1>9. sum \in Nat /\ sum < 2 * WarpSize /\ sum % WarpSize = IF full THEN sum - WarpSize ELSE sum
  <2>1. sum \in Nat /\ sum < 2 * WarpSize
    BY <1>3, <1>4
  <2> HIDE DEF sum
  <2>2. CASE full
    <3>1. 1 * WarpSize <= sum /\ sum < 1 * WarpSize + WarpSize /\ 1 * WarpSize = WarpSize
      BY <1>3, <2>1, <2>2
    <3>2. sum % WarpSize = sum - 1 * WarpSize
      BY <1>3, <2>1, <3>1, Quotient
    <3> QED
      BY <1>3, <2>1, <2>2, <3>1, <3>2
  <2>3. CASE ~full
    <3>1. 0 * WarpSize <= sum /\ sum < 0 * WarpSize + WarpSize /\ sum - 0 * WarpSize = sum
      BY <1>3, <2>1, <2>3
    <3> QED
      BY <1>3, <2>1, <2>3, <3>1, Quotient
  <2> QED
    BY <2>1, <2>2, <2>3
<1> HIDE DEF A, place, sum
<1>10. ASSUME NEW p
       PROVE  /\ At(p) \in SUBSET Items /\ Cardinality(At(p)) <= 1 /\ Cardinality(At(p)) \in Nat
              /\ p \in Int => (p < fill[w] \/ p >= sum => At(p) = {})
  <2>1. CASE \E l \in A : place(l) = p
    <3>1. PICK l \in A : place(l) = p
      BY <2>1
    <3>2. At(p) = {Read(base[w] + l)}
      BY <1>7, <3>1
    <3>3. Cardinality(At(p)) = 1
      BY <3>2, SmallSets, Zenon
    <3>4. p \in Int => ~(p < fill[w] \/ p >= sum)
      BY <1>3, <1>6, <1>9, <3>1
    <3>5. At(p) \in SUBSET Items
      BY <1>8
    <3> HIDE DEF At
    <3> QED
      BY <3>3, <3>4, <3>5
  <2>2. CASE ~\E l \in A : place(l) = p
    <3>1. At(p) = {}
      BY <2>2
    <3> HIDE DEF At
    <3>2. Cardinality(At(p)) = 0
      BY <3>1, SmallSets, Zenon
    <3> QED
      BY <3>1, <3>2
  <2> QED
    BY <2>1, <2>2
<1>11. ASSUME NEW l \in A
       PROVE  Read(base[w] + l) \in At(place(l))
  OBVIOUS
<1> HIDE DEF At, b
<1>12. \A l \in Lanes : buf[w][l] \in SUBSET b[w][l] /\ b[w][l] \in SUBSET Items
  BY <1>3, <1>5, <1>10
<1>13. CASE full
  <2>1. /\ DOMAIN buf' = Warps /\ DOMAIN fill' = Warps /\ queue' = Merged(w, b)
        /\ \A v \in Warps \ {w} : buf'[v] = buf[v] /\ fill'[v] = fill[v]
        /\ DOMAIN buf'[w] = Lanes /\ \A p \in Lanes : buf'[w][p] = At(p + WarpSize)
        /\ fill'[w] = sum - WarpSize
    BY <1>1, <1>2, <1>9, <1>13
  <2>2. BufOK(buf'[w], fill'[w])
    <3>1. fill'[w] \in Nat /\ fill'[w] < WarpSize
      BY <1>3, <1>9, <1>13, <2>1
    <3>2. ASSUME NEW l \in Lanes
          PROVE  /\ buf'[w][l] \in SUBSET Items /\ Cardinality(buf'[w][l]) <= 1
                 /\ l >= fill'[w] => buf'[w][l] = {}
      <4>1. l \in Int /\ l + WarpSize \in Int /\ (l >= fill'[w] => l + WarpSize >= sum)
        BY <1>3, <1>9, <2>1 DEF Lanes
      <4>2. buf'[w][l] = At(l + WarpSize)
        BY <2>1
      <4>3. At(l + WarpSize) \in SUBSET Items /\ Cardinality(At(l + WarpSize)) <= 1
            /\ (l + WarpSize >= sum => At(l + WarpSize) = {})
        BY <1>10, <4>1
      <4> QED
        BY <4>1, <4>2, <4>3
    <3> QED
      BY <2>1, <3>1, <3>2 DEF BufOK
  <2>3. ASSUME NEW l \in A
        PROVE  \E x \in Lanes : Read(base[w] + l) \in b[w][x] \cup buf'[w][x]
    <3>1. CASE place(l) < WarpSize
      <4>1. place(l) \in Lanes
        BY <1>3, <1>6, <3>1 DEF Lanes
      <4> QED
        BY <1>5, <1>11, <4>1
    <3>2. CASE place(l) >= WarpSize
      <4>1. place(l) - WarpSize \in Lanes /\ (place(l) - WarpSize) + WarpSize = place(l)
        BY <1>3, <1>6, <1>9, <3>2 DEF Lanes
      <4>2. buf'[w][place(l) - WarpSize] = At(place(l))
        BY <2>1, <4>1
      <4> QED
        BY <1>11, <4>1, <4>2
    <3> QED
      BY <1>3, <1>6, <3>1, <3>2
  <2>4. Added1(w, b)
    BY <1>1, <1>5, <1>12, <2>1, <2>2, <2>3 DEF Added1, A
  <2> QED
    BY <2>4
<1>14. CASE ~full
  <2>1. buf' = b /\ queue' = queue /\ DOMAIN fill' = Warps /\ fill'[w] = sum
        /\ \A v \in Warps \ {w} : fill'[v] = fill[v]
    BY <1>1, <1>2, <1>9, <1>14
  <2>2. BufOK(buf'[w], fill'[w])
    <3>1. fill'[w] \in Nat /\ fill'[w] < WarpSize
      BY <1>3, <1>9, <1>14, <2>1
    <3>2. ASSUME NEW l \in Lanes
          PROVE  /\ Cardinality(b[w][l]) <= 1
                 /\ l >= fill'[w] => b[w][l] = {}
      <4>1. l \in Int /\ b[w][l] = buf[w][l] \cup At(l)
        BY <1>5 DEF Lanes
      <4>2. CASE l < fill[w]
        <5>1. At(l) = {}
          BY <1>10, <4>1, <4>2
        <5>2. b[w][l] = buf[w][l]
          BY <4>1, <5>1
        <5>3. ~(l >= fill'[w])
          BY <1>3, <1>4, <2>1, <4>1, <4>2 DEF sum
        <5>4. Cardinality(b[w][l]) = Cardinality(buf[w][l])
          BY <5>2, Zenon
        <5> QED
          BY <1>3, <5>3, <5>4
      <4>3. CASE l >= fill[w]
        <5>1. buf[w][l] = {}
          BY <1>3, <4>3
        <5>2. b[w][l] = At(l)
          BY <4>1, <5>1
        <5>3. Cardinality(b[w][l]) = Cardinality(At(l))
          BY <5>2, Zenon
        <5>4. Cardinality(At(l)) <= 1 /\ (l >= sum => At(l) = {})
          BY <1>10, <4>1
        <5> QED
          BY <2>1, <5>2, <5>3, <5>4
      <4> QED
        BY <1>3, <4>1, <4>2, <4>3
    <3> QED
      BY <1>5, <1>12, <2>1, <3>1, <3>2 DEF BufOK
  <2>3. ASSUME NEW l \in A
        PROVE  \E x \in Lanes : Read(base[w] + l) \in b[w][x] \cup buf'[w][x]
    <3>1. place(l) \in Lanes
      BY <1>3, <1>6, <1>9, <1>14 DEF Lanes
    <3> QED
      BY <1>5, <1>11, <3>1
  <2>4. Added1(w, b)
    BY <1>1, <1>5, <1>12, <2>1, <2>2, <2>3 DEF Added1, A
  <2> QED
    BY <2>4
<1> QED
  BY <1>13, <1>14

-----------------------------------------------------------------------------
(* The queues, and what is stored for others.                                *)
QueuesOK ==
  /\ DOMAIN queue = Subwarps /\ DOMAIN smem = Pieces
  /\ \A s \in Subwarps : queue[s] \in SUBSET Items /\ Cardinality(queue[s]) <= Capacity
  /\ \A p \in Pieces : smem[p] \in SUBSET Items /\ Cardinality(smem[p]) <= Trimmed

(* A warp whose subwarps do not add any more has seen all, and holds nothing *)
(* in its buffers. The buffers of distributed_ext are in the memory that is  *)
(* stored to: nobody is past the barrier while others add.                   *)
PhasesOK ==
  /\ \A s \in Subwarps :
       /\ sub[s].pc \in {"add", "sync", "store", "load", "end"}
       /\ sub[s].pc \in {"add", "sync"} => sub[s].nwarps = nwarps
  /\ \A w \in Warps : \/ \A s \in SubwarpsOf(w) : sub[s].pc = "add"
                      \/ base[w] >= Size /\ \A l \in Lanes : buf[w][l] = {}
  /\ variant = "distributed_ext" =>
       \A s, t \in Subwarps : sub[s].pc \in {"store", "load", "end"} => sub[t].pc # "add"

LaunchInv == TreeInv /\ WarpsOK /\ QueuesOK /\ PhasesOK

(* What a subwarp speaks for others with.                                    *)
Held(q, b, s) == q[s] \cup Buffered(b, s)
Speaks(S, e) == Covered(select_min, Trimmed, S, e)

LEMMA BufferedFacts ==
  ASSUME Shape, NEW b, NEW s \in Subwarps
  PROVE  /\ s \div PerWarp \in Warps
         /\ \A x : x \in Buffered(b, s)
              <=> \E l \in Lanes : Lane(l, s \div PerWarp) = s /\ x \in b[s \div PerWarp][l]
BY LaneFacts DEF Buffered

LEMMA BufferedItems ==
  ASSUME Shape, NEW b, \A v \in Warps : \A l \in Lanes : b[v][l] \in SUBSET Items, NEW s \in Subwarps
  PROVE  Buffered(b, s) \in SUBSET Items
BY BufferedFacts

LEMMA ItemSets ==
  ASSUME Shape, TmpPairs, NEW S \in SUBSET Items
  PROVE  /\ IsFiniteSet(S) /\ S \in SUBSET Pairs /\ Cardinality(S) \in Nat
         /\ select_min \in BOOLEAN /\ Trimmed \in Nat /\ Capacity \in Nat /\ Trimmed <= Capacity
         /\ \A m \in Nat : /\ Best(S, m) = Foremost(select_min, S, m)
                           /\ Best(S, m) \in SUBSET S /\ Cardinality(Best(S, m)) <= m
<1>1. IsFiniteSet(S) /\ S \in SUBSET Pairs
  BY ItemsFacts, FS_Subset
<1>2. Cardinality(S) \in Nat
  BY <1>1, FS_CardinalityType
<1>3. select_min \in BOOLEAN
  BY DEF Shape
<1>4. Trimmed \in Nat /\ Capacity \in Nat /\ Trimmed <= Capacity
  <2>1. Trimmed \in Nat /\ Capacity \in Nat /\ Trimmed <= k /\ k <= Capacity
    BY ShapeFacts
  <2>2. k \in Nat
    BY DEF Shape
  <2> QED
    BY <2>1, <2>2
<1>5. ASSUME NEW m \in Nat
      PROVE  /\ Best(S, m) = Foremost(select_min, S, m)
             /\ Best(S, m) \in SUBSET S /\ Cardinality(Best(S, m)) <= m
  <2>1. Best(S, m) = Foremost(select_min, S, m)
    BY <1>1, <1>3, BestIs
  <2> QED
    BY <1>1, <1>3, <2>1, ForemostFacts
<1> QED
  BY <1>1, <1>2, <1>3, <1>4, <1>5

(* Merging loses nothing that matters.                                       *)
LEMMA SpeaksFor ==
  ASSUME Shape, TmpPairs, NEW H \in SUBSET Items, NEW R \in SUBSET Items,
         H \in SUBSET R \/ (\E m \in Nat : Trimmed <= m /\ Best(H, m) \in SUBSET R),
         NEW e \in Pairs, Speaks(H, e)
  PROVE  Speaks(R, e)
<1>1. /\ IsFiniteSet(H) /\ H \in SUBSET Pairs /\ IsFiniteSet(R) /\ R \in SUBSET Pairs
      /\ select_min \in BOOLEAN /\ Trimmed \in Nat
  BY ItemSets
<1>2. CASE H \in SUBSET R
  BY <1>1, <1>2, CoverMore DEF Speaks
<1>3. ASSUME NEW m \in Nat, Trimmed <= m, Best(H, m) \in SUBSET R PROVE Speaks(R, e)
  <2> DEFINE B == Best(H, m)
  <2>1. B = Foremost(select_min, H, m) /\ B \in SUBSET H
    BY ItemSets
  <2>2. Covered(select_min, Trimmed, Foremost(select_min, H, m), e)
    BY <1>1, <1>3, CoverFirst DEF Speaks
  <2> HIDE DEF B
  <2>3. B \in SUBSET R
    BY <1>3 DEF B
  <2> QED
    BY <1>1, <2>1, <2>2, <2>3, CoverMore DEF Speaks
<1> QED
  BY <1>2, <1>3

LEMMA MergedQueues ==
  ASSUME Shape, TmpPairs, QueuesOK, NEW w \in Warps, NEW b, queue' = Merged(w, b),
         \A v \in Warps : \A l \in Lanes : b[v][l] \in SUBSET Items
  PROVE  /\ DOMAIN queue' = Subwarps
         /\ \A s \in Subwarps : queue'[s] \in SUBSET Items /\ Cardinality(queue'[s]) <= Capacity
         /\ \A s \in Subwarps : s \div PerWarp # w => queue'[s] = queue[s]
         /\ \A s \in Subwarps : s \div PerWarp = w => queue'[s] = Best(Held(queue, b, s), Capacity)
<1>1. DOMAIN queue' = Subwarps
  BY DEF Merged
<1>2. ASSUME NEW s \in Subwarps, s \div PerWarp = w
      PROVE  queue'[s] = Best(Held(queue, b, s), Capacity)
  BY <1>2 DEF Merged, Held
<1>3. ASSUME NEW s \in Subwarps, s \div PerWarp # w
      PROVE  queue'[s] = queue[s]
  BY <1>3 DEF Merged
<1>4. ASSUME NEW s \in Subwarps
      PROVE  queue'[s] \in SUBSET Items /\ Cardinality(queue'[s]) <= Capacity
  <2>1. queue[s] \in SUBSET Items /\ Cardinality(queue[s]) <= Capacity
    BY DEF QueuesOK
  <2>2. CASE s \div PerWarp = w
    <3>1. Held(queue, b, s) \in SUBSET Items
      BY <2>1, BufferedItems DEF Held
    <3>2. Best(Held(queue, b, s), Capacity) \in SUBSET Held(queue, b, s)
          /\ Cardinality(Best(Held(queue, b, s), Capacity)) <= Capacity
      BY <3>1, ItemSets
    <3> DEFINE B == Best(Held(queue, b, s), Capacity)
    <3>3. queue'[s] = B
      BY <1>2, <2>2
    <3>4. B \in SUBSET Items /\ Cardinality(B) <= Capacity
      BY <3>1, <3>2
    <3> HIDE DEF B
    <3> QED
      BY <3>3, <3>4
  <2>3. CASE s \div PerWarp # w
    <3>1. queue'[s] = queue[s]
      BY <1>3, <2>3
    <3> QED
      BY <2>1, <3>1
  <2> QED
    BY <2>2, <2>3
<1> QED
  BY <1>1, <1>2, <1>3, <1>4

(* Adding: the buffers and queues keep their sizes, and speak for what they  *)
(* had and what was read.                                                    *)
LEMMA AddedKeeps ==
  ASSUME Shape, TmpPairs, WarpsOK, QueuesOK, NEW w \in Warps, NEW b, Added1(w, b)
  PROVE  /\ \A v \in Warps : \A l \in Lanes : b[v][l] \in SUBSET Items /\ buf'[v][l] \in SUBSET Items
         /\ \A v \in Warps : BufOK(buf'[v], fill'[v])
         /\ DOMAIN queue' = Subwarps
         /\ \A s \in Subwarps : queue'[s] \in SUBSET Items /\ Cardinality(queue'[s]) <= Capacity
<1>1. \A v \in Warps : BufOK(buf[v], fill[v])
  BY DEF WarpsOK
<1>2. \A v \in Warps : BufOK(buf'[v], fill'[v])
  BY <1>1 DEF Added1
<1>3. \A v \in Warps : \A l \in Lanes : b[v][l] \in SUBSET Items
  BY <1>1 DEF Added1, BufOK
<1>4. \A v \in Warps : \A l \in Lanes : buf'[v][l] \in SUBSET Items
  BY <1>2 DEF BufOK
<1>5. queue' = queue \/ queue' = Merged(w, b)
  BY DEF Added1
<1>6. /\ DOMAIN queue' = Subwarps
      /\ \A s \in Subwarps : queue'[s] \in SUBSET Items /\ Cardinality(queue'[s]) <= Capacity
  <2>1. CASE queue' = queue
    BY <2>1 DEF QueuesOK
  <2>2. CASE queue' = Merged(w, b)
    BY <1>3, <2>2, MergedQueues
  <2> QED
    BY <1>5, <2>1, <2>2
<1> QED
  BY <1>2, <1>3, <1>4, <1>6

LEMMA AddedSpeaks ==
  ASSUME Shape, TmpPairs, WarpsOK, QueuesOK, NEW w \in Warps, NEW b, Added1(w, b)
  PROVE  /\ \A s \in Subwarps : \A e \in Pairs :
              Speaks(Held(queue, buf, s), e) => Speaks(Held(queue', buf', s), e)
         /\ \A l \in Added(w) : \E s \in Subwarps : Speaks(Held(queue', buf', s), Read(base[w] + l))
<1>1. /\ \A v \in Warps : \A l \in Lanes : b[v][l] \in SUBSET Items /\ buf'[v][l] \in SUBSET Items
      /\ \A s \in Subwarps : queue'[s] \in SUBSET Items
      /\ \A s \in Subwarps : queue[s] \in SUBSET Items
      /\ \A v \in Warps : \A l \in Lanes : buf[v][l] \in SUBSET Items
  <2>1. \A v \in Warps : BufOK(buf[v], fill[v])
    BY DEF WarpsOK
  <2> QED
    BY <2>1, AddedKeeps DEF QueuesOK, BufOK
<1>2. ASSUME NEW s \in Subwarps
      PROVE  Held(queue, buf, s) \in SUBSET Items /\ Held(queue, b, s) \in SUBSET Items
             /\ Held(queue', buf', s) \in SUBSET Items
  BY <1>1, BufferedItems DEF Held
<1>3. \A v \in Warps, l \in Lanes : buf[v][l] \in SUBSET b[v][l]
  BY DEF Added1
<1>4. ASSUME NEW s \in Subwarps
      PROVE  Held(queue, buf, s) \in SUBSET Held(queue, b, s)
  BY <1>3, BufferedFacts DEF Held
<1>5. ASSUME NEW s \in Subwarps, NEW e \in Pairs, Speaks(Held(queue, b, s), e)
      PROVE  Speaks(Held(queue', buf', s), e)
  <2>1. CASE queue' = queue /\ buf' = b
    BY <1>5, <2>1
  <2>2. CASE queue' = Merged(w, b) /\ s \div PerWarp = w
    <3>1. queue'[s] = Best(Held(queue, b, s), Capacity)
      BY <1>1, <2>2, MergedQueues
    <3>2. Best(Held(queue, b, s), Capacity) \in SUBSET Held(queue', buf', s)
      BY <3>1 DEF Held
    <3>3. Capacity \in Nat /\ Trimmed <= Capacity
      BY <1>2, ItemSets
    <3> QED
      BY <1>2, <1>5, <3>2, <3>3, SpeaksFor
  <2>3. CASE queue' = Merged(w, b) /\ s \div PerWarp # w
    <3>1. queue'[s] = queue[s]
      BY <1>1, <2>3, MergedQueues
    <3>2. s \div PerWarp \in Warps \ {w}
      BY <2>3, BufferedFacts
    <3>3. buf'[s \div PerWarp] = b[s \div PerWarp]
      BY <3>2 DEF Added1
    <3>4. Held(queue', buf', s) = Held(queue, b, s)
      BY <3>1, <3>3 DEF Held, Buffered
    <3> QED
      BY <1>5, <3>4
  <2> QED
    BY <2>1, <2>2, <2>3 DEF Added1
<1>6. ASSUME NEW s \in Subwarps, NEW e \in Pairs, Speaks(Held(queue, buf, s), e)
      PROVE  Speaks(Held(queue', buf', s), e)
  <2>1. Speaks(Held(queue, b, s), e)
    BY <1>2, <1>4, <1>6, SpeaksFor
  <2> QED
    BY <1>5, <2>1
<1>7. ASSUME NEW l \in Added(w)
      PROVE  \E s \in Subwarps : Speaks(Held(queue', buf', s), Read(base[w] + l))
  <2> DEFINE e == Read(base[w] + l)
  <2>1. e \in Items /\ e \in Pairs
    BY GivenItems, ItemsFacts
  <2>2. PICK x \in Lanes : e \in b[w][x] \cup buf'[w][x]
    BY DEF Added1
  <2> DEFINE s == Lane(x, w)
  <2>3. s \in Subwarps /\ s \div PerWarp = w
    BY LaneFacts
  <2> HIDE DEF e, s
  <2>4. CASE e \in b[w][x]
    <3>1. e \in Held(queue, b, s)
      BY <2>3, <2>4, BufferedFacts DEF Held, s
    <3>2. Speaks(Held(queue, b, s), e)
      BY <3>1 DEF Speaks, Covered
    <3> QED
      BY <1>5, <2>1, <2>3, <3>2 DEF e
  <2>5. CASE e \in buf'[w][x]
    <3>1. e \in Held(queue', buf', s)
      BY <2>3, <2>5, BufferedFacts DEF Held, s
    <3>2. Speaks(Held(queue', buf', s), e)
      BY <3>1 DEF Speaks, Covered
    <3> QED
      BY <2>3, <3>2 DEF e
  <2> QED
    BY <2>2, <2>4, <2>5
<1> QED
  BY <1>6, <1>7

-----------------------------------------------------------------------------
(* The steps of a launch.                                                    *)
LEMMA AddDoes ==
  ASSUME Shape, TmpPairs, LaunchInv, NEW w \in Warps, Add(w)
  PROVE  /\ SameLaunch /\ tmp' = tmp /\ sub' = sub /\ smem' = smem /\ where' = where /\ out' = out
         /\ base' = [base EXCEPT ![w] = @ + Stride]
         /\ \E b : Added1(w, b)
<1>1. /\ UNCHANGED <<input, shape, out, where, tmp, merging, blk, smem, sub>>
      /\ base' = [base EXCEPT ![w] = @ + Stride]
  BY DEF Add, Step
<1>1a. /\ variant = "immediate" => AddImmediate(w)
       /\ variant = "filtered" => AddFiltered(w)
       /\ variant \notin {"immediate", "filtered"} => AddDistributed(w)
  BY Zenon DEF Add
<1>2. WarpsOK
  BY DEF LaunchInv
<1>3. CASE variant = "immediate"
  BY <1>1, <1>1a, <1>2, <1>3, ImmediateStep DEF SameLaunch, rigid, input, shape
<1>4. CASE variant = "filtered"
  BY <1>1, <1>1a, <1>2, <1>4, FilteredStep DEF SameLaunch, rigid, input, shape
<1>5. CASE variant \notin {"immediate", "filtered"}
  BY <1>1, <1>1a, <1>2, <1>5, DistributedStep DEF SameLaunch, rigid, input, shape
<1> QED
  BY <1>3, <1>4, <1>5

LEMMA FirstNat ==
  ASSUME Shape, blk \in Nat, NEW w \in Warps
  PROVE  First(w) \in Nat
<1>1. Blockdim \in Nat /\ WarpSize \in Nat /\ w \in Nat
  BY ShapeFacts
<1>2. blk * Blockdim \in Nat /\ w * WarpSize \in Nat
  BY <1>1
<1> QED
  BY <1>2 DEF First

LEMMA AddLaunch ==
  ASSUME Shape, blk \in Nat, TmpPairs, LaunchInv, NEW w \in Warps, Add(w)
  PROVE  LaunchInv'
<1>1. PICK b : Added1(w, b)
  BY AddDoes
<1>2. SameLaunch /\ sub' = sub /\ smem' = smem /\ base' = [base EXCEPT ![w] = @ + Stride]
  BY AddDoes
<1>3. TreeInv /\ WarpsOK /\ QueuesOK /\ PhasesOK
  BY DEF LaunchInv
<1>4. nwarps \in Nat /\ Stride \in Nat
  BY ShapeFacts
<1>5. TreeInv'
  BY <1>3, <1>4, AddInv
<1>6. /\ Warps' = Warps /\ Subwarps' = Subwarps /\ Pieces' = Pieces /\ Items' = Items
      /\ Capacity' = Capacity /\ Trimmed' = Trimmed /\ variant' = variant /\ MaxArrLen' = MaxArrLen
      /\ Stride' = Stride /\ Size' = Size /\ nwarps' = nwarps
      /\ \A v : First(v)' = First(v) /\ SubwarpsOf(v)' = SubwarpsOf(v)
  BY <1>2, Rigid
<1>7. WarpsOK'
  <2>1. \A v \in Warps : BufOK(buf'[v], fill'[v])
    BY <1>1, <1>3, AddedKeeps
  <2>2. (\A v \in Warps : BufOK(buf[v], fill[v]))'
    BY <1>6, <2>1 DEF BufOK
  <2>3. DOMAIN base = Warps /\ base'[w] = base[w] + Stride /\ \A v \in Warps \ {w} : base'[v] = base[v]
    BY <1>2, <1>3 DEF WarpsOK
  <2>4. base'[w] \in Nat /\ \E t \in Nat : base'[w] = First(w) + t * Stride
    <3>1. PICK t \in Nat : base[w] = First(w) + t * Stride
      BY <1>3 DEF WarpsOK
    <3>2. First(w) \in Nat
      BY FirstNat
    <3>3. (t + 1) * Stride = t * Stride + Stride /\ t * Stride \in Nat
      BY <1>4
    <3>4. base'[w] = First(w) + (t + 1) * Stride /\ base'[w] \in Nat
      BY <1>4, <2>3, <3>1, <3>2, <3>3
    <3> QED
      BY <3>4
  <2>5. DOMAIN base' = Warps' /\ DOMAIN buf' = Warps' /\ DOMAIN fill' = Warps'
    BY <1>1, <1>2, <1>3, <1>6 DEF WarpsOK, Added1
  <2>6. \A v \in Warps : base'[v] \in Nat /\ \E t \in Nat : base'[v] = First(v) + t * Stride
    <3>1. \A v \in Warps : base[v] \in Nat /\ \E t \in Nat : base[v] = First(v) + t * Stride
      BY <1>3 DEF WarpsOK
    <3> QED
      BY <2>3, <2>4, <3>1, Zenon
  <2>7. \A v \in Warps : \E t \in Nat : base'[v] = First(v)' + t * Stride'
    BY <1>6, <2>6
  <2> QED
    BY <1>6, <2>2, <2>5, <2>6, <2>7 DEF WarpsOK
<1>8. QueuesOK'
  <2>1. /\ DOMAIN queue' = Subwarps
        /\ \A s \in Subwarps : queue'[s] \in SUBSET Items /\ Cardinality(queue'[s]) <= Capacity
    BY <1>1, <1>3, AddedKeeps
  <2> QED
    BY <1>2, <1>3, <1>6, <2>1 DEF QueuesOK
<1>9. PhasesOK'
  <2>1. \A s \in SubwarpsOf(w) : sub[s].pc = "add"
    BY DEF Add, Adding
  <2>2. \A v \in Warps \ {w} : base'[v] = base[v] /\ buf'[v] = buf[v]
    BY <1>1, <1>2, <1>3 DEF WarpsOK, Added1
  <2> QED
    BY <1>2, <1>3, <1>6, <2>1, <2>2 DEF PhasesOK
<1> QED
  BY <1>5, <1>7, <1>8, <1>9 DEF LaunchInv

LEMMA DoneSub ==
  ASSUME TreeInv, NEW w, Done(w)
  PROVE  /\ \A s \in SubwarpsOf(w) : /\ s \in Subwarps /\ sub[s].pc = "add"
                                     /\ sub'[s].pc = AfterDone /\ sub'[s].nwarps = sub[s].nwarps
         /\ \A s \in Subwarps \ SubwarpsOf(w) : sub'[s] = sub[s]
<1> DEFINE now(s) == [sub[s] EXCEPT !.pc = AfterDone, !.arrived = IF AfterDone = "sync" THEN 1 ELSE 0]
<1>1. sub' = [s \in Subwarps |-> IF s \in SubwarpsOf(w) THEN now(s) ELSE sub[s]]
  BY DEF Done
<1>2. ASSUME NEW s \in SubwarpsOf(w)
      PROVE  /\ s \in Subwarps /\ sub[s].pc = "add"
             /\ sub'[s].pc = AfterDone /\ sub'[s].nwarps = sub[s].nwarps
  <2>1. s \in Subwarps /\ sub[s].pc = "add"
    BY DEF Done, Adding, SubwarpsOf
  <2>2. {"pc", "arrived", "nwarps", "shift"} \subseteq DOMAIN sub[s]
    BY <2>1 DEF TreeInv, Domains, SubOK
  <2>3. sub'[s] = now(s)
    BY <1>1, <2>1
  <2> QED
    BY <2>1, <2>2, <2>3
<1>3. \A s \in Subwarps \ SubwarpsOf(w) : sub'[s] = sub[s]
  BY <1>1
<1> QED
  BY <1>2, <1>3

LEMMA EmptyBuf ==
  ASSUME Shape, NEW B, B = [l \in Lanes |-> {}]
  PROVE  BufOK(B, 0)
<1>1. MaxArrLen \in Nat \ {0} /\ WarpSize \in Nat \ {0} /\ MaxBufLen \in Nat
  BY ShapeFacts
<1>2. DOMAIN B = Lanes /\ \A l \in Lanes : B[l] = {} /\ Cardinality(B[l]) = 0
  BY SmallSets
<1> QED
  BY <1>1, <1>2 DEF BufOK

LEMMA DoneLaunch ==
  ASSUME Shape, TmpPairs, LaunchInv, NEW w \in Warps, Done(w)
  PROVE  /\ LaunchInv' /\ SameLaunch /\ base' = base /\ tmp' = tmp /\ out' = out /\ where' = where
         /\ \A s \in Subwarps, e \in Pairs :
              Speaks(Held(queue, buf, s), e) => Speaks(Held(queue', buf', s), e)
<1>1. /\ UNCHANGED <<input, shape, out, where, tmp, merging, blk, base, smem>>
      /\ queue' = Merged(w, buf)
      /\ buf' = [buf EXCEPT ![w] = [l \in Lanes |-> {}]]
      /\ fill' = [fill EXCEPT ![w] = 0]
      /\ base[w] >= Size
  BY DEF Done, MergeIn
<1>2. SameLaunch
  BY <1>1 DEF SameLaunch, rigid, input, shape
<1>3. TreeInv /\ WarpsOK /\ QueuesOK /\ PhasesOK
  BY DEF LaunchInv
<1>4. TreeInv'
  <2>1. nwarps \in Nat
    BY ShapeFacts
  <2> QED
    BY <1>3, <2>1, DoneInv
<1>5. /\ Warps' = Warps /\ Subwarps' = Subwarps /\ Pieces' = Pieces /\ Items' = Items
      /\ Capacity' = Capacity /\ Trimmed' = Trimmed /\ variant' = variant /\ MaxArrLen' = MaxArrLen
      /\ Stride' = Stride /\ Size' = Size /\ nwarps' = nwarps
      /\ \A v : First(v)' = First(v) /\ SubwarpsOf(v)' = SubwarpsOf(v)
  BY <1>2, Rigid
<1>6. /\ DOMAIN buf' = Warps /\ DOMAIN fill' = Warps
      /\ buf'[w] = [l \in Lanes |-> {}] /\ fill'[w] = 0
      /\ \A v \in Warps \ {w} : buf'[v] = buf[v] /\ fill'[v] = fill[v]
  BY <1>1, <1>3 DEF WarpsOK
<1>7. /\ \A v \in Warps : \A l \in Lanes : buf[v][l] \in SUBSET Items
      /\ \A s \in Subwarps : queue[s] \in SUBSET Items
  BY <1>3 DEF WarpsOK, BufOK, QueuesOK
<1>8. \A v \in Warps : BufOK(buf'[v], fill'[v])
  BY <1>3, <1>6, EmptyBuf DEF WarpsOK
<1>9. WarpsOK'
  <2>1. (\A v \in Warps : BufOK(buf[v], fill[v]))'
    BY <1>5, <1>8 DEF BufOK
  <2>2. (\A v \in Warps : base[v] \in Nat /\ \E t \in Nat : base[v] = First(v) + t * Stride)'
    BY <1>1, <1>3, <1>5 DEF WarpsOK
  <2>3. (DOMAIN base = Warps /\ DOMAIN buf = Warps /\ DOMAIN fill = Warps)'
    BY <1>1, <1>3, <1>5, <1>6 DEF WarpsOK
  <2> QED
    BY <2>1, <2>2, <2>3 DEF WarpsOK
<1>10. /\ DOMAIN queue' = Subwarps
       /\ \A s \in Subwarps : queue'[s] \in SUBSET Items /\ Cardinality(queue'[s]) <= Capacity
       /\ \A s \in Subwarps : s \div PerWarp # w => queue'[s] = queue[s]
       /\ \A s \in Subwarps : s \div PerWarp = w => queue'[s] = Best(Held(queue, buf, s), Capacity)
  BY <1>1, <1>3, <1>7, MergedQueues
<1>11. QueuesOK'
  BY <1>1, <1>3, <1>5, <1>10 DEF QueuesOK
<1>12. PhasesOK'
  <2>1. /\ \A s \in SubwarpsOf(w) : /\ s \in Subwarps /\ sub[s].pc = "add"
                                    /\ sub'[s].pc = AfterDone /\ sub'[s].nwarps = sub[s].nwarps
        /\ \A s \in Subwarps \ SubwarpsOf(w) : sub'[s] = sub[s]
    BY <1>3, DoneSub
  <2>2. AfterDone = IF variant = "distributed_ext" THEN "sync" ELSE "store"
    BY DEF AfterDone
  <2>3. (\A s \in Subwarps : /\ sub[s].pc \in {"add", "sync", "store", "load", "end"}
                             /\ sub[s].pc \in {"add", "sync"} => sub[s].nwarps = nwarps)'
    BY <1>3, <1>5, <2>1, <2>2 DEF PhasesOK
  <2>4. (variant = "distributed_ext" =>
         \A s, t \in Subwarps : sub[s].pc \in {"store", "load", "end"} => sub[t].pc # "add")'
    BY <1>3, <1>5, <2>1, <2>2 DEF PhasesOK
  <2>5. ASSUME NEW v \in Warps
        PROVE  \/ \A s \in SubwarpsOf(v) : sub'[s].pc = "add"
               \/ base[v] >= Size /\ \A l \in Lanes : buf'[v][l] = {}
    <3>1. CASE v = w
      BY <1>1, <1>6, <3>1
    <3>2. CASE v # w
      <4>1. \A s \in SubwarpsOf(v) : s \in Subwarps \ SubwarpsOf(w)
        BY <3>2 DEF SubwarpsOf
      <4> QED
        BY <1>3, <1>6, <2>1, <3>2, <4>1 DEF PhasesOK
    <3> QED
      BY <3>1, <3>2
  <2> QED
    BY <1>1, <1>5, <2>3, <2>4, <2>5 DEF PhasesOK
<1>13. ASSUME NEW s \in Subwarps, NEW e \in Pairs, Speaks(Held(queue, buf, s), e)
       PROVE  Speaks(Held(queue', buf', s), e)
  <2>1. \A v \in Warps : \A l \in Lanes : buf'[v][l] \in SUBSET Items
    BY <1>8 DEF BufOK
  <2>2. Held(queue, buf, s) \in SUBSET Items /\ Held(queue', buf', s) \in SUBSET Items
    BY <1>7, <1>10, <2>1, BufferedItems DEF Held
  <2>3. CASE s \div PerWarp = w
    <3>1. Best(Held(queue, buf, s), Capacity) \in SUBSET Held(queue', buf', s)
      BY <1>10, <2>3 DEF Held
    <3>2. Capacity \in Nat /\ Trimmed <= Capacity
      BY <2>2, ItemSets
    <3> QED
      BY <1>13, <2>2, <3>1, <3>2, SpeaksFor
  <2>4. CASE s \div PerWarp # w
    <3>1. queue'[s] = queue[s] /\ s \div PerWarp \in Warps \ {w}
      BY <1>10, <2>4, BufferedFacts
    <3>2. Held(queue', buf', s) = Held(queue, buf, s)
      BY <1>6, <3>1 DEF Held, Buffered
    <3> QED
      BY <1>13, <3>2
  <2> QED
    BY <2>3, <2>4
<1> QED
  BY <1>1, <1>2, <1>4, <1>9, <1>11, <1>12, <1>13 DEF LaunchInv

(* What is the same for another row and another launch of this shape.        *)
LEMMA SameShape ==
  ASSUME Shape, UNCHANGED <<input, shape>>
  PROVE  /\ Shape' /\ Capacity' = Capacity /\ WarpWidth' = WarpWidth /\ PerWarp' = PerWarp
         /\ MaxArrLen' = MaxArrLen /\ Warps' = Warps /\ Subwarps' = Subwarps /\ Pieces' = Pieces
         /\ Blockdim' = Blockdim /\ n' = n /\ nwarps' = nwarps /\ variant' = variant
         /\ \A w : SubwarpsOf(w)' = SubwarpsOf(w)
         /\ Stride' \in Nat /\ Size' \in Nat /\ Trimmed' \in Nat
         /\ UNCHANGED <<row, csr, k, select_min, len_i, variant, num_of_block, nwarps>>
<1>1. UNCHANGED <<row, csr, k, select_min, len_i, variant, num_of_block, nwarps>>
  BY DEF input, shape
<1>2. Capacity' = Capacity /\ WarpWidth' = WarpWidth /\ PerWarp' = PerWarp /\ MaxArrLen' = MaxArrLen
      /\ FullCapacity' = FullCapacity
  BY <1>1 DEF Capacity, WarpWidth, PerWarp, MaxArrLen, FullCapacity
<1>3. Warps' = Warps /\ Subwarps' = Subwarps /\ Pieces' = Pieces /\ Blockdim' = Blockdim /\ n' = n
  BY <1>1, <1>2 DEF Warps, Subwarps, Pieces, CeilDiv, Blockdim, n
<1>4. \A w : SubwarpsOf(w)' = SubwarpsOf(w)
  BY <1>2, <1>3 DEF SubwarpsOf
<1>5. Shape'
  BY <1>1, <1>2 DEF Shape
<1>6. Stride' \in Nat
  <2>1. Blockdim \in Nat /\ num_of_block \in Nat
    BY ShapeFacts DEF Shape
  <2>2. Stride' = Blockdim * (IF merging' THEN 1 ELSE num_of_block)
    BY <1>1, <1>3 DEF Stride
  <2> QED
    BY <2>1, <2>2
<1>7. Size' \in Nat /\ Trimmed' \in Nat
  <2>1. n \in Nat /\ num_of_block \in Nat /\ k \in Nat
    BY ShapeFacts DEF Shape
  <2>2. Size' = IF merging' THEN num_of_block * k ELSE n
    BY <1>1, <1>3 DEF Size
  <2>3. num_of_block * k \in Nat
    BY <2>1
  <2>4. Size' \in Nat
    BY <2>1, <2>2, <2>3
  <2> QED
    BY <1>1, <2>1, <2>4 DEF Trimmed, Smaller
<1> QED
  BY <1>1, <1>2, <1>3, <1>4, <1>5, <1>6, <1>7

LEMMA StartLaunch ==
  ASSUME Shape, NEW b \in Nat, StartOfBlock(b), blk' = b, UNCHANGED <<input, shape>>
  PROVE  LaunchInv'
<1>1. /\ Capacity' = Capacity /\ MaxArrLen' = MaxArrLen
      /\ Warps' = Warps /\ Subwarps' = Subwarps /\ Pieces' = Pieces /\ Blockdim' = Blockdim
      /\ nwarps' = nwarps /\ variant' = variant /\ \A w : SubwarpsOf(w)' = SubwarpsOf(w)
      /\ Stride' \in Nat /\ Trimmed' \in Nat
  BY SameShape
<1>2. /\ Blockdim \in Nat /\ WarpSize \in Nat /\ nwarps \in Nat \ {0} /\ Capacity \in Nat
      /\ \A w \in Warps : w \in Nat
  BY ShapeFacts
<1>3. TreeInv'
  BY <1>1, <1>2, StartInv
<1>4. /\ base' = [w \in Warps |-> b * Blockdim + w * WarpSize]
      /\ buf' = [w \in Warps |-> [l \in Lanes |-> {}]]
      /\ fill' = [w \in Warps |-> 0]
      /\ queue' = [s \in Subwarps |-> {}]
      /\ DOMAIN smem' = Pieces /\ \A p \in Pieces : smem'[p] = {}
      /\ sub' = [s \in Subwarps |-> [pc |-> "add", arrived |-> 0, nwarps |-> nwarps, shift |-> TRUE]]
  BY DEF StartOfBlock, NoBuf, Pieces
<1>5. WarpsOK'
  <2>1. (\A v \in Warps : BufOK(buf[v], fill[v]))'
    <3>1. \A v \in Warps : BufOK(buf'[v], fill'[v])
      BY <1>4, EmptyBuf
    <3>2. /\ \A v \in Warps : DOMAIN buf'[v] = Lanes /\ \A l \in Lanes : buf'[v][l] = {}
          /\ \A v \in Warps : fill'[v] = 0
      BY <1>4
    <3> QED
      BY <1>1, <3>1, <3>2 DEF BufOK
  <2>2. \A v \in Warps : base'[v] \in Nat /\ base'[v] = First(v)' + 0 * Stride'
    <3> SUFFICES ASSUME NEW v \in Warps PROVE base'[v] \in Nat /\ base'[v] = First(v)' + 0 * Stride'
      OBVIOUS
    <3>0. Blockdim \in Nat /\ WarpSize \in Nat /\ v \in Nat /\ Stride' \in Nat
      BY <1>1, <1>2
    <3>1. b * Blockdim \in Nat
      BY <3>0
    <3>3. v * WarpSize \in Nat
      BY <3>0
    <3>4. 0 * Stride' = 0
      <4>1. \A x \in Nat : 0 * x = 0
        OBVIOUS
      <4> QED
        BY <3>0, <4>1
    <3>2. First(v)' = b * Blockdim + v * WarpSize
      BY <1>1 DEF First
    <3> QED
      BY <1>4, <3>1, <3>2, <3>3, <3>4
  <2> QED
    BY <1>1, <1>4, <2>1, <2>2 DEF WarpsOK
<1>6. QueuesOK'
  <2>1. 0 <= Capacity' /\ 0 <= Trimmed'
    BY <1>1, <1>2
  <2> QED
    BY <1>1, <1>4, <2>1, SmallSets DEF QueuesOK
<1>7. PhasesOK'
  <2>1. \A s \in Subwarps : sub'[s].pc = "add" /\ sub'[s].nwarps = nwarps
    BY <1>4
  <2>2. (\A w \in Warps : \A s \in SubwarpsOf(w) : sub[s].pc = "add")'
    BY <1>1, <2>1 DEF SubwarpsOf
  <2> QED
    BY <1>1, <2>1, <2>2 DEF PhasesOK
<1> QED
  BY <1>3, <1>5, <1>6, <1>7 DEF LaunchInv

(* Past the barrier of distributed_ext no warp holds anything in its         *)
(* buffers: what is stored there then destroys nothing.                      *)
LEMMA Emptied ==
  ASSUME Shape, LaunchInv, NEW s \in Subwarps, sub[s].pc # "add"
  PROVE  \A l \in Lanes : buf[s \div PerWarp][l] = {}
BY LaneFacts DEF LaunchInv, PhasesOK, SubwarpsOf

LEMMA AllEmptied ==
  ASSUME Shape, LaunchInv, variant = "distributed_ext",
         NEW s \in Subwarps, sub[s].pc \in {"store", "load", "end"}
  PROVE  \A w \in Warps, l \in Lanes : buf[w][l] = {}
<1> SUFFICES ASSUME NEW w \in Warps, NEW l \in Lanes PROVE buf[w][l] = {}
  OBVIOUS
<1>1. Lane(l, w) \in Subwarps /\ Lane(l, w) \div PerWarp = w
  BY LaneFacts
<1>2. sub[Lane(l, w)].pc # "add"
  BY <1>1 DEF LaunchInv, PhasesOK
<1> QED
  BY <1>1, <1>2, Emptied

(* A step that leaves the warps and the queues alone.                        *)
LEMMA QuietWarps ==
  ASSUME Shape, WarpsOK, SameLaunch, base' = base, fill' = fill, DOMAIN buf' = Warps,
         \A w \in Warps : buf'[w] = buf[w] \/ buf'[w] = [l \in Lanes |-> {}]
  PROVE  WarpsOK'
<1>1. /\ Warps' = Warps /\ Items' = Items /\ variant' = variant /\ MaxArrLen' = MaxArrLen
      /\ Stride' = Stride /\ \A v : First(v)' = First(v)
  BY Rigid
<1>2. \A w \in Warps : BufOK(buf'[w], fill[w])
  <2> SUFFICES ASSUME NEW w \in Warps PROVE BufOK(buf'[w], fill[w])
    OBVIOUS
  <2>1. BufOK(buf[w], fill[w])
    BY DEF WarpsOK
  <2>2. CASE buf'[w] = buf[w]
    BY <2>1, <2>2
  <2>3. CASE buf'[w] = [l \in Lanes |-> {}]
    <3>1. DOMAIN buf'[w] = Lanes /\ \A l \in Lanes : buf'[w][l] = {} /\ Cardinality(buf'[w][l]) = 0
      BY <2>3, SmallSets
    <3>2. MaxBufLen \in Nat
      BY ShapeFacts
    <3> QED
      BY <2>1, <3>1, <3>2 DEF BufOK
  <2> QED
    BY <2>2, <2>3
<1>3. (\A w \in Warps : BufOK(buf[w], fill[w]))'
  BY <1>1, <1>2 DEF BufOK
<1> QED
  BY <1>1, <1>3 DEF WarpsOK

LEMMA SubTypes ==
  ASSUME Shape, TreeInv, NEW s \in Subwarps
  PROVE  /\ {"pc", "arrived", "nwarps", "shift"} \subseteq DOMAIN sub[s]
         /\ DOMAIN sub = Subwarps /\ nwarps \in Int /\ Domains /\ SubOK(s) /\ 0 \in Subwarps
<1>1. nwarps \in Nat \ {0}
  BY ShapeFacts
<1>2. nwarps \in Int /\ 0 \in Subwarps
  BY <1>1 DEF Subwarps
<1> QED
  BY <1>2 DEF TreeInv, Domains, SubOK

LEMMA SyncLaunch ==
  ASSUME Shape, TmpPairs, LaunchInv, NEW s \in Subwarps, Sync(s)
  PROVE  /\ LaunchInv' /\ SameLaunch /\ UNCHANGED <<base, buf, queue, tmp, out, where>>
         /\ \A t \in Subwarps : sub'[t].nwarps = sub[t].nwarps
         /\ sub'[0].pc = "end" <=> sub[0].pc = "end"
<1>1. /\ UNCHANGED <<input, shape, out, where, tmp, merging, blk, base, buf, fill, queue, smem>>
      /\ sub[s].pc = "sync" /\ sub' = [sub EXCEPT ![s].pc = "store"]
      /\ \A t \in Subwarps : sub[t].arrived >= sub[s].arrived
  BY DEF Sync, Arrived
<1>2. SameLaunch /\ UNCHANGED still
  BY <1>1 DEF SameLaunch, rigid, input, shape, still, n
<1>3. TreeInv /\ WarpsOK /\ QueuesOK /\ PhasesOK
  BY DEF LaunchInv
<1>4. /\ {"pc", "arrived", "nwarps", "shift"} \subseteq DOMAIN sub[s]
      /\ DOMAIN sub = Subwarps /\ nwarps \in Int /\ SubOK(s)
  BY <1>3, SubTypes
<1>5. TreeInv'
  BY <1>1, <1>2, <1>3, <1>4, PlaceInv
<1>6. /\ Warps' = Warps /\ Subwarps' = Subwarps /\ Pieces' = Pieces /\ Items' = Items
      /\ Capacity' = Capacity /\ Trimmed' = Trimmed /\ variant' = variant
      /\ Size' = Size /\ nwarps' = nwarps /\ \A v : SubwarpsOf(v)' = SubwarpsOf(v)
  BY <1>2, Rigid
<1>7. WarpsOK'
  BY <1>1, <1>2, <1>3, QuietWarps DEF WarpsOK
<1>8. QueuesOK'
  BY <1>1, <1>3, <1>6 DEF QueuesOK
<1>9. /\ sub'[s].pc = "store" /\ sub'[s].nwarps = sub[s].nwarps
      /\ \A t \in Subwarps \ {s} : sub'[t] = sub[t]
  BY <1>1, <1>4
<1>10. PhasesOK'
  <2>1. variant = "distributed_ext" => \A t \in Subwarps : sub[t].pc # "add"
    <3> SUFFICES ASSUME variant = "distributed_ext", NEW t \in Subwarps PROVE sub[t].pc # "add"
      OBVIOUS
    <3>1. sub[s].arrived \in Nat /\ sub[s].arrived >= 1
      BY <1>1, <1>4 DEF SubOK, Round, FirstRound
    <3>2. sub[t].pc = "add" => sub[t].arrived = 0
      BY <1>3, SubTypes DEF SubOK
    <3> QED
      BY <1>1, <3>1, <3>2
  <2>2. ASSUME NEW v \in Warps
        PROVE  \/ \A t \in SubwarpsOf(v) : sub'[t].pc = "add"
               \/ base[v] >= Size /\ \A l \in Lanes : buf[v][l] = {}
    <3>1. CASE s \in SubwarpsOf(v)
      BY <1>1, <1>3, <3>1 DEF PhasesOK
    <3>2. CASE s \notin SubwarpsOf(v)
      BY <1>3, <1>9, <3>2 DEF PhasesOK, SubwarpsOf
    <3> QED
      BY <3>1, <3>2
  <2>3. (\A t \in Subwarps : /\ sub[t].pc \in {"add", "sync", "store", "load", "end"}
                             /\ sub[t].pc \in {"add", "sync"} => sub[t].nwarps = nwarps)'
    BY <1>3, <1>6, <1>9 DEF PhasesOK
  <2>4. (variant = "distributed_ext" =>
         \A t, u \in Subwarps : sub[t].pc \in {"store", "load", "end"} => sub[u].pc # "add")'
    BY <1>6, <1>9, <2>1
  <2> QED
    BY <1>1, <1>6, <2>2, <2>3, <2>4 DEF PhasesOK
<1>11. sub'[0].pc = "end" <=> sub[0].pc = "end"
  BY <1>1, <1>4
<1> QED
  BY <1>1, <1>2, <1>5, <1>7, <1>8, <1>9, <1>10, <1>11 DEF LaunchInv

LEMMA StoreLaunch ==
  ASSUME Shape, TmpPairs, LaunchInv, NEW s \in Subwarps, Store(s)
  PROVE  /\ LaunchInv' /\ SameLaunch /\ UNCHANGED <<base, queue, tmp, out, where>>
         /\ \A t \in Subwarps : sub'[t].nwarps = sub[t].nwarps
         /\ \A t \in Subwarps : Held(queue', buf', t) = Held(queue, buf, t)
         /\ sub'[0].pc = "end" <=> sub[0].pc = "end"
<1>1. /\ UNCHANGED <<input, shape, out, where, tmp, merging, blk, base, fill, queue>>
      /\ sub[s].pc = "store" /\ sub' = [sub EXCEPT ![s].pc = "load", ![s].arrived = @ + 1]
      /\ \/ UNCHANGED <<smem, buf>>
         \/ /\ Split(s) <= s /\ s < sub[s].nwarps
            /\ smem' = [smem EXCEPT ![StorePlace(s)] = Best(queue[s], Trimmed)] /\ buf' = Destroyed
  BY DEF Store
<1>2. SameLaunch
  BY <1>1 DEF SameLaunch, rigid, input, shape
<1>3. TreeInv /\ WarpsOK /\ QueuesOK /\ PhasesOK
  BY DEF LaunchInv
<1>4. /\ {"pc", "arrived", "nwarps", "shift"} \subseteq DOMAIN sub[s]
      /\ DOMAIN sub = Subwarps /\ nwarps \in Int /\ 0 \in Subwarps
  BY <1>3, SubTypes
<1>5. TreeInv'
  BY <1>3, <1>4, StoreInv
<1>6. /\ Warps' = Warps /\ Subwarps' = Subwarps /\ Pieces' = Pieces /\ Items' = Items
      /\ Capacity' = Capacity /\ Trimmed' = Trimmed /\ variant' = variant
      /\ Size' = Size /\ nwarps' = nwarps /\ \A v : SubwarpsOf(v)' = SubwarpsOf(v)
  BY <1>2, Rigid
<1>7. /\ DOMAIN buf = Warps /\ DOMAIN buf' = Warps
      /\ \A w \in Warps : buf'[w] = buf[w] \/ (buf'[w] = [l \in Lanes |-> {}] /\ \A l \in Lanes : buf[w][l] = {})
  <2>1. DOMAIN buf = Warps
    BY <1>3 DEF WarpsOK
  <2>2. CASE buf' = buf
    BY <2>1, <2>2
  <2>3. CASE buf' = NoBuf /\ variant = "distributed_ext"
    <3>1. \A w \in Warps, l \in Lanes : buf[w][l] = {}
      BY <1>1, <2>3, AllEmptied
    <3> QED
      BY <2>1, <2>3, <3>1 DEF NoBuf
  <2> QED
    BY <1>1, <2>2, <2>3 DEF Destroyed
<1>8. WarpsOK'
  BY <1>1, <1>2, <1>3, <1>7, QuietWarps
<1>9. QueuesOK'
  <2>1. DOMAIN smem' = Pieces
    BY <1>1, <1>3 DEF QueuesOK
  <2>2. \A p \in Pieces : smem'[p] \in SUBSET Items /\ Cardinality(smem'[p]) <= Trimmed
    <3> DEFINE B == Best(queue[s], Trimmed)
    <3>1. B \in SUBSET Items /\ Cardinality(B) <= Trimmed
      <4>1. queue[s] \in SUBSET Items
        BY <1>3 DEF QueuesOK
      <4>2. Trimmed \in Nat /\ \A m \in Nat : /\ Best(queue[s], m) \in SUBSET queue[s]
                                              /\ Cardinality(Best(queue[s], m)) <= m
        BY <4>1, ItemSets
      <4> QED
        BY <4>1, <4>2
    <3>2. \A p \in Pieces : smem'[p] = smem[p] \/ smem'[p] = B
      BY <1>1, <1>3 DEF QueuesOK
    <3> HIDE DEF B
    <3> QED
      BY <1>3, <3>1, <3>2 DEF QueuesOK
  <2> QED
    BY <1>1, <1>3, <1>6, <2>1, <2>2 DEF QueuesOK
<1>10. /\ sub'[s].pc = "load" /\ sub'[s].nwarps = sub[s].nwarps
       /\ \A t \in Subwarps \ {s} : sub'[t] = sub[t]
  BY <1>1, <1>4
<1>11. PhasesOK'
  <2>1. ASSUME NEW v \in Warps
        PROVE  \/ \A t \in SubwarpsOf(v) : sub'[t].pc = "add"
               \/ base[v] >= Size /\ \A l \in Lanes : buf'[v][l] = {}
    <3>1. \A l \in Lanes : buf[v][l] = {} => buf'[v][l] = {}
      BY <1>7
    <3>2. CASE s \in SubwarpsOf(v)
      BY <1>1, <1>3, <3>1, <3>2 DEF PhasesOK
    <3>3. CASE s \notin SubwarpsOf(v)
      BY <1>3, <1>10, <3>1, <3>3 DEF PhasesOK, SubwarpsOf
    <3> QED
      BY <3>2, <3>3
  <2>2. (\A t \in Subwarps : /\ sub[t].pc \in {"add", "sync", "store", "load", "end"}
                             /\ sub[t].pc \in {"add", "sync"} => sub[t].nwarps = nwarps)'
    BY <1>3, <1>6, <1>10 DEF PhasesOK
  <2>3. (variant = "distributed_ext" =>
         \A t, u \in Subwarps : sub[t].pc \in {"store", "load", "end"} => sub[u].pc # "add")'
    <3>1. \A t \in Subwarps : /\ sub'[t].pc \in {"store", "load", "end"} => sub[t].pc \in {"store", "load", "end"}
                              /\ sub'[t].pc = "add" => sub[t].pc = "add"
      BY <1>1, <1>10
    <3> QED
      BY <1>3, <1>6, <3>1 DEF PhasesOK
  <2> QED
    BY <1>1, <1>6, <2>1, <2>2, <2>3 DEF PhasesOK
<1>12. ASSUME NEW t \in Subwarps PROVE Held(queue', buf', t) = Held(queue, buf, t)
  <2>1. t \div PerWarp \in Warps
    BY LaneFacts
  <2>2. \A l \in Lanes : buf'[t \div PerWarp][l] = buf[t \div PerWarp][l]
    BY <1>7, <2>1
  <2>3. Buffered(buf', t) = Buffered(buf, t)
    BY <2>2 DEF Buffered
  <2> QED
    BY <1>1, <2>3 DEF Held
<1>13. sub'[0].pc = "end" <=> sub[0].pc = "end"
  BY <1>1, <1>4, <1>10
<1> QED
  BY <1>1, <1>2, <1>5, <1>8, <1>9, <1>10, <1>11, <1>12, <1>13 DEF LaunchInv

LEMMA LoadLaunch ==
  ASSUME Shape, TmpPairs, LaunchInv, NEW s \in Subwarps, Load(s)
  PROVE  /\ LaunchInv' /\ SameLaunch /\ UNCHANGED <<base, buf, tmp, out, where>>
         /\ sub[s].pc = "load" /\ Arrived(s)
         /\ sub'[s].nwarps = Split(s) /\ \A t \in Subwarps \ {s} : sub'[t] = sub[t] /\ queue'[t] = queue[t]
         /\ s >= sub[s].nwarps - Split(s) => queue'[s] = queue[s]
         /\ s < sub[s].nwarps - Split(s)
              => /\ s + Split(s) \in Subwarps
                 /\ queue'[s] = Best(queue[s] \cup Best(queue[s + Split(s)], Trimmed), Capacity)
         /\ sub'[0].pc = "end" <=> sub[0].pc = "end"
<1>1. /\ UNCHANGED <<input, shape, out, where, tmp, merging, blk, base, buf, fill, smem>>
      /\ sub[s].pc = "load" /\ Arrived(s)
      /\ queue' = IF s < sub[s].nwarps - Split(s)
                  THEN [queue EXCEPT ![s] = Best(@ \cup smem[LoadPlace(s)], Capacity)] ELSE queue
      /\ sub' = [sub EXCEPT ![s].pc = "store", ![s].nwarps = Split(s), ![s].shift = ~@]
  BY DEF Load, Shifted
<1>2. SameLaunch
  BY <1>1 DEF SameLaunch, rigid, input, shape
<1>3. TreeInv /\ WarpsOK /\ QueuesOK /\ PhasesOK
  BY DEF LaunchInv
<1>4. /\ {"pc", "arrived", "nwarps", "shift"} \subseteq DOMAIN sub[s]
      /\ DOMAIN sub = Subwarps /\ nwarps \in Int /\ Domains /\ DOMAIN queue = Subwarps /\ 0 \in Subwarps
  BY <1>3, SubTypes DEF Domains
<1>5. TreeInv'
  BY <1>3, <1>4, LoadInv
<1>6. /\ Warps' = Warps /\ Subwarps' = Subwarps /\ Pieces' = Pieces /\ Items' = Items
      /\ Capacity' = Capacity /\ Trimmed' = Trimmed /\ variant' = variant
      /\ Size' = Size /\ nwarps' = nwarps /\ \A v : SubwarpsOf(v)' = SubwarpsOf(v)
  BY <1>2, Rigid
<1>7. WarpsOK'
  BY <1>1, <1>2, <1>3, QuietWarps DEF WarpsOK
<1>8. ASSUME s < sub[s].nwarps - Split(s)
      PROVE  s + Split(s) \in Subwarps /\ smem[LoadPlace(s)] = Best(queue[s + Split(s)], Trimmed)
  <2>1. /\ s \in Nat /\ nwarps \in Nat /\ SubOK(s) /\ Split(s) \in Nat
        /\ Round(s) = sub[s].arrived
    BY <1>1, <1>4, SubwarpFacts
  <2>2. s + Split(s) \in Subwarps /\ s + Split(s) < sub[s].nwarps
    BY <1>8, <2>1 DEF SubOK, Subwarps
  <2>3. sub[s + Split(s)].arrived >= Round(s)
    BY <1>1, <2>1, <2>2 DEF Arrived
  <2>4. smem[LoadPlace(s)] = Kept(s + Split(s))
    BY <1>3, <2>2, <2>3 DEF TreeInv, ForLoad
  <2> QED
    BY <2>2, <2>4, KeptBest
<1>9. /\ \A t \in Subwarps \ {s} : sub'[t] = sub[t] /\ queue'[t] = queue[t]
      /\ s >= sub[s].nwarps - Split(s) => queue'[s] = queue[s]
      /\ s < sub[s].nwarps - Split(s)
           => queue'[s] = Best(queue[s] \cup Best(queue[s + Split(s)], Trimmed), Capacity)
      /\ sub'[s].pc = "store" /\ sub'[s].nwarps = Split(s) /\ DOMAIN queue' = Subwarps
  <2>1. s \in Nat /\ sub[s].nwarps - Split(s) \in Int
    BY <1>4, SubwarpFacts DEF SubOK
  <2> DEFINE half == Split(s)
             last == sub[s].nwarps - Split(s)
  <2>2. s >= last <=> ~(s < last)
    BY <2>1
  <2>3. sub'[s].pc = "store" /\ sub'[s].nwarps = half /\ \A t \in Subwarps \ {s} : sub'[t] = sub[t]
    <3> HIDE DEF half
    <3> QED
      BY <1>1, <1>4 DEF half
  <2> HIDE DEF half, last
  <2>4. /\ DOMAIN queue' = Subwarps /\ \A t \in Subwarps \ {s} : queue'[t] = queue[t]
        /\ ~(s < last) => queue'[s] = queue[s]
        /\ s < last => queue'[s] = Best(queue[s] \cup Best(queue[s + Split(s)], Trimmed), Capacity)
    BY <1>1, <1>4, <1>8 DEF last
  <2> QED
    BY <2>2, <2>3, <2>4 DEF half, last
<1>10. QueuesOK'
  <2>1. queue'[s] \in SUBSET Items /\ Cardinality(queue'[s]) <= Capacity
    <3>1. CASE s >= sub[s].nwarps - Split(s)
      BY <1>3, <1>9, <3>1 DEF QueuesOK
    <3>2. CASE s < sub[s].nwarps - Split(s)
      <4> DEFINE B == Best(queue[s + Split(s)], Trimmed)
                 S == queue[s] \cup B
      <4>1. s + Split(s) \in Subwarps
        BY <1>8, <3>2
      <4>2. queue[s] \in SUBSET Items /\ queue[s + Split(s)] \in SUBSET Items
        BY <1>3, <4>1 DEF QueuesOK
      <4>3. B \in SUBSET queue[s + Split(s)]
        BY <4>2, ItemSets
      <4>4. S \in SUBSET Items
        BY <4>2, <4>3
      <4> HIDE DEF B, S
      <4>5. queue'[s] = Best(S, Capacity)
        BY <1>9, <3>2 DEF S, B
      <4>6. Capacity \in Nat /\ \A m \in Nat : Best(S, m) \in SUBSET S /\ Cardinality(Best(S, m)) <= m
        BY <4>4, ItemSets
      <4> DEFINE C == Best(S, Capacity)
      <4>7. C \in SUBSET Items /\ Cardinality(C) <= Capacity
        BY <4>4, <4>6
      <4> HIDE DEF C
      <4> QED
        BY <4>5, <4>7 DEF C
    <3> QED
      <4>1. s \in Nat /\ sub[s].nwarps - Split(s) \in Int
        BY <1>4, SubwarpFacts DEF SubOK
      <4> QED
        BY <3>1, <3>2, <4>1
  <2> QED
    BY <1>1, <1>3, <1>6, <1>9, <2>1 DEF QueuesOK
<1>11. PhasesOK'
  <2>1. ASSUME NEW v \in Warps
        PROVE  \/ \A t \in SubwarpsOf(v) : sub'[t].pc = "add"
               \/ base[v] >= Size /\ \A l \in Lanes : buf[v][l] = {}
    <3>2. CASE s \in SubwarpsOf(v)
      BY <1>1, <1>3, <3>2 DEF PhasesOK
    <3>3. CASE s \notin SubwarpsOf(v)
      BY <1>3, <1>9, <3>3 DEF PhasesOK, SubwarpsOf
    <3> QED
      BY <3>2, <3>3
  <2>2. (\A t \in Subwarps : /\ sub[t].pc \in {"add", "sync", "store", "load", "end"}
                             /\ sub[t].pc \in {"add", "sync"} => sub[t].nwarps = nwarps)'
    BY <1>3, <1>6, <1>9 DEF PhasesOK
  <2>3. (variant = "distributed_ext" =>
         \A t, u \in Subwarps : sub[t].pc \in {"store", "load", "end"} => sub[u].pc # "add")'
    <3>1. \A t \in Subwarps : /\ sub'[t].pc \in {"store", "load", "end"} => sub[t].pc \in {"store", "load", "end"}
                              /\ sub'[t].pc = "add" => sub[t].pc = "add"
      BY <1>1, <1>9
    <3> QED
      BY <1>3, <1>6, <3>1 DEF PhasesOK
  <2> QED
    BY <1>1, <1>6, <2>1, <2>2, <2>3 DEF PhasesOK
<1>12. sub'[0].pc = "end" <=> sub[0].pc = "end"
  BY <1>1, <1>4, <1>9
<1> QED
  BY <1>1, <1>2, <1>5, <1>7, <1>8, <1>9, <1>10, <1>11, <1>12 DEF LaunchInv

LEMMA QuietLaunch ==
  ASSUME Shape, LaunchInv, SameLaunch, UNCHANGED <<base, buf, fill, queue, smem, sub>>
  PROVE  LaunchInv'
<1>1. TreeInv /\ WarpsOK /\ QueuesOK /\ PhasesOK
  BY DEF LaunchInv
<1>2. UNCHANGED still
  BY DEF SameLaunch, rigid, still, n
<1>3. nwarps \in Int /\ DOMAIN sub = Subwarps /\ DOMAIN queue = Subwarps /\ \A s \in Subwarps : SubOK(s)
  <2>1. nwarps \in Nat
    BY ShapeFacts
  <2> QED
    BY <1>1, <2>1 DEF TreeInv, Domains
<1>4. TreeInv'
  <2>1. FirstRound' = FirstRound
    BY <1>2, StillTrimmed
  <2>2. \A s \in Subwarps : Round(s)' = Round(s)
    BY <2>1 DEF Round
  <2> QED
    BY <1>1, <1>2, <1>3, <2>2, Frame DEF SubOK
<1>5. /\ Warps' = Warps /\ Subwarps' = Subwarps /\ Pieces' = Pieces /\ Items' = Items
      /\ Capacity' = Capacity /\ Trimmed' = Trimmed /\ variant' = variant
      /\ Size' = Size /\ nwarps' = nwarps /\ \A v : SubwarpsOf(v)' = SubwarpsOf(v)
  BY Rigid
<1>6. WarpsOK'
  BY <1>1, QuietWarps DEF WarpsOK
<1>7. QueuesOK'
  BY <1>1, <1>5 DEF QueuesOK
<1>8. PhasesOK'
  BY <1>1, <1>5 DEF PhasesOK
<1> QED
  BY <1>4, <1>6, <1>7, <1>8 DEF LaunchInv

(* What is written is what the first queue has, or the dummy.                *)
LEMMA StoredFacts ==
  ASSUME Shape, TmpPairs, LaunchInv
  PROVE  /\ 0 \in Subwarps /\ Result \in SUBSET queue[0] /\ Result \in SUBSET Items
         /\ Bound \in Keys /\ 0 \in Keys
         /\ \A i : Stored(i) \in Result \cup {Dummy} /\ Stored(i) \in Keys \X Int
<1>1. 0 \in Subwarps
  <2>1. nwarps \in Nat \ {0}
    BY ShapeFacts
  <2> QED
    BY <2>1 DEF Subwarps
<1>2. queue[0] \in SUBSET Items
  BY <1>1 DEF LaunchInv, QueuesOK
<1>3. Result \in SUBSET queue[0]
  BY DEF Result, Best
<1>4. Bound \in Keys /\ 0 \in Keys
  <2>1. PICK g \in Garbage : g \in Keys
    BY WarpAssumption
  <2>2. 0 \in Keys
    <3>1. 2^Width \in Int
      BY KeysInt
    <3> QED
      BY <2>1, <3>1 DEF Keys
  <2> QED
    BY <2>1, <2>2, KeysInt
<1>5. \A i : Stored(i) \in Result \cup {Dummy}
  BY DEF Stored
<1>6. Dummy \in Keys \X Int
  BY <1>4 DEF Dummy
<1>7. Items \in SUBSET (Keys \X Int)
  BY ItemsFacts
<1> QED
  BY <1>1, <1>2, <1>3, <1>4, <1>5, <1>6, <1>7

LEMMA ResultLaunch ==
  ASSUME Shape, TmpPairs, LaunchInv, out \in [0..(k - 1) -> Entries], StoreResult
  PROVE  /\ LaunchInv' /\ SameLaunch /\ TmpPairs'
         /\ UNCHANGED <<base, buf, queue, where>>
         /\ out' \in [0..(k - 1) -> Entries]
         /\ \A t \in Subwarps : sub'[t].nwarps = sub[t].nwarps
<1>1. /\ UNCHANGED <<input, shape, where, merging, blk, base, buf, fill, queue, smem>>
      /\ where = "warpsort" /\ sub[0].pc = "store" /\ sub[0].nwarps = 1
      /\ sub' = [sub EXCEPT ![0].pc = "end"]
      /\ merging => tmp' = tmp
      /\ \/ tmp' = tmp /\ out' = [i \in DOMAIN out |-> IF i < Trimmed THEN Stored(i) ELSE out[i]]
         \/ out' = out /\ tmp' = [i \in DOMAIN tmp |->
                                   IF i \div k = blk /\ i % k < Trimmed THEN Stored(i % k) ELSE tmp[i]]
  BY DEF StoreResult
<1>2. SameLaunch /\ UNCHANGED still
  BY <1>1 DEF SameLaunch, rigid, input, shape, still, n
<1>3. TreeInv /\ WarpsOK /\ QueuesOK /\ PhasesOK
  BY DEF LaunchInv
<1>4. 0 \in Subwarps /\ \A i : Stored(i) \in Keys \X Int
  BY StoredFacts
<1>5. /\ {"pc", "arrived", "nwarps", "shift"} \subseteq DOMAIN sub[0]
      /\ DOMAIN sub = Subwarps /\ nwarps \in Int /\ Domains
  BY <1>3, <1>4, SubTypes
<1>6. TreeInv'
  BY <1>1, <1>2, <1>3, <1>4, <1>5, PlaceInv
<1>7. /\ Warps' = Warps /\ Subwarps' = Subwarps /\ Pieces' = Pieces /\ Items' = Items
      /\ Capacity' = Capacity /\ Trimmed' = Trimmed /\ variant' = variant
      /\ Size' = Size /\ nwarps' = nwarps /\ \A v : SubwarpsOf(v)' = SubwarpsOf(v)
  BY <1>2, Rigid
<1>8. WarpsOK'
  BY <1>1, <1>2, <1>3, QuietWarps DEF WarpsOK
<1>9. QueuesOK'
  BY <1>1, <1>3, <1>7 DEF QueuesOK
<1>10. /\ sub'[0].pc = "end" /\ sub'[0].nwarps = sub[0].nwarps
       /\ \A t \in Subwarps \ {0} : sub'[t] = sub[t]
  BY <1>1, <1>4, <1>5
<1>11. PhasesOK'
  <2>1. ASSUME NEW v \in Warps
        PROVE  \/ \A t \in SubwarpsOf(v) : sub'[t].pc = "add"
               \/ base[v] >= Size /\ \A l \in Lanes : buf[v][l] = {}
    <3>1. CASE 0 \in SubwarpsOf(v)
      BY <1>1, <1>3, <3>1 DEF PhasesOK
    <3>2. CASE 0 \notin SubwarpsOf(v)
      BY <1>3, <1>10, <3>2 DEF PhasesOK, SubwarpsOf
    <3> QED
      BY <3>1, <3>2
  <2>2. (\A t \in Subwarps : /\ sub[t].pc \in {"add", "sync", "store", "load", "end"}
                             /\ sub[t].pc \in {"add", "sync"} => sub[t].nwarps = nwarps)'
    BY <1>3, <1>7, <1>10 DEF PhasesOK
  <2>3. (variant = "distributed_ext" =>
         \A t, u \in Subwarps : sub[t].pc \in {"store", "load", "end"} => sub[u].pc # "add")'
    <3>1. \A t \in Subwarps : /\ sub'[t].pc \in {"store", "load", "end"} => sub[t].pc \in {"store", "load", "end"}
                              /\ sub'[t].pc = "add" => sub[t].pc = "add"
      BY <1>1, <1>10
    <3> QED
      BY <1>3, <1>7, <3>1 DEF PhasesOK
  <2> QED
    BY <1>1, <1>7, <2>1, <2>2, <2>3 DEF PhasesOK
<1>12. TmpPairs'
  <2>1. DOMAIN tmp' = DOMAIN tmp /\ \A i \in DOMAIN tmp : tmp'[i] = tmp[i] \/ \E j : tmp'[i] = Stored(j)
    BY <1>1
  <2>2. UNCHANGED <<num_of_block, k>>
    BY <1>1 DEF input, shape
  <2> QED
    BY <1>4, <2>1, <2>2 DEF TmpPairs
<1>13. out' \in [0..(k - 1) -> Entries]
  <2>1. \A i : Stored(i) \in Entries
    BY <1>4 DEF Entries
  <2> QED
    BY <1>1, <2>1
<1> QED
  BY <1>1, <1>2, <1>6, <1>8, <1>9, <1>10, <1>11, <1>12, <1>13 DEF LaunchInv

-----------------------------------------------------------------------------
(* What holds as long as the warps select.                                   *)
NoLaunch ==
  /\ merging = FALSE /\ blk = 0
  /\ base = <<>> /\ fill = <<>> /\ buf = <<>> /\ queue = <<>> /\ smem = <<>> /\ sub = <<>>

WarpInv ==
  /\ algo = "warpsort" /\ sorted \in BOOLEAN /\ RadixIdle
  /\ Shape /\ TmpPairs
  /\ out \in [0..(k - 1) -> Entries]
  /\ merging \in BOOLEAN /\ blk \in 0..(NumBlocks - 1)
  /\ \/ where \in {"host", "done"} /\ NoLaunch
     \/ where \in {"warpsort", "selected", "done"} /\ LaunchInv

LEMMA WarpInitInv ==
  ASSUME Init, algo = "warpsort"
  PROVE  WarpInv
<1>1. SelectInit /\ WarpInit /\ RadixIdle /\ sorted \in BOOLEAN
  BY DEF Init
<1>2. Shape
  BY <1>1, LaunchShape
<1>3. TmpPairs
  <2>1. PICK x \in Garbage : tmp = [i \in 0..(num_of_block * k - 1) |-> <<x, -(i + 1)>>]
    BY <1>1 DEF WarpInit
  <2>2. x \in Keys
    BY WarpAssumption
  <2>3. num_of_block \in Nat /\ k \in Nat
    BY <1>2 DEF Shape
  <2>4. num_of_block * k \in Nat
    BY <2>3
  <2> QED
    BY <2>1, <2>2, <2>4 DEF TmpPairs
<1>4. out \in [0..(k - 1) -> Entries] /\ where = "host"
  BY <1>1 DEF SelectInit, Entries
<1>5. merging = FALSE /\ blk = 0 /\ NoLaunch
  BY <1>1 DEF WarpInit, NoLaunch
<1>6. NumBlocks \in Nat \ {0}
  BY <1>2, ShapeFacts
<1>7. blk \in 0..(NumBlocks - 1)
  BY <1>5, <1>6
<1> QED
  BY <1>1, <1>2, <1>3, <1>4, <1>5, <1>7 DEF WarpInv

LEMMA IdleFrame ==
  ASSUME RadixIdle, UNCHANGED radixonly
  PROVE  RadixIdle'
BY DEF RadixIdle, radixonly, choice, state

(* A step within a launch.                                                   *)
LEMMA WithinLaunch ==
  ASSUME WarpInv, where = "warpsort", LaunchInv, SameLaunch, LaunchInv', TmpPairs', RadixIdle',
         algo' = algo, sorted' = sorted,
         where' \in {"warpsort", "selected", "done"}, out' \in [0..(k - 1) -> Entries]
  PROVE  WarpInv'
<1>1. UNCHANGED <<input, shape, merging, blk>>
  BY DEF SameLaunch, rigid, input, shape
<1>2. Shape' /\ k' = k
  BY <1>1, SameShape DEF WarpInv, input
<1>3. NumBlocks' = NumBlocks
  BY <1>1 DEF NumBlocks, shape
<1> QED
  BY <1>1, <1>2, <1>3 DEF WarpInv

LEMMA WarpStepInv ==
  ASSUME WarpInv, Warpsort
  PROVE  WarpInv'
<1>1. /\ algo' = algo /\ sorted' = sorted /\ RadixIdle' /\ Shape /\ TmpPairs /\ blk \in Nat
      /\ out \in [0..(k - 1) -> Entries]
  <2>1. NumBlocks \in Nat
    BY ShapeFacts DEF WarpInv
  <2> QED
    BY <2>1, IdleFrame DEF Warpsort, WarpInv
<1>2. CASE Begin
  <2>1. /\ where' = "warpsort" /\ StartOfBlock(0) /\ UNCHANGED <<input, shape, out, tmp, merging, blk>>
        /\ where = "host"
    BY <1>2 DEF Begin
  <2>2. blk' \in 0..(NumBlocks' - 1) /\ TmpPairs' /\ k' = k
    BY <2>1 DEF WarpInv, NumBlocks, TmpPairs, input, shape
  <2>3. Shape'
    BY <1>1, <2>1, SameShape
  <2>4. blk = 0
    BY <2>1 DEF WarpInv, NoLaunch
  <2>5. LaunchInv'
    BY <1>1, <2>1, <2>4, StartLaunch
  <2> QED
    BY <1>1, <2>1, <2>2, <2>3, <2>5 DEF WarpInv
<1>3. CASE where = "warpsort"
  <2>1. LaunchInv /\ DOMAIN base = Warps /\ DOMAIN sub = Subwarps /\ WarpsOK
    BY <1>3 DEF WarpInv, LaunchInv, WarpsOK, TreeInv, Domains
  <2>2. ASSUME NEW w \in DOMAIN base, Add(w) PROVE WarpInv'
    <3>1. /\ LaunchInv' /\ SameLaunch /\ UNCHANGED <<tmp, num_of_block, k>>
          /\ where' = where /\ out' = out
      BY <1>1, <2>1, <2>2, AddDoes, AddLaunch DEF SameLaunch, rigid
    <3> QED
      BY <1>1, <1>3, <2>1, <3>1, WithinLaunch DEF TmpPairs
  <2>3. ASSUME NEW w \in DOMAIN base, Done(w) PROVE WarpInv'
    <3>1. /\ LaunchInv' /\ SameLaunch /\ UNCHANGED <<tmp, num_of_block, k>>
          /\ where' = where /\ out' = out
      BY <1>1, <2>1, <2>3, DoneLaunch DEF SameLaunch, rigid
    <3> QED
      BY <1>1, <1>3, <2>1, <3>1, WithinLaunch DEF TmpPairs
  <2>4. ASSUME NEW s \in DOMAIN sub, Sync(s) \/ Store(s) \/ Load(s) PROVE WarpInv'
    <3>1. /\ LaunchInv' /\ SameLaunch /\ UNCHANGED <<tmp, num_of_block, k>>
          /\ where' = where /\ out' = out
      <4>1. s \in Subwarps
        BY <2>1
      <4>2. LaunchInv' /\ SameLaunch /\ UNCHANGED <<tmp, out, where>>
        BY <1>1, <2>1, <2>4, <4>1, SyncLaunch, StoreLaunch, LoadLaunch
      <4> QED
        BY <4>2 DEF SameLaunch, rigid
    <3> QED
      BY <1>1, <1>3, <2>1, <3>1, WithinLaunch DEF TmpPairs
  <2>5. CASE StoreResult
    <3>1. /\ LaunchInv' /\ SameLaunch /\ TmpPairs' /\ where' = where
          /\ out' \in [0..(k - 1) -> Entries]
      BY <1>1, <2>1, <2>5, ResultLaunch
    <3> QED
      BY <1>1, <1>3, <2>1, <3>1, WithinLaunch
  <2>6. CASE EndBlock
    <3>1. /\ UNCHANGED <<input, shape, out, tmp>>
          /\ IF merging \/ num_of_block = 1
             THEN /\ where' = "selected"
                  /\ UNCHANGED <<merging, blk, base, buf, fill, queue, smem, sub>>
             ELSE /\ UNCHANGED where
                  /\ IF blk = num_of_block - 1 THEN merging' = TRUE /\ blk' = 0
                     ELSE UNCHANGED merging /\ blk' = blk + 1
                  /\ StartOfBlock(blk')
      BY <2>6 DEF EndBlock
    <3>2. Shape' /\ TmpPairs' /\ k' = k /\ num_of_block' = num_of_block
      BY <1>1, <3>1, SameShape DEF TmpPairs, input, shape
    <3>3. CASE merging \/ num_of_block = 1
      <4>1. SameLaunch /\ UNCHANGED <<base, buf, fill, queue, smem, sub>>
        BY <3>1, <3>3 DEF SameLaunch, rigid, input, shape
      <4>2. LaunchInv'
        BY <1>1, <2>1, <4>1, QuietLaunch
      <4> QED
        BY <1>1, <1>3, <2>1, <3>1, <3>2, <3>3, <4>1, <4>2, WithinLaunch
    <3>4. CASE ~(merging \/ num_of_block = 1)
      <4>1. /\ StartOfBlock(blk') /\ where' = where /\ out' = out
            /\ \/ blk = num_of_block - 1 /\ merging' = TRUE /\ blk' = 0
               \/ blk # num_of_block - 1 /\ merging' = merging /\ blk' = blk + 1
        BY <3>1, <3>4
      <4>2. num_of_block \in Nat \ {0} /\ blk \in 0..(num_of_block - 1) /\ merging = FALSE
        BY <1>1, <3>4 DEF Shape, WarpInv, NumBlocks
      <4>3. blk' \in 0..(NumBlocks' - 1) /\ merging' \in BOOLEAN
        <5>1. NumBlocks' = IF merging' THEN 1 ELSE num_of_block
          BY <3>2 DEF NumBlocks
        <5>2. CASE blk = num_of_block - 1
          BY <4>1, <4>2, <5>1, <5>2
        <5>3. CASE blk # num_of_block - 1
          <6>1. merging' = FALSE /\ blk' = blk + 1
            BY <4>1, <4>2, <5>3
          <6>2. NumBlocks' = num_of_block
            BY <5>1, <6>1
          <6>3. blk + 1 \in 0..(num_of_block - 1)
            BY <4>2, <5>3
          <6> QED
            BY <6>1, <6>2, <6>3
        <5> QED
          BY <5>2, <5>3
      <4>4. blk' \in Nat
        BY <4>1, <4>2
      <4>5. LaunchInv'
        <5>1. PICK b \in Nat : StartOfBlock(b) /\ blk' = b
          BY <4>1, <4>4
        <5> QED
          BY <1>1, <3>1, <5>1, StartLaunch
      <4> QED
        BY <1>1, <1>3, <3>2, <4>1, <4>3, <4>5 DEF WarpInv
    <3> QED
      BY <3>3, <3>4
  <2> QED
    BY <1>3, <2>2, <2>3, <2>4, <2>5, <2>6 DEF Warpsort, WarpNext, WarpActs, Begin
<1>4. CASE where # "warpsort"
  <2>1. Begin
    BY <1>4 DEF Warpsort, WarpNext, WarpActs, Add, Adding, Done, Sync, Store, Load, StoreResult, EndBlock, BlockEnds
  <2> QED
    BY <1>2, <2>1
<1> QED
  BY <1>3, <1>4

LEMMA WarpNextInv ==
  ASSUME WarpInv, [Next]_vars
  PROVE  WarpInv'
<1>1. CASE Warpsort
  BY <1>1, WarpStepInv
<1>2. CASE Radix
  BY <1>2 DEF Radix, WarpInv
<1>3. ASSUME UNCHANGED <<algo, sorted, input, out, radixonly, warponly>>,
             where' = where \/ (where = "host" /\ where' = "done") \/ (where = "selected" /\ where' = "done")
      PROVE  WarpInv'
  <2>1. UNCHANGED <<shape, tmp, merging, blk, base, buf, fill, queue, smem, sub>>
    BY <1>3 DEF warponly
  <2>2. SameLaunch
    BY <1>3, <2>1 DEF SameLaunch, rigid, input, shape
  <2>3. RadixIdle' /\ Shape' /\ TmpPairs' /\ k' = k /\ NumBlocks' = NumBlocks
    BY <1>3, <2>1, IdleFrame, SameShape DEF WarpInv, TmpPairs, NumBlocks, input, shape
  <2>4. LaunchInv => LaunchInv'
    BY <2>1, <2>2, QuietLaunch DEF WarpInv
  <2>5. NoLaunch => NoLaunch'
    BY <2>1 DEF NoLaunch
  <2>6. /\ algo' = "warpsort" /\ sorted' \in BOOLEAN /\ out' \in [0..(k' - 1) -> Entries]
        /\ merging' \in BOOLEAN /\ blk' \in 0..(NumBlocks' - 1)
    BY <1>3, <2>1, <2>3 DEF WarpInv
  <2>7. \/ where' \in {"host", "done"} /\ NoLaunch'
        \/ where' \in {"warpsort", "selected", "done"} /\ LaunchInv'
    BY <1>3, <2>4, <2>5 DEF WarpInv
  <2> QED
    BY <2>3, <2>6, <2>7 DEF WarpInv
<1>4. CASE NoElements
  BY <1>3, <1>4 DEF NoElements
<1>5. CASE Return
  <2>1. out' = out
    BY <1>5 DEF Return, WarpInv
  <2> QED
    BY <1>3, <1>5, <2>1 DEF Return
<1>6. CASE UNCHANGED vars
  BY <1>3, <1>6 DEF vars
<1> QED
  BY <1>1, <1>2, <1>4, <1>5, <1>6 DEF Next

LEMMA IdleTypes ==
  ASSUME RadixIdle, Shape, 0 \in Keys
  PROVE  RadixTypeOK
<1>1. k \in Nat /\ n \in Nat /\ Blocks \in Nat \ {0, 1} /\ NumPasses \in Nat
  <2>1. k \in Nat /\ n \in Nat
    BY ShapeFacts DEF Shape
  <2>2. Width \in Nat \ {0} /\ BitsPerPass \in 1..(Width - 1)
    BY WidthAssumption, RadixAssumption
  <2>3. Width + BitsPerPass - 1 \in Nat /\ BitsPerPass \in Nat \ {0}
    BY <2>2
  <2>4. (Width + BitsPerPass - 1) \div BitsPerPass \in Nat
    BY <2>3, Quotient
  <2> QED
    BY <2>1, <2>4, RadixAssumption DEF NumPasses
<1>2. fused_last_filter \in BOOLEAN /\ one_block \in BOOLEAN /\ buf_len \in BufLens \cup {0}
  BY DEF RadixIdle
<1>3. \A b \in {1, 2} : bufs[b] \in [0..(buf_len - 1) -> Entries]
  <2>1. buf_len = 0 /\ \A b \in {1, 2} : bufs[b] = <<>>
    BY DEF RadixIdle
  <2>2. 0..(0 - 1) = {}
    OBVIOUS
  <2>3. <<>> \in [{} -> Entries]
    OBVIOUS
  <2> QED
    BY <2>1, <2>2, <2>3
<1>4. /\ counter.out = 0 /\ counter.filter = 0 /\ counter.k = 0 /\ counter.finished = 0
      /\ counter.len = 0 /\ counter.previous_len = 0 /\ counter.back = 0 /\ counter.kth = 0
      /\ buf_len = 0 /\ pass = 0
  BY DEF RadixIdle, Fresh
<1>5. histogram \in [Buckets -> 0..n]
  BY <1>1 DEF RadixIdle, Empty
<1>6. \A b \in DOMAIN block : block[b].pc \in {"end", "start", "filter", "count", "last"}
  BY DEF RadixIdle, Ended
<1>7. /\ counter.out \in 0..k /\ counter.filter \in 0..buf_len
      /\ counter.k \in 0..k /\ counter.finished \in 0..(Blocks - 1)
      /\ {counter.len, counter.previous_len, counter.back} \subseteq 0..n
      /\ counter.kth \in Keys /\ pass \in 0..NumPasses
  BY <1>1, <1>4
<1> QED
  BY <1>2, <1>3, <1>5, <1>6, <1>7 DEF RadixTypeOK

LEMMA LaunchTypes ==
  ASSUME Shape, TmpPairs, LaunchInv
  PROVE  /\ \A w \in DOMAIN fill : fill[w] \in 0..(Larger(MaxArrLen, WarpSize) - 1)
         /\ \A w \in DOMAIN buf : \A l \in Lanes :
              Cardinality(buf[w][l]) <= CASE variant = "immediate" -> MaxArrLen
                                          [] variant = "filtered" -> MaxBufLen
                                          [] OTHER -> 1
         /\ \A s \in DOMAIN queue : Cardinality(queue[s]) <= Capacity
         /\ \A p \in DOMAIN smem : Cardinality(smem[p]) <= Trimmed
         /\ \A s \in DOMAIN sub : /\ sub[s].pc \in {"add", "sync", "store", "load", "end"}
                                  /\ sub[s].pc = "store" /\ sub[s].nwarps > 1 /\ Split(s) <= s /\ s < sub[s].nwarps
                                     => StorePlace(s) \in DOMAIN smem
<1>1. TreeInv /\ WarpsOK /\ QueuesOK /\ PhasesOK /\ Domains
  BY DEF LaunchInv, TreeInv
<1>2. MaxArrLen \in Nat \ {0} /\ WarpSize \in Nat \ {0} /\ variant \in Variants /\ nwarps \in Int
  <2>1. MaxArrLen \in Nat \ {0} /\ WarpSize \in Nat \ {0} /\ nwarps \in Nat
    BY ShapeFacts
  <2> QED
    BY <2>1 DEF Shape
<1>3. \A w \in DOMAIN fill : fill[w] \in 0..(Larger(MaxArrLen, WarpSize) - 1)
  <2> SUFFICES ASSUME NEW w \in Warps PROVE fill[w] \in 0..(Larger(MaxArrLen, WarpSize) - 1)
    BY <1>1 DEF WarpsOK
  <2>1. fill[w] \in Nat /\ (fill[w] < MaxArrLen \/ fill[w] = 0 \/ fill[w] < WarpSize)
    BY <1>1 DEF WarpsOK, BufOK
  <2> QED
    BY <1>2, <2>1 DEF Larger
<1>4. \A w \in DOMAIN buf : \A l \in Lanes :
        Cardinality(buf[w][l]) <= CASE variant = "immediate" -> MaxArrLen
                                    [] variant = "filtered" -> MaxBufLen
                                    [] OTHER -> 1
  <2> SUFFICES ASSUME NEW w \in Warps, NEW l \in Lanes
               PROVE  Cardinality(buf[w][l]) <= CASE variant = "immediate" -> MaxArrLen
                                                  [] variant = "filtered" -> MaxBufLen
                                                  [] OTHER -> 1
    BY <1>1 DEF WarpsOK
  <2>1. BufOK(buf[w], fill[w])
    BY <1>1 DEF WarpsOK
  <2>2. CASE variant = "immediate"
    <3>1. /\ fill[w] \in Nat /\ fill[w] < MaxArrLen /\ Cardinality(buf[w][l]) <= fill[w]
      BY <2>1, <2>2 DEF BufOK
    <3>2. Cardinality(buf[w][l]) \in Int
      <4>1. buf[w][l] \in SUBSET Items
        BY <2>1 DEF BufOK
      <4> QED
        BY <4>1, ItemSets
    <3> QED
      BY <1>2, <2>2, <3>1, <3>2
  <2>3. CASE variant = "filtered"
    BY <2>1, <2>3 DEF BufOK
  <2>4. CASE variant \notin {"immediate", "filtered"}
    BY <2>1, <2>4 DEF BufOK
  <2> QED
    BY <2>2, <2>3, <2>4
<1>5. /\ \A s \in DOMAIN queue : Cardinality(queue[s]) <= Capacity
      /\ \A p \in DOMAIN smem : Cardinality(smem[p]) <= Trimmed
  BY <1>1 DEF QueuesOK
<1>6. \A s \in DOMAIN sub : /\ sub[s].pc \in {"add", "sync", "store", "load", "end"}
                            /\ sub[s].pc = "store" /\ sub[s].nwarps > 1 /\ Split(s) <= s /\ s < sub[s].nwarps
                               => StorePlace(s) \in DOMAIN smem
  BY <1>1, <1>2, Places DEF PhasesOK, Domains, QueuesOK
<1> QED
  BY <1>3, <1>4, <1>5, <1>6

LEMMA WarpInvType == WarpInv => TypeOK
<1> SUFFICES ASSUME WarpInv PROVE TypeOK
  OBVIOUS
<1>1. Shape /\ TmpPairs /\ RadixIdle
  BY DEF WarpInv
<1>2. 0 \in Keys
  <2>1. PICK g \in Garbage : g \in Keys
    BY WarpAssumption
  <2>2. 2^Width \in Int
    BY KeysInt
  <2> QED
    BY <2>1, <2>2 DEF Keys
<1>3. RadixTypeOK
  BY <1>1, <1>2, IdleTypes
<1>4. /\ variant \in Variants /\ num_of_block \in Nat \ {0} /\ nwarps \in Nat \ {0}
      /\ merging \in BOOLEAN /\ blk \in 0..(num_of_block - 1)
  <2>1. nwarps \in Nat \ {0} /\ num_of_block \in Nat \ {0} /\ blk \in 0..(NumBlocks - 1)
    BY <1>1, ShapeFacts DEF Shape, WarpInv
  <2>2. blk \in 0..(num_of_block - 1)
    BY <2>1 DEF NumBlocks
  <2> QED
    BY <1>1, <2>1, <2>2 DEF Shape, WarpInv
<1>5. \A i \in DOMAIN tmp : tmp[i] \in Entries
  BY <1>1 DEF TmpPairs, Entries
<1>6. CASE NoLaunch
  <2>1. DOMAIN fill = {} /\ DOMAIN buf = {} /\ DOMAIN queue = {} /\ DOMAIN smem = {} /\ DOMAIN sub = {}
    BY <1>6 DEF NoLaunch
  <2>2. WarpTypeOK
    BY <1>4, <1>5, <2>1 DEF WarpTypeOK
  <2> QED
    BY <1>3, <2>2 DEF TypeOK, WarpInv
<1>7. CASE LaunchInv
  <2>1. WarpTypeOK
    BY <1>1, <1>4, <1>5, <1>7, LaunchTypes, Zenon DEF WarpTypeOK
  <2> QED
    BY <1>3, <2>1 DEF TypeOK, WarpInv
<1> QED
  BY <1>6, <1>7 DEF WarpInv

(* The counters, queues and buffers of the warps stay within their arrays,   *)
(* and what a subwarp stores for another goes to a piece of shared memory    *)
(* that exists, for any row, capacity and launch (warp_sort_filtered and     *)
(* warp_sort_distributed::add, block_sort::done).                            *)
THEOREM WarpsTypeCorrect == Spec /\ algo = "warpsort" => []TypeOK
<1>1. Init /\ algo = "warpsort" => WarpInv
  BY WarpInitInv
<1>2. WarpInv /\ [Next]_vars => WarpInv'
  BY WarpNextInv
<1> QED
  BY <1>1, <1>2, WarpInvType, PTL DEF Spec

-----------------------------------------------------------------------------
(* What the warps have read, and where it is spoken for. Of a round in which *)
(* m subwarps become half as many, those of the upper half count until they  *)
(* have been loaded.                                                         *)
Half(m) == (m + 1) \div 2
Seen == {e \in Items : \E w \in Warps, t \in Nat, l \in Lanes, p \in Nat :
           p = First(w) + t * Stride + l /\ First(w) + t * Stride < base[w] /\ e = Read(p)}
InTree(m, s) == s < m /\ (s >= Half(m) => sub[s - Half(m)].nwarps = m)
GatheredIn(m) ==
  /\ m \in Nat \ {0}
  /\ \A s \in Subwarps : sub[s].nwarps \in {m, Half(m)}
  /\ \A e \in Seen : \E s \in Subwarps : InTree(m, s) /\ Speaks(Held(queue, buf, s), e)

LEMMA SeenSame ==
  ASSUME SameLaunch, base' = base
  PROVE  Seen' = Seen
BY Rigid DEF Seen

LEMMA HeldSame ==
  ASSUME SameLaunch
  PROVE  /\ \A s : Held(queue, buf, s)' = Held(queue', buf', s)
         /\ \A S, e : Speaks(S, e)' <=> Speaks(S, e)
<1>1. \A s : Held(queue, buf, s)' = Held(queue', buf', s)
  BY Rigid DEF Held, Buffered
<1>2. \A S, e : Speaks(S, e)' <=> Speaks(S, e)
  BY Rigid DEF Speaks
<1> QED
  BY <1>1, <1>2

LEMMA SpeaksSame ==
  ASSUME SameLaunch, NEW s, NEW e
  PROVE  Speaks(Held(queue, buf, s), e)' <=> Speaks(Held(queue', buf', s), e)
<1>1. Held(queue, buf, s)' = Held(queue', buf', s)
  BY HeldSame
<1>2. Trimmed' = Trimmed /\ select_min' = select_min
  BY Rigid
<1> QED
  BY <1>1, <1>2 DEF Speaks

LEMMA GatherKeeps ==
  ASSUME Shape, TmpPairs, SameLaunch, NEW m, GatheredIn(m), base' = base,
         \A s \in Subwarps : sub'[s].nwarps = sub[s].nwarps, nwarps \in Nat,
         \A s \in Subwarps, e \in Pairs : Speaks(Held(queue, buf, s), e) => Speaks(Held(queue', buf', s), e)
  PROVE  GatheredIn(m)'
<1>1. Seen' = Seen /\ Subwarps' = Subwarps
  BY SeenSame, Rigid
<1>2. Seen \in SUBSET Pairs
  BY ItemsFacts DEF Seen
<1>3. ASSUME NEW e \in Seen
      PROVE  \E s \in Subwarps : InTree(m, s)' /\ Speaks(Held(queue, buf, s), e)'
  <2>1. PICK s \in Subwarps : InTree(m, s) /\ Speaks(Held(queue, buf, s), e)
    BY DEF GatheredIn
  <2>2. Speaks(Held(queue, buf, s), e)'
    BY <1>2, <2>1, SpeaksSame
  <2>3. InTree(m, s)'
    <3>1. s \in Nat /\ s < nwarps /\ m \in Nat \ {0}
      BY DEF Subwarps, GatheredIn
    <3>2. s >= Half(m) => s - Half(m) \in Subwarps
      BY <3>1, Halves DEF Subwarps, Half
    <3> QED
      BY <2>1, <3>2 DEF InTree
  <2> QED
    BY <2>2, <2>3
<1> QED
  BY <1>1, <1>3 DEF GatheredIn

(* When all have the same number, it is that of the round.                   *)
LEMMA Regather ==
  ASSUME nwarps \in Nat, NEW m, GatheredIn(m), NEW c, \A s \in Subwarps : sub[s].nwarps = c, Subwarps # {}
  PROVE  GatheredIn(c)
<1>1. m \in Nat \ {0} /\ c \in {m, Half(m)}
  BY DEF GatheredIn
<1>2. Half(m) \in Nat \ {0} /\ Half(m) <= m
  BY <1>1, Halves DEF Half
<1>3. c \in Nat \ {0}
  BY <1>1, <1>2
<1>4. ASSUME NEW s \in Subwarps, InTree(m, s) PROVE InTree(c, s)
  <2>1. s \in Nat /\ s < nwarps
    BY DEF Subwarps
  <2>2. s < c
    <3>1. CASE c = m
      BY <1>4, <3>1 DEF InTree
    <3>2. CASE c # m /\ s >= Half(m)
      <4>1. s - Half(m) \in Subwarps
        BY <1>2, <2>1, <3>2 DEF Subwarps
      <4> QED
        BY <1>4, <3>2, <4>1 DEF InTree
    <3>3. CASE c # m /\ ~(s >= Half(m))
      BY <1>1, <1>2, <2>1, <3>3
    <3> QED
      BY <3>1, <3>2, <3>3
  <2>3. s >= Half(c) => s - Half(c) \in Subwarps
    BY <1>3, <2>1, Halves DEF Half, Subwarps
  <2> QED
    BY <2>2, <2>3 DEF InTree
<1> QED
  BY <1>3, <1>4 DEF GatheredIn

(* While a warp adds, nobody has merged.                                     *)
LEMMA NobodyMerged ==
  ASSUME Shape, LaunchInv, NEW s \in Subwarps, sub[s].pc = "add"
  PROVE  \A t \in Subwarps : sub[t].nwarps = nwarps
<1>1. TreeInv /\ Domains /\ nwarps \in Int /\ SubOK(s) /\ PhasesOK
  BY SubTypes DEF LaunchInv
<1>2. Round(s) = FirstRound /\ FirstRound \in Nat \ {0} /\ sub[s].arrived = 0
  BY <1>1 DEF Round, SubOK, FirstRound
<1>3. ASSUME NEW t \in Subwarps PROVE sub[t].nwarps = nwarps
  <2>1. Round(t) \in Nat /\ Round(t) >= FirstRound
    BY <1>1, SubwarpFacts DEF SubOK
  <2>2. ~(Round(t) > FirstRound)
    BY <1>1, <1>2, <2>1 DEF TreeInv, Barriers
  <2>3. Round(t) = Round(s)
    BY <1>2, <2>1, <2>2
  <2>4. sub[t].nwarps = sub[s].nwarps
    BY <1>1, <2>3 DEF TreeInv, Agreement
  <2> QED
    BY <1>1, <2>4 DEF PhasesOK
<1> QED
  BY <1>3

LEMMA TimesOrder ==
  ASSUME NEW d \in Nat \ {0}, NEW a \in Nat, NEW b \in Nat
  PROVE  /\ a * d \in Nat /\ b * d \in Nat
         /\ a * d < b * d + d => a <= b
         /\ a * d >= b * d => a >= b
<1>1. a * d \in Nat /\ b * d \in Nat
  OBVIOUS
<1>2. ASSUME a > b PROVE a * d >= b * d + d
  <2>1. a >= b + 1
    BY <1>2
  <2>2. a * d >= (b + 1) * d
    BY <2>1
  <2>3. (b + 1) * d = b * d + d
    OBVIOUS
  <2> QED
    BY <1>1, <2>2, <2>3
<1>3. ASSUME a < b PROVE a * d < b * d
  <2>1. b >= a + 1
    BY <1>3
  <2>2. b * d >= (a + 1) * d
    BY <2>1
  <2>3. (a + 1) * d = a * d + d
    OBVIOUS
  <2> QED
    BY <1>1, <2>2, <2>3
<1> QED
  BY <1>1, <1>2, <1>3

LEMMA ReadTypes ==
  ASSUME Shape, blk \in Nat, NEW w \in Warps, NEW t \in Nat, NEW l \in Lanes
  PROVE  First(w) \in Nat /\ t * Stride \in Nat /\ l \in Nat /\ First(w) + t * Stride + l \in Nat
<1>1. Stride \in Nat \ {0} /\ WarpSize \in Nat
  BY ShapeFacts
<1>2. First(w) \in Nat
  BY FirstNat
<1>3. t * Stride \in Nat
  BY <1>1, TimesOrder
<1>4. l \in Nat
  BY <1>1 DEF Lanes
<1> QED
  BY <1>2, <1>3, <1>4

LEMMA SeenMore ==
  ASSUME Shape, TmpPairs, blk \in Nat, SameLaunch, WarpsOK, NEW w \in Warps,
         base' = [base EXCEPT ![w] = @ + Stride], NEW e \in Seen'
  PROVE  e \in Seen \/ \E l \in Given(w) : e = Read(base[w] + l)
<1>1. /\ Items' = Items /\ Warps' = Warps /\ Stride' = Stride
      /\ \A v : First(v)' = First(v) /\ \A i : Read(i)' = Read(i)
  BY Rigid
<1>2. PICK v \in Warps, t \in Nat, l \in Lanes, p \in Nat :
        p = First(v) + t * Stride + l /\ First(v) + t * Stride < base'[v] /\ e = Read(p)
  BY <1>1 DEF Seen
<1>3. e \in Items
  BY <1>1 DEF Seen
<1>4. DOMAIN base = Warps /\ base'[w] = base[w] + Stride /\ (v # w => base'[v] = base[v])
  BY DEF WarpsOK
<1>5. CASE First(v) + t * Stride < base[v]
  BY <1>2, <1>3, <1>5 DEF Seen
<1>6. CASE ~(First(v) + t * Stride < base[v])
  <2>1. v = w
    BY <1>2, <1>4, <1>6
  <2>2. PICK u \in Nat : base[w] = First(w) + u * Stride
    BY DEF WarpsOK
  <2>3. Stride \in Nat \ {0} /\ First(w) \in Nat
    BY ShapeFacts, FirstNat
  <2>4. t * Stride \in Nat /\ u * Stride \in Nat
    BY <2>3, TimesOrder
  <2>5. t * Stride < u * Stride + Stride /\ t * Stride >= u * Stride
    BY <1>2, <1>4, <1>6, <2>1, <2>2, <2>3, <2>4
  <2>6. t <= u /\ t >= u
    BY <2>3, <2>5, TimesOrder
  <2>7. t = u
    BY <2>6
  <2>8. e = Read(base[w] + l)
    BY <1>2, <2>1, <2>2, <2>7
  <2>9. Real(e)
    BY <1>3 DEF Items
  <2>10. l \in Given(w)
    BY <2>8, <2>9 DEF Given
  <2> QED
    BY <2>8, <2>10
<1> QED
  BY <1>5, <1>6

LEMMA AddGather ==
  ASSUME Shape, TmpPairs, blk \in Nat, LaunchInv, NEW w \in Warps, Add(w), NEW m, GatheredIn(m)
  PROVE  GatheredIn(nwarps)'
<1>1. PICK b : Added1(w, b)
  BY AddDoes
<1>2. SameLaunch /\ sub' = sub /\ base' = [base EXCEPT ![w] = @ + Stride]
  BY AddDoes
<1>3. TreeInv /\ WarpsOK /\ QueuesOK /\ PhasesOK
  BY DEF LaunchInv
<1>4. nwarps \in Nat \ {0} /\ WarpSize \in Nat \ {0} /\ nwarps' = nwarps /\ Subwarps' = Subwarps
  BY <1>2, ShapeFacts, Rigid
<1>5. \A s \in Subwarps : sub[s].nwarps = nwarps
  <2>1. 0 \in Lanes
    BY <1>4 DEF Lanes
  <2>2. Lane(0, w) \in Subwarps /\ Lane(0, w) \div PerWarp = w
    BY <2>1, LaneFacts
  <2>3. sub[Lane(0, w)].pc = "add"
    BY <2>2 DEF Add, Adding, SubwarpsOf
  <2> QED
    BY <2>2, <2>3, NobodyMerged
<1>6. GatheredIn(nwarps)
  <2>1. 0 \in Subwarps
    BY <1>4 DEF Subwarps
  <2>2. nwarps \in Nat /\ GatheredIn(m)
    BY <1>4
  <2> QED
    BY <1>5, <2>1, <2>2, Regather, Zenon
<1>7. \A s \in Subwarps : InTree(nwarps, s)'
  <2> SUFFICES ASSUME NEW s \in Subwarps PROVE InTree(nwarps, s)'
    OBVIOUS
  <2>1. s \in Nat /\ s < nwarps
    BY <1>4 DEF Subwarps
  <2>2. s >= Half(nwarps) => s - Half(nwarps) \in Subwarps
    BY <1>4, <2>1, Halves DEF Half, Subwarps
  <2> QED
    BY <1>2, <1>4, <1>5, <2>1, <2>2 DEF InTree
<1>8. /\ \A s \in Subwarps, e \in Pairs :
           Speaks(Held(queue, buf, s), e) => Speaks(Held(queue', buf', s), e)
      /\ \A l \in Added(w) : \E s \in Subwarps : Speaks(Held(queue', buf', s), Read(base[w] + l))
  BY <1>1, <1>3, AddedSpeaks
<1>9. Items \in SUBSET Pairs
  BY ItemsFacts
<1>10. ASSUME NEW e \in Seen
       PROVE  \E s \in Subwarps : Speaks(Held(queue', buf', s), e)
  BY <1>6, <1>8, <1>9 DEF GatheredIn, Seen
<1>11. ASSUME NEW l \in Given(w)
       PROVE  \E s \in Subwarps : Speaks(Held(queue', buf', s), Read(base[w] + l))
  <2>1. CASE l \in Added(w)
    BY <1>8, <2>1
  <2>2. CASE l \notin Added(w)
    <3> DEFINE e == Read(base[w] + l)
               s == Lane(l, w)
    <3>1. e \in Items /\ e \in Pairs /\ l \in Lanes
      BY <1>3, <1>9, GivenItems
    <3>2. ~Passes(s, e)
      BY <2>2 DEF Added
    <3>3. s \in Subwarps
      BY <3>1, LaneFacts
    <3> HIDE DEF e, s
    <3>4. queue[s] \in SUBSET Items /\ Held(queue, buf, s) \in SUBSET Items
      <4>1. \A v \in Warps : \A x \in Lanes : buf[v][x] \in SUBSET Items
        BY <1>3 DEF WarpsOK, BufOK
      <4>2. queue[s] \in SUBSET Items
        BY <1>3, <3>3 DEF QueuesOK
      <4> QED
        BY <3>3, <4>1, <4>2, BufferedItems DEF Held
    <3>5. /\ IsFiniteSet(queue[s]) /\ queue[s] \in SUBSET Pairs /\ select_min \in BOOLEAN
          /\ Trimmed \in Nat
      BY <3>4, ItemSets
    <3>6. {x \in queue[s] : ~Better(e, x)} = AsGood(select_min, queue[s], e)
      BY <3>1, <3>5, BestIs DEF AsGood
    <3>7. Cardinality(AsGood(select_min, queue[s], e)) >= Trimmed
      <4>1. ~(Cardinality(AsGood(select_min, queue[s], e)) < Trimmed)
        BY <3>2, <3>6 DEF Passes
      <4>2. IsFiniteSet(AsGood(select_min, queue[s], e))
        BY <3>5, FS_Subset DEF AsGood
      <4>3. Cardinality(AsGood(select_min, queue[s], e)) \in Nat
        BY <4>2, FS_CardinalityType
      <4> QED
        BY <3>5, <4>1, <4>3
    <3>8. Speaks(queue[s], e)
      BY <3>7 DEF Speaks, Covered
    <3>9. queue[s] \in SUBSET Held(queue, buf, s)
      BY DEF Held
    <3>10. Speaks(Held(queue, buf, s), e)
      BY <3>1, <3>4, <3>8, <3>9, SpeaksFor
    <3> QED
      BY <1>8, <3>1, <3>3, <3>10 DEF e
  <2> QED
    BY <2>1, <2>2
<1>12. \A e \in Seen' : \E s \in Subwarps : Speaks(Held(queue', buf', s), e)
  BY <1>2, <1>3, <1>10, <1>11, SeenMore
<1>13. \A e \in Seen' : \E s \in Subwarps : InTree(nwarps, s)' /\ Speaks(Held(queue, buf, s), e)'
  BY <1>2, <1>7, <1>12, SpeaksSame
<1> QED
  BY <1>2, <1>4, <1>5, <1>13 DEF GatheredIn

(* Who loads goes on to the next round: the others are in this round, or     *)
(* there already. If it had been a round ahead, all would be in that one.    *)
LEMMA LoadRound ==
  ASSUME Shape, LaunchInv, NEW u \in Subwarps, sub[u].pc = "load", Arrived(u), NEW m, GatheredIn(m)
  PROVE  /\ GatheredIn(sub[u].nwarps)
         /\ \A t \in Subwarps : sub[t].pc # "add"
<1>1. TreeInv /\ Domains /\ Barriers /\ Agreement /\ nwarps \in Int /\ \A t \in Subwarps : SubOK(t)
  BY SubTypes DEF LaunchInv, TreeInv
<1>2. nwarps \in Nat \ {0}
  BY ShapeFacts
<1>3. Round(u) = sub[u].arrived /\ Round(u) \in Nat \ {0} /\ FirstRound \in Nat \ {0} /\ Round(u) >= FirstRound
  BY <1>1, SubwarpFacts DEF SubOK
<1>4. \A t \in Subwarps : sub[t].pc # "add"
  BY <1>1, <1>3 DEF Arrived, SubOK
<1>5. m \in Nat \ {0} /\ \A t \in Subwarps : sub[t].nwarps \in {m, Half(m)}
  BY DEF GatheredIn
<1>6. CASE sub[u].nwarps = m
  BY <1>4, <1>6
<1>7. CASE sub[u].nwarps # m
  <2>1. sub[u].nwarps = Half(m) /\ Half(m) \in Nat \ {0} /\ Half(m) < m
    BY <1>5, <1>7, Halves DEF Half
  <2>2. ASSUME NEW t \in Subwarps PROVE sub[t].nwarps = Half(m)
    <3>1. Round(t) \in Nat /\ sub[t].arrived \in Nat /\ sub[t].arrived <= Round(t)
      BY <1>1, SubwarpFacts DEF SubOK
    <3>2. Round(t) >= Round(u)
      BY <1>3, <3>1 DEF Arrived
    <3>3. Round(u) >= Round(t) - 1
      BY <1>1, Near
    <3>4. CASE Round(t) = Round(u)
      BY <1>1, <2>1, <3>4 DEF Agreement
    <3>5. CASE Round(t) = Round(u) + 1
      <4>1. sub[t].nwarps = Split(u)
        BY <1>1, <3>5 DEF Agreement
      <4>2. sub[t].nwarps = Half(Half(m))
        BY <2>1, <4>1 DEF Split, Half
      <4>3. Half(Half(m)) <= Half(m)
        BY <2>1, Halves DEF Half
      <4>4. Half(Half(m)) # m
        <5> DEFINE h == Half(m)
        <5>1. h \in Nat /\ h < m /\ Half(h) <= h /\ Half(h) \in Nat /\ m \in Nat
          BY <1>5, <2>1, <4>3, Halves DEF Half
        <5> HIDE DEF h
        <5>2. Half(h) # m
          BY <5>1
        <5> QED
          BY <5>2 DEF h
      <4> QED
        BY <1>5, <4>2, <4>4
    <3> QED
      BY <1>3, <3>1, <3>2, <3>3, <3>4, <3>5
  <2>3. 0 \in Subwarps /\ nwarps \in Nat
    BY <1>2 DEF Subwarps
  <2>4. GatheredIn(Half(m))
    BY <2>2, <2>3, Regather
  <2> QED
    BY <1>4, <2>1, <2>4
<1> QED
  BY <1>6, <1>7

LEMMA LoadGather ==
  ASSUME Shape, TmpPairs, LaunchInv, NEW u \in Subwarps, Load(u), NEW c, GatheredIn(c)
  PROVE  \E m : GatheredIn(m)'
<1>0. PICK m : m = sub[u].nwarps
  OBVIOUS
<1>1. /\ SameLaunch /\ UNCHANGED <<base, buf, tmp, out, where>>
      /\ sub[u].pc = "load" /\ Arrived(u)
      /\ sub'[u].nwarps = Split(u) /\ \A t \in Subwarps \ {u} : sub'[t] = sub[t] /\ queue'[t] = queue[t]
      /\ u >= sub[u].nwarps - Split(u) => queue'[u] = queue[u]
      /\ u < sub[u].nwarps - Split(u)
           => /\ u + Split(u) \in Subwarps
              /\ queue'[u] = Best(queue[u] \cup Best(queue[u + Split(u)], Trimmed), Capacity)
  BY LoadLaunch
<1>2. GatheredIn(m) /\ \A t \in Subwarps : sub[t].pc # "add"
  BY <1>0, <1>1, LoadRound
<1>3. /\ m \in Nat \ {0} /\ Split(u) = Half(m) /\ Half(m) \in Nat \ {0}
      /\ m - Half(m) <= Half(m) /\ Half(m) <= m
  BY <1>0, <1>2, Halves DEF GatheredIn, Split, Half
<1>4. nwarps \in Nat /\ \A s \in Subwarps : s \in Nat /\ s < nwarps
  <2>1. nwarps \in Nat
    BY ShapeFacts
  <2> QED
    BY <2>1 DEF Subwarps
<1>5. QueuesOK /\ WarpsOK
  BY DEF LaunchInv
<1>6. ASSUME NEW s \in Subwarps
      PROVE  /\ Held(queue, buf, s) = queue[s]
             /\ queue[s] \in SUBSET Items
  <2>1. \A l \in Lanes : buf[s \div PerWarp][l] = {}
    BY <1>2, Emptied
  <2>2. Buffered(buf, s) = {}
    BY <2>1, BufferedFacts
  <2> QED
    BY <1>5, <2>2 DEF Held, QueuesOK
<1>7. ASSUME NEW s \in Subwarps
      PROVE  Held(queue', buf', s) = queue'[s] /\ queue'[s] \in SUBSET Items
  <2>1. \A l \in Lanes : buf[s \div PerWarp][l] = {}
    BY <1>2, Emptied
  <2>2. Buffered(buf, s) = {}
    BY <2>1, BufferedFacts
  <2>3. QueuesOK' /\ Subwarps' = Subwarps /\ Items' = Items
    BY <1>1, LoadLaunch, Rigid DEF LaunchInv
  <2> QED
    BY <1>1, <2>2, <2>3 DEF Held, QueuesOK
<1>8. Trimmed \in Nat /\ Capacity \in Nat /\ Trimmed <= Capacity
  BY <1>6, ItemSets
<1>9. Items \in SUBSET Pairs
  BY ItemsFacts
<1>10. ASSUME u < m - Half(m), NEW e \in Pairs,
              Speaks(queue[u], e) \/ Speaks(queue[u + Half(m)], e)
       PROVE  Speaks(queue'[u], e)
  <2> DEFINE B == Best(queue[u + Half(m)], Trimmed)
             S == queue[u] \cup B
  <2>1. u + Half(m) \in Subwarps /\ queue'[u] = Best(S, Capacity)
    BY <1>0, <1>1, <1>3, <1>10
  <2>2. queue[u] \in SUBSET Items /\ queue[u + Half(m)] \in SUBSET Items /\ queue'[u] \in SUBSET Items
    BY <1>6, <1>7, <2>1
  <2>3. B \in SUBSET Items
    BY <2>2, ItemSets
  <2>4. S \in SUBSET Items
    BY <2>2, <2>3
  <2>5. Speaks(S, e)
    <3>1. CASE Speaks(queue[u], e)
      <4>1. queue[u] \in SUBSET S
        OBVIOUS
      <4> HIDE DEF S, B
      <4> QED
        BY <2>2, <2>4, <3>1, <4>1, SpeaksFor
    <3>2. CASE Speaks(queue[u + Half(m)], e)
      <4>1. Best(queue[u + Half(m)], Trimmed) \in SUBSET S
        OBVIOUS
      <4> HIDE DEF S, B
      <4> QED
        BY <1>8, <2>2, <2>4, <3>2, <4>1, SpeaksFor
    <3> QED
      BY <1>10, <3>1, <3>2
  <2> HIDE DEF S, B
  <2>6. Best(S, Capacity) \in SUBSET queue'[u]
    BY <2>1
  <2> QED
    BY <1>8, <2>2, <2>4, <2>5, <2>6, SpeaksFor
<1>11. ASSUME NEW e \in Pairs, Speaks(queue[u], e) PROVE Speaks(queue'[u], e)
  <2>1. CASE u < m - Half(m)
    BY <1>10, <1>11, <2>1
  <2>2. CASE ~(u < m - Half(m))
    <3>1. u >= sub[u].nwarps - Split(u)
      BY <1>0, <1>3, <1>4, <2>2
    <3> QED
      BY <1>1, <1>11, <3>1
  <2> QED
    BY <2>1, <2>2
<1>12. ASSUME NEW e \in Seen
       PROVE  \E s \in Subwarps : InTree(m, s)' /\ Speaks(Held(queue', buf', s), e)
  <2>1. e \in Pairs
    BY <1>9 DEF Seen
  <2>2. PICK s \in Subwarps : InTree(m, s) /\ Speaks(queue[s], e)
    BY <1>2, <1>6 DEF GatheredIn
  <2>3. s \in Nat /\ s < m /\ u \in Nat
    BY <1>4, <2>2 DEF InTree
  <2>4. CASE s >= Half(m) /\ s - Half(m) = u
    <3>1. u < m - Half(m) /\ s = u + Half(m)
      BY <1>3, <2>3, <2>4
    <3>2. Speaks(queue'[u], e)
      BY <1>10, <2>1, <2>2, <3>1
    <3>3. u < m /\ ~(u >= Half(m))
      BY <1>3, <2>3, <3>1
    <3>4. InTree(m, u)'
      BY <3>3 DEF InTree
    <3> QED
      BY <1>7, <3>2, <3>4
  <2>5. CASE ~(s >= Half(m) /\ s - Half(m) = u)
    <3>1. s >= Half(m) => s - Half(m) \in Subwarps \ {u}
      BY <1>3, <1>4, <2>3, <2>5 DEF Subwarps
    <3>2. InTree(m, s)'
      BY <1>1, <2>2, <3>1 DEF InTree
    <3>3. Speaks(queue'[s], e)
      BY <1>1, <1>11, <2>1, <2>2
    <3> QED
      BY <1>7, <3>2, <3>3
  <2> QED
    BY <2>4, <2>5
<1>13. Seen' = Seen /\ Subwarps' = Subwarps
  BY <1>1, SeenSame, Rigid
<1>14. \A s \in Subwarps : sub'[s].nwarps \in {m, Half(m)}
  BY <1>0, <1>1, <1>2, <1>3 DEF GatheredIn
<1>15. \A e \in Seen' : \E s \in Subwarps' : InTree(m, s)' /\ Speaks(Held(queue, buf, s), e)'
  BY <1>1, <1>12, <1>13, SpeaksSame
<1>16. GatheredIn(m)'
  BY <1>3, <1>13, <1>14, <1>15 DEF GatheredIn
<1> QED
  BY <1>16

(* What the first subwarp has at the end speaks for all that the block has.  *)
LEMMA EndGathered ==
  ASSUME Shape, TmpPairs, blk \in Nat, LaunchInv, NEW m, GatheredIn(m),
         sub[0].pc \in {"store", "end"}, sub[0].nwarps = 1,
         NEW p \in 0..(Size - 1), (p % Stride) \div Blockdim = blk, Real(Read(p))
  PROVE  Speaks(queue[0], Read(p))
<1>1. nwarps \in Nat \ {0} /\ Size \in Nat /\ p \in Nat
  BY ShapeFacts
<1>2. 0 \in Subwarps /\ \A s \in Subwarps : s \in Nat /\ s < nwarps
  BY <1>1 DEF Subwarps
<1>3. TreeInv /\ WarpsOK /\ PhasesOK
  BY DEF LaunchInv
<1>4. \A s \in Subwarps : sub[s].pc # "add"
  <2> SUFFICES ASSUME NEW s \in Subwarps, sub[s].pc = "add" PROVE FALSE
    OBVIOUS
  <2>1. sub[0].nwarps = nwarps /\ s # 0
    BY <1>2, NobodyMerged
  <2> QED
    BY <1>1, <1>2, <2>1
<1>5. ASSUME NEW w \in Warps PROVE base[w] >= Size /\ base[w] \in Nat
  <2>1. \E s \in SubwarpsOf(w) : sub[s].pc # "add"
    <3>1. 0 \in Lanes
      <4>1. WarpSize \in Nat \ {0}
        BY ShapeFacts
      <4> QED
        BY <4>1 DEF Lanes
    <3>2. Lane(0, w) \in Subwarps /\ Lane(0, w) \div PerWarp = w
      BY <3>1, LaneFacts
    <3> QED
      BY <1>4, <3>2 DEF SubwarpsOf
  <2> QED
    BY <1>3, <2>1 DEF PhasesOK, WarpsOK
<1>6. PICK w \in Warps, t \in Nat, l \in Lanes : p = Place(blk, w, t, l)
  BY <1>1, EveryPlace
<1>7. p = First(w) + t * Stride + l
  BY <1>6 DEF Place, First
<1>8. First(w) \in Nat /\ t * Stride \in Nat /\ l \in Nat
  BY ReadTypes
<1>9. First(w) + t * Stride < base[w]
  BY <1>1, <1>5, <1>7, <1>8
<1>10. Read(p) \in Seen
  <2>1. Read(p) \in Items
    BY <1>1, ItemsFacts
  <2> QED
    BY <1>1, <1>7, <1>9, <2>1 DEF Seen
<1>11. PICK s \in Subwarps : InTree(m, s) /\ Speaks(Held(queue, buf, s), Read(p))
  BY <1>10 DEF GatheredIn
<1>12. s = 0
  <2>1. m \in Nat \ {0} /\ 1 \in {m, Half(m)}
    BY <1>2 DEF GatheredIn
  <2>2. m = 1 \/ m = 2
    <3>1. Half(m) = 1 => m <= 2
      <4>1. m - (m + 1) \div 2 <= (m + 1) \div 2 /\ (m + 1) \div 2 \in Nat
        BY <2>1, Halves
      <4> QED
        BY <2>1, <4>1 DEF Half
    <3> QED
      BY <2>1, <3>1
  <2>3. CASE m = 1
    BY <1>2, <1>11, <2>3 DEF InTree
  <2>4. CASE m = 2
    <3>1. Half(2) = 1
      BY DEF Half
    <3>2. ~(s = 1)
      <4>1. 1 - 1 = 0
        OBVIOUS
      <4> QED
        BY <1>11, <2>4, <3>1, <4>1 DEF InTree
    <3> QED
      BY <1>2, <1>11, <2>4, <3>2 DEF InTree
  <2> QED
    BY <2>2, <2>3, <2>4
<1>13. Held(queue, buf, 0) = queue[0]
  <2>1. \A l2 \in Lanes : buf[0 \div PerWarp][l2] = {}
    BY <1>2, <1>4, Emptied
  <2>2. Buffered(buf, 0) = {}
    BY <1>2, <2>1, BufferedFacts
  <2> QED
    BY <2>2 DEF Held
<1> QED
  BY <1>11, <1>12, <1>13

(* What is stored are the elements of the result, one after the other.       *)
LEMMA StoredAll ==
  ASSUME Shape, TmpPairs, LaunchInv
  PROVE  /\ Result \in SUBSET Items /\ Result \in SUBSET Pairs /\ IsFiniteSet(Result)
         /\ Cardinality(Result) \in Nat /\ Cardinality(Result) <= Trimmed
         /\ Result = Foremost(select_min, queue[0], Trimmed)
         /\ \A x \in Result : \E i \in 0..(Trimmed - 1) : Stored(i) = x
         /\ \A i \in Nat : i < Cardinality(Result)
              => Stored(i) \in Result /\ Cardinality(Lower(select_min, Result, Stored(i))) = i
<1>1. 0 \in Subwarps /\ Result \in SUBSET queue[0] /\ Result \in SUBSET Items
  BY StoredFacts
<1>2. queue[0] \in SUBSET Items
  BY <1>1 DEF LaunchInv, QueuesOK
<1>3. /\ IsFiniteSet(Result) /\ Result \in SUBSET Pairs /\ Cardinality(Result) \in Nat
      /\ select_min \in BOOLEAN /\ Trimmed \in Nat
  BY <1>1, ItemSets
<1>4. Result = Foremost(select_min, queue[0], Trimmed) /\ Cardinality(Result) <= Trimmed
  BY <1>2, <1>3, ItemSets DEF Result
<1>5. \A x \in Result : {y \in Result : Precedes(y, x)} = Lower(select_min, Result, x)
  BY <1>3, BestIs DEF Lower
<1> DEFINE rank(x) == Cardinality(Lower(select_min, Result, x))
           at(i) == {x \in Result : rank(x) = i}
<1>6. \A i : Stored(i) = IF at(i) = {} THEN Dummy ELSE CHOOSE x \in at(i) : TRUE
  <2> TAKE i
  <2> DEFINE A == {x \in Result : Cardinality({y \in Result : Precedes(y, x)}) = i}
  <2>1. A = at(i)
    BY <1>5
  <2>2. Stored(i) = IF A = {} THEN Dummy ELSE CHOOSE x \in A : TRUE
    BY DEF Stored
  <2> HIDE DEF A
  <2> QED
    BY <2>1, <2>2
<1>7. \A x \in Result : rank(x) \in Nat /\ rank(x) < Cardinality(Result)
  BY <1>3, RankFacts
<1>8. \A x, y \in Result : rank(x) = rank(y) => x = y
  BY <1>3, RankFacts
<1>9. \A i \in Nat : i < Cardinality(Result) => at(i) # {}
  BY <1>3, RankExists
<1> HIDE DEF rank
<1>10. \A i : at(i) # {} => Stored(i) \in at(i)
  BY <1>6
<1>11. \A i \in Nat : i < Cardinality(Result) => Stored(i) \in Result /\ rank(Stored(i)) = i
  BY <1>9, <1>10
<1>12. ASSUME NEW x \in Result
       PROVE  \E i \in 0..(Trimmed - 1) : Stored(i) = x
  <2>1. rank(x) \in 0..(Trimmed - 1)
    BY <1>3, <1>4, <1>7
  <2>2. Stored(rank(x)) \in at(rank(x))
    BY <1>10
  <2>3. Stored(rank(x)) = x
    BY <1>8, <2>2
  <2> QED
    BY <2>1, <2>3
<1> QED
  BY <1>1, <1>3, <1>4, <1>11, <1>12 DEF rank

-----------------------------------------------------------------------------
(* What the host and the queues take for granted of a row: it is no shorter  *)
(* than k in a launch of several blocks, and no key is kDummy.               *)
Whole == /\ n >= k \/ num_of_block = 1
         /\ \A i \in 0..(n - 1) : Real(Element(i))

(* What a block has written, once its first subwarp is at the end.           *)
Written(i) == IF merging \/ num_of_block = 1 THEN out[i] ELSE tmp[blk * k + i]
Finished == sub[0].pc = "end" =>
  sub[0].nwarps = 1 /\ \A i \in 0..(Trimmed - 1) : Written(i) = Stored(i)

(* The results of the first launch: those of a block are elements of the row *)
(* and speak for all the block has read.                                     *)
Owner(p) == (p % (num_of_block * Blockdim)) \div Blockdim
BlockItems(b) == {tmp[b * k + i] : i \in {j \in 0..(k - 1) : Real(tmp[b * k + j])}}
TmpBlock(b) ==
  /\ BlockItems(b) \in SUBSET {Element(i) : i \in 0..(n - 1)}
  /\ \A p \in 0..(n - 1) : Owner(p) = b => Covered(select_min, k, BlockItems(b), Element(p))
TmpInv == \A b \in 0..(num_of_block - 1) : num_of_block # 1 /\ (merging \/ b < blk) => TmpBlock(b)

LEMMA StoredSame ==
  ASSUME SameLaunch, queue'[0] = queue[0]
  PROVE  Result' = Result /\ \A i : Stored(i)' = Stored(i)
<1>1. Trimmed' = Trimmed /\ select_min' = select_min
  BY Rigid
<1>2. \A a, b : Precedes(a, b)' <=> Precedes(a, b)
  BY <1>1 DEF Precedes, Better, Twiddle
<1>3. Result' = Result
  BY <1>1, <1>2 DEF Result, Best
<1>4. Dummy' = Dummy
  BY <1>1 DEF Dummy, Bound
<1>5. ASSUME NEW i PROVE Stored(i)' = Stored(i)
  <2> DEFINE at == {x \in Result : Cardinality({y \in Result : Precedes(y, x)}) = i}
  <2>1. \A x : {y \in Result : Precedes(y, x)}' = {y \in Result : Precedes(y, x)}
    BY <1>2, <1>3
  <2>2. at' = at
    BY <1>3, <2>1
  <2>3. /\ Stored(i) = IF at = {} THEN Dummy ELSE CHOOSE x \in at : TRUE
        /\ Stored(i)' = IF at' = {} THEN Dummy' ELSE CHOOSE x \in at' : TRUE
    BY DEF Stored
  <2> HIDE DEF at
  <2> QED
    BY <1>4, <2>2, <2>3
<1> QED
  BY <1>3, <1>5

LEMMA FinishedKeeps ==
  ASSUME SameLaunch, Finished, UNCHANGED <<out, tmp>>,
         sub'[0].pc = "end" => sub[0].pc = "end" /\ sub'[0].nwarps = sub[0].nwarps /\ queue'[0] = queue[0]
  PROVE  Finished'
<1> SUFFICES ASSUME sub'[0].pc = "end" PROVE Finished'
  BY DEF Finished
<1>1. \A i : Stored(i)' = Stored(i)
  BY StoredSame
<1>2. Trimmed' = Trimmed /\ UNCHANGED <<merging, num_of_block, blk, k>>
  BY Rigid
<1>3. \A i : Written(i)' = Written(i)
  BY <1>2 DEF Written
<1> QED
  BY <1>1, <1>2, <1>3 DEF Finished

LEMMA TmpBlockSame ==
  ASSUME Shape, UNCHANGED <<input, shape>>, NEW b, TmpBlock(b),
         \A i \in 0..(k - 1) : tmp'[b * k + i] = tmp[b * k + i]
  PROVE  TmpBlock(b)'
<1>1. Blockdim' = Blockdim /\ n' = n /\ UNCHANGED <<row, k, select_min, num_of_block>>
  BY SameShape
<1>2. /\ \A p : Owner(p)' = Owner(p)
      /\ \A i : Element(i)' = Element(i)
      /\ \A e : Real(e)' <=> Real(e)
  BY <1>1 DEF Owner, Element, Real, Bound
<1>3. BlockItems(b)' = BlockItems(b)
  BY <1>1, <1>2 DEF BlockItems
<1> QED
  BY <1>1, <1>2, <1>3 DEF TmpBlock

LEMMA TmpInvSame ==
  ASSUME Shape, TmpInv, UNCHANGED <<input, shape, merging, blk, tmp>>
  PROVE  TmpInv'
<1>1. num_of_block' = num_of_block
  BY DEF shape
<1>2. \A b : TmpBlock(b) => TmpBlock(b)'
  BY TmpBlockSame
<1> QED
  BY <1>1, <1>2 DEF TmpInv

LEMMA WholeSame ==
  ASSUME Shape, Whole, UNCHANGED <<input, shape>>
  PROVE  Whole'
<1>1. n' = n /\ UNCHANGED <<row, k, select_min, num_of_block>>
  BY SameShape
<1> QED
  BY <1>1 DEF Whole, Real, Element, Bound

(* The row of a launch that reads the row itself.                            *)
LEMMA RowItems ==
  ASSUME Shape, Whole, merging = FALSE
  PROVE  /\ Size = n /\ \A i \in 0..(n - 1) : Read(i) = Element(i) /\ Real(Read(i))
         /\ Items = {Element(i) : i \in 0..(n - 1)}
         /\ num_of_block # 1 => Trimmed = k
<1>1. n \in Nat /\ k \in Nat \ {0}
  BY ShapeFacts DEF Shape
<1>2. Size = n
  BY DEF Size
<1>3. \A i \in 0..(n - 1) : Read(i) = Element(i) /\ Real(Read(i))
  BY <1>1, <1>2 DEF Read, Whole
<1>4. {j \in 0..(Size - 1) : Real(Read(j))} = 0..(n - 1)
  BY <1>2, <1>3
<1>5. Items = {Element(i) : i \in 0..(n - 1)}
  BY <1>3, <1>4 DEF Items
<1>6. num_of_block # 1 => Trimmed = k
  BY <1>1, <1>2 DEF Trimmed, Smaller, Whole
<1> QED
  BY <1>2, <1>3, <1>5, <1>6

(* The best of the first queue speak for all that the block has read.        *)
LEMMA ResultSpeaks ==
  ASSUME Shape, TmpPairs, LaunchInv, NEW e \in Pairs, Speaks(queue[0], e)
  PROVE  Speaks(Result, e)
<1>1. 0 \in Subwarps /\ queue[0] \in SUBSET Items
  BY StoredFacts DEF LaunchInv, QueuesOK
<1>2. /\ IsFiniteSet(queue[0]) /\ queue[0] \in SUBSET Pairs
      /\ select_min \in BOOLEAN /\ Trimmed \in Nat
  BY <1>1, ItemSets
<1>3. Result = Foremost(select_min, queue[0], Trimmed)
  BY StoredAll
<1>4. Trimmed <= Trimmed
  BY <1>2
<1> QED
  BY <1>2, <1>3, <1>4, CoverFirst DEF Speaks

(* A block of the first launch leaves its results.                           *)
LEMMA BlockDone ==
  ASSUME Shape, TmpPairs, Whole, blk \in 0..(num_of_block - 1), LaunchInv, Finished, NEW m, GatheredIn(m),
         merging = FALSE, num_of_block # 1, sub[0].pc = "end"
  PROVE  TmpBlock(blk)
<1>1. /\ n \in Nat /\ k \in Nat \ {0} /\ num_of_block \in Nat \ {0} /\ blk \in Nat
  BY ShapeFacts DEF Shape
<1>2. /\ Size = n /\ \A i \in 0..(n - 1) : Read(i) = Element(i) /\ Real(Read(i))
      /\ Items = {Element(i) : i \in 0..(n - 1)}
      /\ Trimmed = k
  BY RowItems
<1>3. /\ Result \in SUBSET Items /\ Result \in SUBSET Pairs
      /\ \A x \in Result : \E i \in 0..(k - 1) : Stored(i) = x
  BY <1>2, StoredAll
<1>4. \A i : Stored(i) \in Result \cup {Dummy}
  BY StoredFacts
<1>5. sub[0].nwarps = 1 /\ \A i \in 0..(k - 1) : tmp[blk * k + i] = Stored(i)
  BY <1>2 DEF Finished, Written
<1>6. \A x \in Result : Real(x)
  BY <1>3 DEF Items
<1>7. ~Real(Dummy)
  BY DEF Real, Dummy
<1>8. BlockItems(blk) = Result
  <2>1. ASSUME NEW x \in BlockItems(blk) PROVE x \in Result
    <3>1. PICK i \in 0..(k - 1) : Real(tmp[blk * k + i]) /\ x = tmp[blk * k + i]
      BY DEF BlockItems
    <3> QED
      BY <1>4, <1>5, <1>7, <3>1
  <2>2. ASSUME NEW x \in Result PROVE x \in BlockItems(blk)
    <3>1. PICK i \in 0..(k - 1) : Stored(i) = x
      BY <1>3
    <3>2. tmp[blk * k + i] = x /\ Real(x)
      BY <1>5, <1>6, <3>1
    <3> QED
      BY <3>2 DEF BlockItems
  <2> QED
    BY <2>1, <2>2
<1>9. ASSUME NEW p \in 0..(n - 1), Owner(p) = blk
      PROVE  Covered(select_min, k, BlockItems(blk), Element(p))
  <2>1. Stride = num_of_block * Blockdim
    BY ShapeFacts DEF NumBlocks
  <2>2. (p % Stride) \div Blockdim = blk
    BY <1>9, <2>1 DEF Owner
  <2>3. Speaks(queue[0], Read(p))
    BY <1>1, <1>2, <1>5, <2>2, EndGathered
  <2>4. Element(p) \in Pairs /\ Read(p) = Element(p)
    BY <1>2, ItemsFacts
  <2> QED
    BY <1>2, <1>8, <2>3, <2>4, ResultSpeaks DEF Speaks
<1> QED
  BY <1>2, <1>3, <1>8, <1>9 DEF TmpBlock

(* What a launch has seen, and what it leaves, from Begin to the end.        *)
Covering ==
  /\ LaunchInv /\ Finished /\ TmpInv
  /\ merging => num_of_block # 1
  /\ \E m : GatheredIn(m)
  /\ where # "warpsort" => sub[0].pc = "end" /\ (merging \/ num_of_block = 1)

LEMMA StartGather ==
  ASSUME Shape, NEW b \in Nat, StartOfBlock(b), blk' = b, UNCHANGED <<input, shape>>
  PROVE  GatheredIn(nwarps)' /\ sub'[0].pc = "add"
<1>1. /\ Warps' = Warps /\ Subwarps' = Subwarps /\ Blockdim' = Blockdim
      /\ nwarps' = nwarps /\ Stride' \in Nat
  BY SameShape
<1>2. Blockdim \in Nat /\ WarpSize \in Nat /\ nwarps \in Nat \ {0} /\ \A w \in Warps : w \in Nat
  BY ShapeFacts
<1>3. /\ base' = [w \in Warps |-> b * Blockdim + w * WarpSize]
      /\ sub' = [s \in Subwarps |-> [pc |-> "add", arrived |-> 0, nwarps |-> nwarps, shift |-> TRUE]]
  BY DEF StartOfBlock
<1>4. 0 \in Subwarps
  BY <1>2 DEF Subwarps
<1>5. \A w \in Warps : base'[w] = First(w)' /\ First(w)' \in Nat
  <2> SUFFICES ASSUME NEW w \in Warps PROVE base'[w] = First(w)' /\ First(w)' \in Nat
    OBVIOUS
  <2>1. b * Blockdim \in Nat /\ w * WarpSize \in Nat
    BY <1>2
  <2>2. First(w)' = b * Blockdim + w * WarpSize
    BY <1>1 DEF First
  <2>3. base'[w] = b * Blockdim + w * WarpSize
    BY <1>3
  <2> QED
    BY <2>1, <2>2, <2>3
<1>6. ASSUME NEW w \in Warps, NEW t \in Nat PROVE ~(First(w)' + t * Stride' < base'[w])
  <2>1. \A x \in Nat : t * x \in Nat
    OBVIOUS
  <2>2. t * Stride' \in Nat
    BY <1>1, <2>1
  <2> QED
    BY <1>5, <2>2
<1>7. Seen' = {}
  BY <1>1, <1>6 DEF Seen
<1> QED
  BY <1>1, <1>2, <1>3, <1>4, <1>7 DEF GatheredIn

(* A launch, right after it has begun.                                       *)
LEMMA StartCovering ==
  ASSUME Shape, NEW b \in Nat, StartOfBlock(b), blk' = b, UNCHANGED <<input, shape>>,
         where' = "warpsort", TmpInv', merging' => num_of_block # 1
  PROVE  Covering'
<1>1. LaunchInv' /\ GatheredIn(nwarps)' /\ sub'[0].pc = "add" /\ num_of_block' = num_of_block
  BY StartLaunch, StartGather, SameShape
<1>2. Finished'
  BY <1>1 DEF Finished
<1>3. \E m : GatheredIn(m)'
  BY <1>1
<1> QED
  BY <1>1, <1>2, <1>3 DEF Covering

(* Nothing more is merged into the queue of a first subwarp at the end.      *)
LEMMA CoverWithin ==
  ASSUME Shape, Covering, SameLaunch, LaunchInv', UNCHANGED <<tmp, out>>,
         where' = "warpsort" \/ (sub[0].pc = "end" /\ (merging \/ num_of_block = 1) /\ sub' = sub),
         \E m : GatheredIn(m)',
         sub'[0].pc = "end" => sub[0].pc = "end" /\ sub'[0].nwarps = sub[0].nwarps /\ queue'[0] = queue[0]
  PROVE  Covering'
<1>1. UNCHANGED <<input, shape, merging, blk>>
  BY Rigid DEF input, shape
<1>2. Finished'
  BY FinishedKeeps DEF Covering
<1>3. TmpInv'
  BY <1>1, TmpInvSame DEF Covering
<1>4. num_of_block' = num_of_block
  BY <1>1 DEF shape
<1> QED
  BY <1>1, <1>2, <1>3, <1>4 DEF Covering

LEMMA ResultCovering ==
  ASSUME Shape, TmpPairs, blk \in 0..(num_of_block - 1), out \in [0..(k - 1) -> Entries],
         Covering, StoreResult
  PROVE  Covering'
<1>1. /\ LaunchInv' /\ SameLaunch /\ UNCHANGED <<base, buf, queue, where>>
      /\ \A t \in Subwarps : sub'[t].nwarps = sub[t].nwarps
  BY ResultLaunch DEF Covering
<1>2. /\ where = "warpsort" /\ sub[0].nwarps = 1
      /\ IF merging \/ num_of_block = 1
         THEN /\ out' = [i \in DOMAIN out |-> IF i < Trimmed THEN Stored(i) ELSE out[i]]
              /\ tmp' = tmp
         ELSE /\ tmp' = [i \in DOMAIN tmp |->
                           IF i \div k = blk /\ i % k < Trimmed THEN Stored(i % k) ELSE tmp[i]]
              /\ out' = out
  BY DEF StoreResult
<1>3. 0 \in Subwarps /\ nwarps \in Nat
  <2>1. nwarps \in Nat \ {0}
    BY ShapeFacts
  <2> QED
    BY <2>1 DEF Subwarps
<1>4. \A i : Stored(i)' = Stored(i)
  BY <1>1, StoredSame
<1>5. /\ Trimmed' = Trimmed /\ UNCHANGED <<merging, num_of_block, blk, k>>
      /\ UNCHANGED <<input, shape>>
  BY <1>1, Rigid DEF input, shape
<1>6. k \in Nat \ {0} /\ Trimmed \in Nat /\ Trimmed <= k /\ num_of_block \in Nat \ {0}
  BY ShapeFacts DEF Shape
<1>7. ASSUME NEW i \in 0..(Trimmed - 1)
      PROVE  Written(i)' = Stored(i)
  <2>1. i \in 0..(k - 1) /\ i < Trimmed
    BY <1>6
  <2>2. CASE merging \/ num_of_block = 1
    <3>1. DOMAIN out = 0..(k - 1)
      OBVIOUS
    <3>2. out'[i] = Stored(i)
      BY <1>2, <2>1, <2>2, <3>1
    <3> QED
      BY <1>5, <2>2, <3>2 DEF Written
  <2>3. CASE ~(merging \/ num_of_block = 1)
    <3> DEFINE j == blk * k + i
    <3>1. j \in 0..(num_of_block * k - 1) /\ j \div k = blk /\ j % k = i
      BY <1>6, <2>1, Within
    <3> HIDE DEF j
    <3>2. j \in DOMAIN tmp
      BY <3>1 DEF TmpPairs
    <3>3. tmp'[j] = Stored(i)
      BY <1>2, <2>1, <2>3, <3>1, <3>2
    <3> QED
      BY <1>5, <2>3, <3>3 DEF Written, j
  <2> QED
    BY <2>2, <2>3
<1>8. Finished'
  <2>1. sub'[0].nwarps = 1
    BY <1>1, <1>2, <1>3
  <2> QED
    BY <1>4, <1>5, <1>7, <2>1 DEF Finished
<1>9. TmpInv'
  <2>1. CASE merging \/ num_of_block = 1
    BY <1>2, <1>5, <2>1, TmpInvSame DEF Covering
  <2>2. CASE ~(merging \/ num_of_block = 1)
    <3>1. ASSUME NEW b \in 0..(num_of_block - 1), b < blk
          PROVE  TmpBlock(b)'
      <4>1. TmpBlock(b)
        BY <2>2, <3>1 DEF Covering, TmpInv
      <4>2. ASSUME NEW i \in 0..(k - 1) PROVE tmp'[b * k + i] = tmp[b * k + i]
        <5> DEFINE j == b * k + i
        <5>1. j \in 0..(num_of_block * k - 1) /\ j \div k = b
          BY <1>6, Within
        <5> HIDE DEF j
        <5>2. j \in DOMAIN tmp /\ b # blk
          BY <3>1, <5>1 DEF TmpPairs
        <5>3. tmp'[j] = tmp[j]
          BY <1>2, <2>2, <5>1, <5>2
        <5> QED
          BY <5>3 DEF j
      <4> QED
        BY <1>5, <4>1, <4>2, TmpBlockSame
    <3> QED
      BY <1>5, <2>2, <3>1 DEF TmpInv
  <2> QED
    BY <2>1, <2>2
<1>10. \E m : GatheredIn(m)'
  <2>1. PICK m : GatheredIn(m)
    BY DEF Covering
  <2>2. \A s \in Subwarps, e \in Pairs : Speaks(Held(queue, buf, s), e) => Speaks(Held(queue', buf', s), e)
    BY <1>1
  <2>3. GatheredIn(m)'
    BY <1>1, <1>3, <2>1, <2>2, GatherKeeps
  <2> QED
    BY <2>3
<1> QED
  BY <1>1, <1>2, <1>5, <1>8, <1>9, <1>10 DEF Covering

CoverInv ==
  /\ WarpInv /\ Whole /\ len_i = n
  /\ \/ where = "host"
     \/ where = "done" /\ csr /\ n = 0
     \/ where \in {"warpsort", "selected", "done"} /\ Covering

LEMMA InputSame ==
  ASSUME Shape, Whole, len_i = n, UNCHANGED <<input, shape>>
  PROVE  Whole' /\ (len_i = n)'
<1>1. n' = n /\ len_i' = len_i
  BY SameShape
<1> QED
  BY <1>1, WholeSame

(* Steps of warps and subwarps within a launch.                              *)
LEMMA AddCovering ==
  ASSUME Shape, TmpPairs, blk \in Nat, Covering, NEW w \in Warps, Add(w)
  PROVE  Covering'
<1>1. /\ SameLaunch /\ tmp' = tmp /\ sub' = sub /\ where' = where /\ out' = out
      /\ LaunchInv' /\ where = "warpsort"
  BY AddDoes, AddLaunch DEF Covering, Add, Adding
<1>2. PICK b : Added1(w, b)
  BY AddDoes DEF Covering
<1>3. \E m : GatheredIn(m)'
  <2>1. PICK m : GatheredIn(m)
    BY DEF Covering
  <2>2. GatheredIn(nwarps)'
    BY <2>1, AddGather DEF Covering
  <2> QED
    BY <2>2
<1>4. sub'[0].pc = "end" => queue'[0] = queue[0]
  <2> SUFFICES ASSUME sub[0].pc = "end" PROVE queue'[0] = queue[0]
    BY <1>1
  <2>1. 0 \in Subwarps
    BY StoredFacts DEF Covering
  <2>2. 0 \div PerWarp # w
    BY <2>1 DEF Add, Adding, SubwarpsOf
  <2>3. queue' = queue \/ queue' = Merged(w, b)
    BY <1>2 DEF Added1
  <2> QED
    BY <2>1, <2>2, <2>3 DEF Merged
<1> QED
  BY <1>1, <1>3, <1>4, CoverWithin

LEMMA DoneCovering ==
  ASSUME Shape, TmpPairs, Covering, NEW w \in Warps, Done(w)
  PROVE  Covering'
<1>1. /\ LaunchInv' /\ SameLaunch /\ base' = base /\ tmp' = tmp /\ out' = out /\ where' = where
      /\ \A s \in Subwarps, e \in Pairs :
           Speaks(Held(queue, buf, s), e) => Speaks(Held(queue', buf', s), e)
      /\ where = "warpsort" /\ queue' = Merged(w, buf)
  BY DoneLaunch DEF Covering, Done, Adding, MergeIn
<1>2. /\ \A s \in SubwarpsOf(w) : /\ s \in Subwarps /\ sub[s].pc = "add"
                                  /\ sub'[s].pc = AfterDone /\ sub'[s].nwarps = sub[s].nwarps
      /\ \A s \in Subwarps \ SubwarpsOf(w) : sub'[s] = sub[s]
  BY DoneSub DEF Covering, LaunchInv
<1>3. 0 \in Subwarps /\ nwarps \in Nat
  BY StoredFacts, ShapeFacts DEF Covering
<1>4. \A s \in Subwarps : sub'[s].nwarps = sub[s].nwarps
  BY <1>2
<1>5. \E m : GatheredIn(m)'
  <2>1. PICK m : GatheredIn(m)
    BY DEF Covering
  <2>2. GatheredIn(m)'
    BY <1>1, <1>3, <1>4, <2>1, GatherKeeps
  <2> QED
    BY <2>2
<1>6. sub'[0].pc = "end" => sub[0].pc = "end" /\ queue'[0] = queue[0]
  <2>1. CASE 0 \in SubwarpsOf(w)
    BY <1>2, <2>1 DEF AfterDone
  <2>2. CASE 0 \notin SubwarpsOf(w)
    <3>1. sub'[0] = sub[0] /\ 0 \div PerWarp # w
      BY <1>2, <1>3, <2>2 DEF SubwarpsOf
    <3> QED
      BY <1>1, <1>3, <3>1 DEF Merged
  <2> QED
    BY <2>1, <2>2
<1> QED
  BY <1>1, <1>3, <1>4, <1>5, <1>6, CoverWithin

LEMMA TreeCovering ==
  ASSUME Shape, TmpPairs, Covering, NEW s \in Subwarps, Sync(s) \/ Store(s) \/ Load(s)
  PROVE  Covering'
<1>1. 0 \in Subwarps /\ nwarps \in Nat /\ LaunchInv
  BY StoredFacts, ShapeFacts DEF Covering
<1>2. PICK m : GatheredIn(m)
  BY DEF Covering
<1>3. where = "warpsort"
  BY DEF Sync, Store, Load
<1>4. CASE Sync(s)
  <2>1. /\ LaunchInv' /\ SameLaunch /\ UNCHANGED <<base, buf, queue, tmp, out, where>>
        /\ \A t \in Subwarps : sub'[t].nwarps = sub[t].nwarps
        /\ sub'[0].pc = "end" <=> sub[0].pc = "end"
    BY <1>1, <1>4, SyncLaunch
  <2>2. \A t \in Subwarps, e \in Pairs : Speaks(Held(queue, buf, t), e) => Speaks(Held(queue', buf', t), e)
    BY <2>1
  <2>3. GatheredIn(m)'
    BY <1>1, <1>2, <2>1, <2>2, GatherKeeps
  <2> QED
    BY <1>1, <1>3, <2>1, <2>3, CoverWithin
<1>5. CASE Store(s)
  <2>1. /\ LaunchInv' /\ SameLaunch /\ UNCHANGED <<base, queue, tmp, out, where>>
        /\ \A t \in Subwarps : sub'[t].nwarps = sub[t].nwarps
        /\ \A t \in Subwarps : Held(queue', buf', t) = Held(queue, buf, t)
        /\ sub'[0].pc = "end" <=> sub[0].pc = "end"
    BY <1>1, <1>5, StoreLaunch
  <2>2. \A t \in Subwarps, e \in Pairs : Speaks(Held(queue, buf, t), e) => Speaks(Held(queue', buf', t), e)
    BY <2>1
  <2>3. GatheredIn(m)'
    BY <1>1, <1>2, <2>1, <2>2, GatherKeeps
  <2> QED
    BY <1>1, <1>3, <2>1, <2>3, CoverWithin
<1>6. CASE Load(s)
  <2>1. /\ LaunchInv' /\ SameLaunch /\ UNCHANGED <<base, buf, tmp, out, where>>
        /\ sub[s].pc = "load"
        /\ \A t \in Subwarps \ {s} : sub'[t] = sub[t] /\ queue'[t] = queue[t]
        /\ sub'[0].pc = "end" <=> sub[0].pc = "end"
    BY <1>1, <1>6, LoadLaunch
  <2>2. \E c : GatheredIn(c)'
    BY <1>1, <1>2, <1>6, LoadGather
  <2>3. sub'[0].pc = "end" => sub[0].pc = "end" /\ sub'[0].nwarps = sub[0].nwarps /\ queue'[0] = queue[0]
    BY <1>1, <2>1
  <2> QED
    BY <1>3, <2>1, <2>2, <2>3, CoverWithin
<1> QED
  BY <1>4, <1>5, <1>6

(* A block ends: the next begins, or the merge of what the blocks have       *)
(* left, or all is selected.                                                 *)
LEMMA EndCovering ==
  ASSUME WarpInv, Whole, LaunchInv, Covering, EndBlock
  PROVE  Covering' /\ UNCHANGED <<input, shape>> /\ where' \in {"warpsort", "selected"}
<1>1. /\ UNCHANGED <<input, shape, out, tmp>> /\ where = "warpsort" /\ sub[0].pc = "end"
      /\ IF merging \/ num_of_block = 1
         THEN /\ where' = "selected"
              /\ UNCHANGED <<merging, blk, base, buf, fill, queue, smem, sub>>
         ELSE /\ where' = where
              /\ IF blk = num_of_block - 1 THEN merging' = TRUE /\ blk' = 0
                 ELSE merging' = merging /\ blk' = blk + 1
              /\ StartOfBlock(blk')
  BY DEF EndBlock, BlockEnds
<1>2. Shape /\ TmpPairs /\ num_of_block' = num_of_block
  BY <1>1 DEF WarpInv, shape
<1>3. PICK m : GatheredIn(m)
  BY DEF Covering
<1>4. CASE merging \/ num_of_block = 1
  <2>1. UNCHANGED <<merging, blk, base, buf, fill, queue, smem, sub>> /\ where' = "selected"
    BY <1>1, <1>4
  <2>2. SameLaunch
    BY <1>1, <2>1 DEF SameLaunch, rigid, input, shape
  <2>3. LaunchInv'
    BY <1>2, <2>1, <2>2, QuietLaunch
  <2>4. nwarps \in Nat
    BY <1>2, ShapeFacts
  <2>5. /\ \A t \in Subwarps, e \in Pairs : Speaks(Held(queue, buf, t), e) => Speaks(Held(queue', buf', t), e)
        /\ \A t \in Subwarps : sub'[t].nwarps = sub[t].nwarps
    BY <2>1
  <2>6. GatheredIn(m)'
    BY <1>2, <1>3, <2>1, <2>2, <2>4, <2>5, GatherKeeps
  <2> QED
    BY <1>1, <1>2, <1>4, <2>1, <2>2, <2>3, <2>6, CoverWithin
<1>5. CASE ~(merging \/ num_of_block = 1)
  <2>1. num_of_block \in Nat \ {0} /\ blk \in 0..(num_of_block - 1) /\ merging = FALSE
    BY <1>2, <1>5 DEF Shape, WarpInv, NumBlocks
  <2>2. TmpBlock(blk)
    BY <1>1, <1>2, <1>3, <1>5, <2>1, BlockDone DEF Covering
  <2>3. ASSUME NEW b \in 0..(num_of_block - 1), merging' \/ b < blk' PROVE TmpBlock(b)'
    <3>1. b = blk \/ b < blk
      BY <1>1, <1>5, <2>1, <2>3
    <3>2. TmpBlock(b)
      BY <1>5, <2>2, <3>1 DEF Covering, TmpInv
    <3> QED
      BY <1>1, <1>2, <3>2, TmpBlockSame
  <2>4. TmpInv'
    BY <1>2, <2>3 DEF TmpInv
  <2>5. StartOfBlock(blk') /\ blk' \in Nat /\ where' = "warpsort"
    BY <1>1, <1>5, <2>1
  <2>6. PICK b \in Nat : StartOfBlock(b) /\ blk' = b
    BY <2>5
  <2>7. Covering'
    BY <1>1, <1>2, <1>5, <2>4, <2>5, <2>6, StartCovering
  <2> QED
    BY <1>1, <2>5, <2>7
<1> QED
  BY <1>1, <1>4, <1>5

LEMMA WarpsCovering ==
  ASSUME CoverInv, Warpsort
  PROVE  CoverInv'
<1>1. WarpInv' /\ WarpInv /\ Shape /\ TmpPairs /\ blk \in Nat
  <2>1. NumBlocks \in Nat
    BY ShapeFacts DEF WarpInv, CoverInv
  <2> QED
    BY <2>1, WarpStepInv DEF CoverInv, WarpInv
<1> SUFFICES UNCHANGED <<input, shape>> /\ where' \in {"warpsort", "selected"} /\ Covering'
  BY <1>1, InputSame DEF CoverInv
<1>2. CASE Begin
  <2>1. /\ where' = "warpsort" /\ StartOfBlock(0) /\ UNCHANGED <<input, shape, out, tmp, merging, blk>>
        /\ where = "host"
    BY <1>2 DEF Begin
  <2>2. blk = 0 /\ merging = FALSE
    BY <2>1 DEF WarpInv, CoverInv, NoLaunch
  <2>3. TmpInv'
    BY <2>1, <2>2 DEF TmpInv
  <2> QED
    BY <1>1, <2>1, <2>2, <2>3, StartCovering
<1>3. CASE where = "warpsort"
  <2>1. LaunchInv /\ Covering /\ DOMAIN base = Warps /\ DOMAIN sub = Subwarps
    BY <1>3 DEF CoverInv, Covering, LaunchInv, WarpsOK, TreeInv, Domains
  <2>2. ASSUME NEW w \in DOMAIN base, Add(w) \/ Done(w)
        PROVE  UNCHANGED <<input, shape>> /\ where' = "warpsort" /\ Covering'
    <3>1. UNCHANGED <<input, shape, where>>
      BY <2>2 DEF Add, Done
    <3> QED
      BY <1>1, <1>3, <2>1, <2>2, <3>1, AddCovering, DoneCovering
  <2>3. ASSUME NEW s \in DOMAIN sub, Sync(s) \/ Store(s) \/ Load(s)
        PROVE  UNCHANGED <<input, shape>> /\ where' = "warpsort" /\ Covering'
    <3>1. UNCHANGED <<input, shape, where>>
      BY <2>3 DEF Sync, Store, Load
    <3> QED
      BY <1>1, <1>3, <2>1, <2>3, <3>1, TreeCovering
  <2>4. CASE StoreResult
    <3>1. UNCHANGED <<input, shape, where>>
      BY <2>4 DEF StoreResult
    <3>2. blk \in 0..(num_of_block - 1) /\ out \in [0..(k - 1) -> Entries]
      <4>1. blk \in 0..(NumBlocks - 1) /\ num_of_block \in Nat \ {0} /\ out \in [0..(k - 1) -> Entries]
        BY <1>1 DEF WarpInv, Shape
      <4> QED
        BY <4>1 DEF NumBlocks
    <3> QED
      BY <1>1, <1>3, <2>1, <2>4, <3>1, <3>2, ResultCovering
  <2>5. CASE EndBlock
    BY <1>1, <2>1, <2>5, EndCovering DEF CoverInv
  <2> QED
    BY <1>3, <2>2, <2>3, <2>4, <2>5 DEF Warpsort, WarpNext, WarpActs, Begin
<1>4. CASE where # "warpsort"
  <2>1. Begin
    BY <1>4 DEF Warpsort, WarpNext, WarpActs, Add, Adding, Done, Sync, Store, Load, StoreResult, EndBlock, BlockEnds
  <2> QED
    BY <1>2, <2>1
<1> QED
  BY <1>3, <1>4

LEMMA CoverInitInv ==
  ASSUME Init, algo = "warpsort", Whole
  PROVE  CoverInv
<1>1. WarpInv
  BY WarpInitInv
<1>2. len_i = n /\ where = "host"
  BY DEF Init, SelectInit
<1> QED
  BY <1>1, <1>2 DEF CoverInv

LEMMA CoverNextInv ==
  ASSUME CoverInv, [Next]_vars
  PROVE  CoverInv'
<1>1. WarpInv' /\ WarpInv /\ Shape /\ TmpPairs
  BY WarpNextInv DEF CoverInv, WarpInv
<1>2. CASE Warpsort
  BY <1>2, WarpsCovering
<1>3. CASE Radix
  BY <1>1, <1>3 DEF Radix, WarpInv
<1>4. ASSUME UNCHANGED <<algo, sorted, input, out, radixonly, warponly>>,
             where' = where \/ (where = "selected" /\ where' = "done")
      PROVE  CoverInv'
  <2>1. UNCHANGED <<shape, tmp, merging, blk, base, buf, fill, queue, smem, sub>>
    BY <1>4 DEF warponly
  <2>2. SameLaunch
    BY <1>4, <2>1 DEF SameLaunch, rigid, input, shape
  <2>3. Whole' /\ (len_i = n)'
    BY <1>1, <1>4, <2>1, InputSame DEF CoverInv
  <2>4. Covering /\ where # "host" => Covering'
    <3> SUFFICES ASSUME Covering, where # "host" PROVE Covering'
      OBVIOUS
    <3>1. LaunchInv'
      BY <1>1, <2>1, <2>2, QuietLaunch DEF Covering
    <3>2. PICK m : GatheredIn(m)
      BY DEF Covering
    <3>3. nwarps \in Nat
      BY <1>1, ShapeFacts
    <3>4. /\ \A t \in Subwarps, e \in Pairs : Speaks(Held(queue, buf, t), e) => Speaks(Held(queue', buf', t), e)
          /\ \A t \in Subwarps : sub'[t].nwarps = sub[t].nwarps
      BY <2>1
    <3>5. GatheredIn(m)'
      BY <1>1, <2>1, <2>2, <3>2, <3>3, <3>4, GatherKeeps
    <3>6. where' = "warpsort" \/ (sub[0].pc = "end" /\ (merging \/ num_of_block = 1) /\ sub' = sub)
      BY <1>4, <2>1 DEF Covering
    <3> QED
      BY <1>1, <1>4, <2>1, <2>2, <3>1, <3>5, <3>6, CoverWithin
  <2>5. csr' = csr /\ n' = n
    BY <1>1, <1>4, <2>1, SameShape
  <2> QED
    BY <1>1, <1>4, <2>3, <2>4, <2>5 DEF CoverInv
<1>5. CASE NoElements
  <2>1. UNCHANGED <<input, shape>> /\ where' = "done" /\ csr /\ n = 0
    BY <1>5 DEF NoElements, warponly
  <2>2. csr' = csr /\ n' = n
    BY <1>1, <2>1, SameShape
  <2>3. Whole' /\ (len_i = n)'
    BY <1>1, <2>1, InputSame DEF CoverInv
  <2> QED
    BY <1>1, <2>1, <2>2, <2>3 DEF CoverInv
<1>6. CASE Return
  <2>1. out' = out
    BY <1>1, <1>6 DEF Return, WarpInv
  <2> QED
    BY <1>4, <1>6, <2>1 DEF Return
<1>7. CASE UNCHANGED vars
  BY <1>4, <1>7 DEF vars
<1> QED
  BY <1>2, <1>3, <1>5, <1>6, <1>7 DEF Next

(* The row has as many elements as keys.                                     *)
LEMMA ElementsFacts ==
  ASSUME Shape, len_i = n
  PROVE  /\ Elements = {Element(i) : i \in 0..(n - 1)}
         /\ IsFiniteSet(Elements) /\ Cardinality(Elements) = n /\ n \in Nat
<1>1. n \in Nat
  BY ShapeFacts
<1>2. Elements = {Element(i) : i \in 0..(n - 1)}
  BY DEF Elements
<1> DEFINE I == 0..(n - 1)
           f == [i \in I |-> Element(i)]
<1>3. IsFiniteSet(I) /\ Cardinality(I) = n
  BY <1>1, Interval
<1>4. \A i, j \in I : f[i] = f[j] => i = j
  BY DEF Element
<1>5. Elements = {f[i] : i \in I}
  BY <1>2
<1>6. f \in Bijection(I, Elements)
  <2>1. f \in [I -> Elements]
    BY <1>5
  <2>2. \A e \in Elements : \E i \in I : f[i] = e
    BY <1>5
  <2> QED
    BY <1>4, <2>1, <2>2 DEF Bijection, Injection, Surjection, IsInjective
<1>7. IsFiniteSet(Elements) /\ Cardinality(Elements) = Cardinality(I)
  BY <1>3, <1>6, FS_Bijection DEF ExistsBijection
<1> QED
  BY <1>1, <1>2, <1>3, <1>7

(* The end of a selection.                                                   *)
Ends == /\ Shape /\ TmpPairs /\ Whole /\ len_i = n /\ merging \in BOOLEAN
        /\ blk = 0 /\ Covering
        /\ sub[0].pc = "end" /\ (merging \/ num_of_block = 1)

LEMMA ItemsElements ==
  ASSUME Ends
  PROVE  Items \in SUBSET Elements /\ Trimmed = Smaller(k, n)
<1>1. Shape /\ Whole /\ merging \in BOOLEAN /\ Elements = {Element(i) : i \in 0..(n - 1)}
  BY ElementsFacts DEF Ends
<1>2. n \in Nat /\ k \in Nat \ {0} /\ num_of_block \in Nat \ {0}
  BY <1>1, ShapeFacts DEF Shape
<1>3. CASE ~merging
  BY <1>1, <1>3, RowItems DEF Trimmed
<1>4. CASE merging
  <2>1. Size = num_of_block * k /\ num_of_block # 1 /\ TmpInv
    BY <1>4 DEF Size, Ends, Covering
  <2>2. k <= n
    BY <1>2, <2>1 DEF Whole, Ends
  <2>3. Trimmed = Smaller(k, n)
    <3>1. k <= num_of_block * k /\ num_of_block * k \in Nat
      BY <1>2
    <3> QED
      BY <1>2, <2>1, <2>2, <3>1 DEF Trimmed, Smaller
  <2>4. ASSUME NEW e \in Items PROVE e \in Elements
    <3>1. PICK p \in 0..(Size - 1) : Real(Read(p)) /\ e = Read(p)
      BY DEF Items
    <3>2. p \in Nat /\ p < num_of_block * k /\ Size \in Nat
      <4>1. num_of_block * k \in Nat
        BY <1>2
      <4> QED
        BY <2>1, <4>1
    <3>3. p \div k \in 0..(num_of_block - 1) /\ p % k \in 0..(k - 1) /\ p = (p \div k) * k + (p % k)
      BY <1>2, <3>2, Below2, Quotient
    <3> DEFINE b == p \div k
               i == p % k
    <3>4. b \in 0..(num_of_block - 1) /\ i \in 0..(k - 1) /\ p = b * k + i
      BY <3>3
    <3> HIDE DEF b, i
    <3>5. e = tmp[b * k + i] /\ Real(tmp[b * k + i])
      BY <1>4, <2>1, <3>1, <3>2, <3>4 DEF Read
    <3>6. e \in BlockItems(b)
      BY <3>4, <3>5 DEF BlockItems
    <3>7. TmpBlock(b)
      BY <1>4, <2>1, <3>4 DEF TmpInv
    <3> QED
      BY <1>1, <3>6, <3>7 DEF TmpBlock
  <2> QED
    BY <2>3, <2>4
<1> QED
  BY <1>1, <1>3, <1>4

(* What a launch of one block has read, its result speaks for.               *)
LEMMA OneBlockSpeaks ==
  ASSUME Ends, NEW p \in 0..(Size - 1), Real(Read(p))
  PROVE  Speaks(Result, Read(p))
<1>1. Shape /\ TmpPairs /\ LaunchInv /\ blk = 0 /\ sub[0].pc = "end" /\ sub[0].nwarps = 1 /\ blk \in Nat
  BY DEF Ends, Covering, Finished
<1>2. Size \in Nat /\ NumBlocks = 1
  BY <1>1, ShapeFacts DEF Ends, NumBlocks
<1>3. (p % Stride) \div Blockdim = blk
  <2>1. p \in Nat
    BY <1>2
  <2>2. (p % Stride) \div Blockdim \in 0..(NumBlocks - 1)
    BY <1>1, <2>1, EveryPlace
  <2> QED
    BY <1>1, <1>2, <2>2
<1>4. PICK m : GatheredIn(m)
  BY DEF Ends, Covering
<1>5. Speaks(queue[0], Read(p))
  BY <1>1, <1>3, <1>4, EndGathered
<1>6. Read(p) \in Pairs
  <2>1. p \in Nat
    BY <1>2
  <2> QED
    BY <1>1, <2>1, ItemsFacts
<1> QED
  BY <1>1, <1>5, <1>6, ResultSpeaks

LEMMA ElementsSpeak ==
  ASSUME Ends, NEW e \in Elements
  PROVE  Speaks(Result, e)
<1>1. Shape /\ TmpPairs /\ LaunchInv /\ Whole /\ merging \in BOOLEAN /\ Elements = {Element(i) : i \in 0..(n - 1)}
  BY ElementsFacts DEF Ends, Covering
<1>2. PICK p \in 0..(n - 1) : e = Element(p)
  BY <1>1
<1>3. CASE ~merging
  <2>1. Size = n /\ Read(p) = Element(p) /\ Real(Read(p))
    BY <1>1, <1>3, RowItems
  <2> QED
    BY <1>2, <2>1, OneBlockSpeaks
<1>4. CASE merging
  <2>1. /\ num_of_block # 1 /\ TmpInv /\ n \in Nat /\ k \in Nat \ {0} /\ num_of_block \in Nat \ {0}
        /\ Blockdim \in Nat \ {0} /\ Size = num_of_block * k
    BY <1>1, <1>4, ShapeFacts DEF Ends, Covering, Shape, Size
  <2>2. Trimmed = k
    BY <2>1, ItemsElements DEF Smaller, Whole, Ends
  <2>3. Owner(p) \in 0..(num_of_block - 1)
    <3> DEFINE d == num_of_block * Blockdim
               r == p % d
    <3>1. d \in Nat \ {0} /\ p \in Nat
      BY <2>1, Times
    <3>2. r \in 0..(d - 1)
      <4> HIDE DEF d
      <4> QED
        BY <3>1, Quotient
    <3>3. r \in Nat /\ r < d
      <4> HIDE DEF d, r
      <4> QED
        BY <3>1, <3>2
    <3> HIDE DEF r
    <3>4. r \div Blockdim \in 0..(num_of_block - 1)
      BY <2>1, <3>3, Below2
    <3> QED
      BY <3>4 DEF r, Owner
  <2> DEFINE b == Owner(p)
             S == BlockItems(b)
  <2>4. TmpBlock(b)
    BY <1>4, <2>1, <2>3 DEF TmpInv
  <2>5. Covered(select_min, k, S, e) /\ S \in SUBSET Elements
    BY <1>1, <1>2, <2>4 DEF TmpBlock
  <2>6. ASSUME NEW d \in S PROVE d \in Items /\ Speaks(Result, d)
    <3>1. PICK i \in 0..(k - 1) : Real(tmp[b * k + i]) /\ d = tmp[b * k + i]
      BY DEF BlockItems
    <3> DEFINE j == b * k + i
    <3>2. j \in 0..(num_of_block * k - 1)
      <4> HIDE DEF b
      <4> QED
        BY <2>1, <2>3, Within DEF b
    <3>3. d = tmp[j] /\ Real(tmp[j])
      BY <3>1
    <3> HIDE DEF j
    <3>4. j \in 0..(Size - 1) /\ Size \in Int
      <4>1. num_of_block * k \in Nat
        BY <2>1
      <4> QED
        BY <2>1, <3>2, <4>1
    <3>5. Read(j) = tmp[j]
      BY <1>4, <3>4 DEF Read
    <3>6. Speaks(Result, Read(j))
      BY <3>3, <3>4, <3>5, OneBlockSpeaks
    <3> QED
      BY <3>3, <3>4, <3>5, <3>6 DEF Items
  <2> HIDE DEF S
  <2>7. S \in SUBSET Items
    BY <2>6
  <2>8. IsFiniteSet(S) /\ S \in SUBSET Pairs /\ select_min \in BOOLEAN
    BY <1>1, <2>7, ItemSets
  <2>9. /\ Result \in SUBSET Pairs /\ IsFiniteSet(Result)
    BY <1>1, StoredAll
  <2>10. e \in Pairs
    <3>1. Element(p) \in Keys \X Nat /\ \A x \in Keys : x \in Int
      BY <1>1, ElementPair, KeysInt
    <3> QED
      BY <1>2, <3>1 DEF Pairs
  <2>11. \A d \in S : Covered(select_min, k, Result, d)
    BY <2>2, <2>6 DEF Speaks
  <2>12. k \in Nat
    BY <2>1
  <2>13. Covered(select_min, k, Result, e)
    BY <2>5, <2>8, <2>9, <2>10, <2>11, <2>12, CoverTrans
  <2> QED
    BY <2>2, <2>13 DEF Speaks
<1> QED
  BY <1>1, <1>3, <1>4

LEMMA ResultFull ==
  ASSUME Ends
  PROVE  Cardinality(Result) = Smaller(k, n) /\ Trimmed = Smaller(k, n)
<1>1. /\ Result \in SUBSET Elements /\ Result \in SUBSET Pairs /\ IsFiniteSet(Result)
      /\ Cardinality(Result) \in Nat /\ Cardinality(Result) <= Trimmed
      /\ Trimmed = Smaller(k, n) /\ Trimmed \in Nat
  <2>1. Shape /\ TmpPairs /\ LaunchInv
    BY DEF Ends, Covering
  <2> QED
    BY <2>1, ItemsElements, StoredAll, ShapeFacts
<1>2. IsFiniteSet(Elements) /\ Cardinality(Elements) = n /\ n \in Nat /\ k \in Nat \ {0}
  BY ElementsFacts DEF Ends, Shape
<1>3. ~(Cardinality(Result) < Trimmed)
  <2> SUFFICES ASSUME Cardinality(Result) < Trimmed PROVE FALSE
    OBVIOUS
  <2>1. Trimmed <= n
    BY <1>1, <1>2 DEF Smaller
  <2>2. Result # Elements
    BY <1>1, <1>2, <2>1
  <2>3. PICK e \in Elements : e \notin Result
    BY <1>1, <2>2
  <2>4. Cardinality(AsGood(select_min, Result, e)) >= Trimmed
    BY <2>3, ElementsSpeak DEF Speaks, Covered
  <2>5. AsGood(select_min, Result, e) \in SUBSET Result
    BY DEF AsGood
  <2>6. /\ Cardinality(AsGood(select_min, Result, e)) <= Cardinality(Result)
        /\ Cardinality(AsGood(select_min, Result, e)) \in Nat
    BY <1>1, <2>5, FS_Subset, FS_CardinalityType
  <2> QED
    BY <1>1, <2>4, <2>6
<1> QED
  BY <1>1, <1>3

LEMMA EndsRight == Ends => 
  LET selected == 0..(Smaller(k, n) - 1)
  IN  /\ \A i \in selected : out[i] \in Elements
      /\ \A i, j \in selected : out[i] = out[j] => i = j
      /\ \A i \in selected : \A e \in Elements \ {out[j] : j \in selected} : ~Better(e, out[i])
      /\ \A i, j \in selected : i < j => ~Better(out[j], out[i])
<1> DEFINE M == Smaller(k, n)
           rank(x) == Cardinality(Lower(select_min, Result, x))
<1> SUFFICES ASSUME Ends
             PROVE  /\ \A i \in 0..(M - 1) : out[i] \in Elements
                    /\ \A i, j \in 0..(M - 1) : out[i] = out[j] => i = j
                    /\ \A i \in 0..(M - 1) : \A e \in Elements \ {out[j] : j \in 0..(M - 1)} : ~Better(e, out[i])
                    /\ \A i, j \in 0..(M - 1) : i < j => ~Better(out[j], out[i])
  OBVIOUS
<1>1. Shape /\ TmpPairs /\ LaunchInv /\ select_min \in BOOLEAN
  BY DEF Ends, Covering, Shape
<1>2. Cardinality(Result) = M /\ Trimmed = M
  BY ResultFull
<1> HIDE DEF M
<1>3. /\ Result \in SUBSET Items /\ Result \in SUBSET Pairs /\ IsFiniteSet(Result)
      /\ Cardinality(Result) \in Nat
      /\ \A x \in Result : \E i \in 0..(M - 1) : Stored(i) = x
      /\ \A i \in Nat : i < Cardinality(Result)
           => Stored(i) \in Result /\ Cardinality(Lower(select_min, Result, Stored(i))) = i
  BY <1>1, <1>2, StoredAll
<1>4. ASSUME NEW i \in 0..(M - 1)
      PROVE  out[i] = Stored(i) /\ out[i] \in Result /\ rank(out[i]) = i /\ i \in Nat
  <2>1. out[i] = Stored(i)
    BY <1>2 DEF Ends, Covering, Finished, Written
  <2>2. i \in Nat /\ i < Cardinality(Result)
    BY <1>2, <1>3
  <2>3. Stored(i) \in Result /\ Cardinality(Lower(select_min, Result, Stored(i))) = i
    BY <1>3, <2>2
  <2> QED
    BY <2>1, <2>2, <2>3
<1>5. Result \in SUBSET Elements
  BY <1>3, ItemsElements
<1>6. \A a, b \in Pairs : Better(a, b) <=> Beats(select_min, a, b)
  BY <1>1, <1>3, BestIs
<1>7. \A x, y \in Result : Comes(select_min, x, y) => rank(x) < rank(y)
  BY <1>1, <1>3, RankFacts
<1> HIDE DEF rank
<1>8. \A i \in 0..(M - 1) : out[i] \in Elements
  BY <1>4, <1>5
<1>9. \A i, j \in 0..(M - 1) : out[i] = out[j] => i = j
  BY <1>4
<1>10. ASSUME NEW i \in 0..(M - 1), NEW e \in Elements, e \notin {out[j] : j \in 0..(M - 1)}
       PROVE  ~Better(e, out[i])
  <2>1. e \notin Result
    BY <1>3, <1>4, <1>10
  <2>2. Cardinality(AsGood(select_min, Result, e)) >= Cardinality(Result)
    BY <1>2, <2>1, ElementsSpeak DEF Speaks, Covered
  <2>3. AsGood(select_min, Result, e) \in SUBSET Result
    BY DEF AsGood
  <2>4. /\ IsFiniteSet(AsGood(select_min, Result, e))
        /\ Cardinality(AsGood(select_min, Result, e)) <= Cardinality(Result)
        /\ Cardinality(AsGood(select_min, Result, e)) \in Nat
        /\ Cardinality(AsGood(select_min, Result, e)) = Cardinality(Result)
             => AsGood(select_min, Result, e) = Result
    BY <1>3, <2>3, FS_Subset, FS_CardinalityType
  <2>5. AsGood(select_min, Result, e) = Result
    BY <1>3, <2>2, <2>4
  <2>6. ~Beats(select_min, e, out[i])
    BY <1>4, <2>5 DEF AsGood
  <2>7. e \in Pairs /\ out[i] \in Pairs
    <3>1. PICK p \in 0..(n - 1) : e = Element(p)
      BY ElementsFacts DEF Ends
    <3>2. Element(p) \in Keys \X Nat /\ \A x \in Keys : x \in Int
      BY <1>1, ElementPair, KeysInt
    <3> QED
      BY <1>3, <1>4, <3>1, <3>2 DEF Pairs
  <2> QED
    BY <1>6, <2>6, <2>7
<1>11. ASSUME NEW i \in 0..(M - 1), NEW j \in 0..(M - 1), i < j
       PROVE  ~Better(out[j], out[i])
  <2> SUFFICES ASSUME Better(out[j], out[i]) PROVE FALSE
    OBVIOUS
  <2>1. out[i] \in Result /\ out[j] \in Result /\ rank(out[i]) = i /\ rank(out[j]) = j
    BY <1>4
  <2>2. Comes(select_min, out[j], out[i])
    BY <1>3, <1>6, <2>1 DEF Comes
  <2>3. j < i
    BY <1>7, <2>1, <2>2
  <2> QED
    BY <1>4, <1>11, <2>3
<1> QED
  BY <1>8, <1>9, <1>10, <1>11

LEMMA CoverSmallest == CoverInv => KSmallest
<1> SUFFICES ASSUME CoverInv, where = "done", csr => n > 0
             PROVE  /\ \A i \in Selected : out[i] \in Elements
                    /\ \A i, j \in Selected : out[i] = out[j] => i = j
                    /\ \A i \in Selected : \A e \in Elements \ {out[j] : j \in Selected} : ~Better(e, out[i])
                    /\ Sorted
  BY DEF KSmallest
<1>1. Covering /\ Shape
  <2>1. Shape
    BY DEF CoverInv, WarpInv
  <2>2. n \in Nat
    BY <2>1, ShapeFacts
  <2> QED
    BY <2>1, <2>2 DEF CoverInv
<1>2. Ends
  <2>1. /\ Whole /\ len_i = n /\ merging \in BOOLEAN /\ TmpPairs /\ blk \in 0..(NumBlocks - 1)
        /\ sub[0].pc = "end" /\ (merging \/ num_of_block = 1)
    BY <1>1 DEF CoverInv, WarpInv, Covering
  <2>2. blk = 0
    BY <2>1 DEF NumBlocks
  <2> QED
    BY <1>1, <2>1, <2>2 DEF Ends
<1>3. Selected = 0..(Smaller(k, n) - 1)
  BY <1>1, <1>2, ElementsFacts DEF Selected, Ends
<1> QED
  BY <1>2, <1>3, EndsRight DEF Sorted

(* The warps select the k best elements of a row, each once and in order,    *)
(* whatever the queues, the capacity, the warps and the blocks, in whichever *)
(* order warps and subwarps go on: no element is lost in a buffer, refused   *)
(* by a bound that lags or dropped on its way through the tree merge         *)
(* (warp_sort_immediate, _filtered and _distributed, block_sort::done,       *)
(* select_k_). The row is no shorter than k in a launch of several blocks,   *)
(* and has no key that is kDummy.                                            *)
THEOREM WarpsSelectCorrect == Spec /\ algo = "warpsort" /\ Whole => []KSmallest
<1>1. Init /\ algo = "warpsort" /\ Whole => CoverInv
  BY CoverInitInv
<1>2. CoverInv /\ [Next]_vars => CoverInv'
  BY CoverNextInv
<1> QED
  BY <1>1, <1>2, CoverSmallest, PTL DEF Spec
===============================================================================
