--------------------------- MODULE StdComms_proofs ---------------------------
(***************************************************************************)
(* Proofs about StdComms for any ranks, tags, bounds and both transports.  *)
(*                                                                         *)
(* The inductive invariant IInv: the ids of a rank are partitioned between *)
(* in-flight, free and lost ones (IdsAccounted), of which there are never  *)
(* more than operations posted (HandleInv); every request object belongs   *)
(* to an operation posted before (OwnerInv), which tells the object of a   *)
(* new operation from all others, and has one owner (OwnedOnce); and what  *)
(* waitall no longer follows has been completed (WaitInv). Three more are  *)
(* inductive with it: how partners are paired (PairInv), where the failed  *)
(* operations of a wait are (DeliverInv, over ucxx), when the clock may    *)
(* run out (TimeInv, over ucp).                                            *)
(***************************************************************************)
EXTENDS StdComms, SequenceTheorems, TLAPS

Issued(r) == {o \in Ops : o[1] = r /\ o[2] <= posted[r]}

(* A caller's handle is exactly the entry in flight. *)
HandleInv == \A r \in Ranks : next[r] <= posted[r] /\ inflight[r] = held[r]

OwnerInv ==
  \A r \in Ranks :
    /\ \A i \in Ids : inflight[r][i] # NoOp => inflight[r][i] \in Issued(r)
    /\ \A i \in 1..Len(requests[r]) : requests[r][i] \in Issued(r)
    /\ freed[r] \subseteq Issued(r)

WaitInv ==
  \A r \in Ranks :
    /\ batch[r] \subseteq Issued(r)
    /\ pc[r] = "run" => requests[r] = <<>> /\ at[r] = 0
    /\ pc[r] = "wait" =>
         /\ outcome[r] = "none"
         /\ \A o \in batch[r] :
              o \in ToSet(requests[r]) \/ Completed(op[o].state)

IInv == /\ TypeOK /\ IdsAccounted /\ HandleInv /\ OwnerInv /\ OwnedOnce
        /\ WaitInv /\ WaitallComplete

-----------------------------------------------------------------------------
(* Facts about the constants and the helpers. *)

LEMMA IdsFacts ==
  /\ Ids \subseteq Nat
  /\ \A r \in Ranks, n \in Nat : n <= MaxOps[r] => n \in Ids
  /\ \A r \in Ranks : \A n \in 1..MaxOps[r] : <<r, n>> \in Ops
<1>1. \A r \in Ranks : MaxOps[r] \in Nat
  BY BoundsAssumption
<1>2. Ids \subseteq Nat
  BY <1>1, SMT DEF Ids
<1>3. \A r \in Ranks, n \in Nat : n <= MaxOps[r] => n \in Ids
  BY <1>1, SMT DEF Ids
<1>4. \A r \in Ranks : \A n \in 1..MaxOps[r] : <<r, n>> \in Ops
  BY <1>1, SMT DEF Ops
<1>. QED
  BY <1>2, <1>3, <1>4

LEMMA OpsFacts ==
  ASSUME NEW o \in Ops
  PROVE  o[1] \in Ranks /\ o[2] \in Nat /\ o = <<o[1], o[2]>> /\ o # NoOp
BY BoundsAssumption, NoOpAssumption, SMT DEF Ops

LEMMA RemoveAtFacts ==
  ASSUME NEW S, NEW s \in Seq(S), NEW i \in 1..Len(s)
  PROVE  /\ RemoveAt(s, i) \in Seq(S)
         /\ Len(RemoveAt(s, i)) = Len(s) - 1
         /\ \A j \in 1..(Len(s) - 1) :
              RemoveAt(s, i)[j] = IF j < i THEN s[j] ELSE s[j + 1]
<1>. DEFINE A == SubSeq(s, 1, i - 1)
            B == SubSeq(s, i + 1, Len(s))
<1>1. A \in Seq(S) /\ Len(A) = i - 1 /\ \A j \in 1..(i - 1) : A[j] = s[j]
  BY SMT
<1>2. /\ B \in Seq(S) /\ Len(B) = Len(s) - i
      /\ \A j \in 1..(Len(s) - i) : B[j] = s[j + i]
  BY SMT
<1>3. RemoveAt(s, i) = A \o B
  BY DEF RemoveAt
<1>. HIDE DEF A, B
<1>4. /\ A \o B \in Seq(S)
      /\ Len(A \o B) = Len(A) + Len(B)
      /\ \A j \in 1..(Len(A) + Len(B)) :
           (A \o B)[j] = IF j <= Len(A) THEN A[j] ELSE B[j - Len(A)]
  BY <1>1, <1>2, ConcatProperties, Zenon
<1>5. Len(A) + Len(B) = Len(s) - 1 /\ Len(s) \in Nat /\ i \in Nat
  BY <1>1, <1>2, SMT
<1>6. ASSUME NEW j \in 1..(Len(s) - 1)
      PROVE  (A \o B)[j] = IF j < i THEN s[j] ELSE s[j + 1]
  <2>1. CASE j < i
    <3>1. j \in 1..(i - 1) /\ j <= Len(A) /\ j \in 1..(Len(A) + Len(B))
      BY <1>1, <1>5, <2>1, SMT
    <3>2. (A \o B)[j] = A[j]
      BY <1>4, <3>1, Zenon
    <3>. QED BY <1>1, <2>1, <3>1, <3>2, Zenon
  <2>2. CASE ~(j < i)
    <3>1. /\ j \in 1..(Len(A) + Len(B)) /\ ~(j <= Len(A))
          /\ j - Len(A) \in 1..(Len(s) - i) /\ (j - Len(A)) + i = j + 1
      BY <1>1, <1>5, <2>2, SMT
    <3>2. (A \o B)[j] = B[j - Len(A)]
      BY <1>4, <3>1, Zenon
    <3>3. B[j - Len(A)] = s[(j - Len(A)) + i]
      BY <1>2, <3>1, Zenon
    <3>. QED BY <2>2, <3>1, <3>2, <3>3, Zenon
  <2>. QED BY <2>1, <2>2, Zenon
<1>. QED
  BY <1>3, <1>4, <1>5, <1>6, Zenon

LEMMA ArrayFacts ==
  ASSUME NEW r \in Ranks, next[r] \in Ids, NEW ids \in BoundedSeq(0..next[r], MaxBatch[r])
  PROVE  ids \in Seq(Ids) /\ Len(ids) \in Nat
<1>. DEFINE M == MaxBatch[r]
<1>0. M \in Nat
  BY BoundsAssumption
<1>. HIDE DEF M
<1>1. PICK m \in 0..M : ids \in [1..m -> 0..next[r]]
  <2>1. ids \in BoundedSeq(0..next[r], M)
    BY DEF M
  <2>. QED BY <2>1, <1>0, SMT DEF BoundedSeq, SeqOf
<1>2. 0..next[r] \subseteq Ids
  BY IdsFacts, BoundsAssumption, <1>0, SMT DEF Ids
<1>. QED
  BY <1>1, <1>2, SMT

(* A completion that is recorded is never taken back. *)
LEMMA CompleteFacts ==
  ASSUME TypeOK, NEW O, Complete(O)
  PROVE  /\ op' \in [Ops -> [kind : Kinds, peer : Ranks, tag : Tags,
                             state : States, partner : Ops \cup {NoOp}]]
         /\ \A o \in Ops : o \notin O => op'[o] = op[o]
<1>1. \A o \in Ops : op'[o] \in [kind : Kinds, peer : Ranks, tag : Tags,
                             state : States, partner : Ops \cup {NoOp}]
  <2>. TAKE o \in Ops
  <2>1. CASE o \in O
    <3>1. /\ op[o] \in [kind : Kinds, peer : Ranks, tag : Tags, state : States,
                         partner : Ops \cup {NoOp}]
          /\ op'[o] = [op[o] EXCEPT !.state =
                         IF op[o].state = "ready" THEN "done" ELSE "error"]
      BY <2>1 DEF TypeOK, Complete
    <3>. QED BY <3>1, SMT DEF States
  <2>2. CASE o \notin O
    BY <2>2 DEF TypeOK, Complete
  <2>. QED BY <2>1, <2>2
<1>. QED BY <1>1 DEF Complete

-----------------------------------------------------------------------------
(* Each step preserves the invariant. *)

LEMMA InitInv == Init => IInv
<1>. SUFFICES ASSUME Init PROVE IInv
  OBVIOUS
<1>0. /\ \A r \in Ranks : 0 <= MaxOps[r] /\ 0 \in Ids
      /\ Ids \subseteq Nat
  BY IdsFacts, BoundsAssumption, SMT
<1>1. ASSUME NEW o \in Ops
      PROVE  NoRequest \in [kind : Kinds, peer : Ranks, tag : Tags,
                            state : States, partner : Ops \cup {NoOp}]
  <2>1. \E r \in Ranks : TRUE
    BY OpsFacts
  <2>2. (CHOOSE r \in Ranks : TRUE) \in Ranks
    BY <2>1
  <2>3. (CHOOSE t \in Tags : TRUE) \in Tags
    BY TagsAssumption
  <2>. QED BY <2>2, <2>3, SMT DEF NoRequest, Kinds, States
<1>. QED
  BY <1>0, <1>1, OpsFacts, SMT DEF Init, IInv, TypeOK, IdsAccounted, HandleInv, OwnerInv,
     OwnedOnce, WaitInv, WaitallComplete, Issued, ToSet, Outcomes

(* Steps of the transport and of the clock: an operation that has completed  *)
(* stays completed, and the ids and the vector are left alone.               *)
OpType == [Ops -> [kind : Kinds, peer : Ranks, tag : Tags, state : States,
                   partner : Ops \cup {NoOp}]]

LEMMA OpStep ==
  ASSUME IInv, op' \in OpType,
         \A o \in Ops : Completed(op[o].state) => Completed(op'[o].state),
         UNCHANGED <<posted, handles, requests, at, pc, outcome, batch, freed>>,
         late' \in [Ranks -> BOOLEAN], fresh' \in [Ranks -> BOOLEAN]
  PROVE  IInv'
<1>1. TypeOK'
  BY SMT DEF IInv, TypeOK, OpType, handles
<1>2. \A r \in Ranks : Issued(r)' = Issued(r)
  BY SMT DEF Issued
<1>3. IdsAccounted' /\ HandleInv'
  BY SMT DEF IInv, IdsAccounted, HandleInv, handles
<1>4. OwnerInv' /\ OwnedOnce'
  BY <1>2, SMT DEF IInv, OwnerInv, OwnedOnce, handles, ToSet
<1>5. WaitInv' /\ WaitallComplete'
  <2>1. \A r \in Ranks : batch[r] \subseteq Ops
    BY SMT DEF IInv, WaitInv, Issued
  <2>2. WaitallComplete => \A r \in Ranks : outcome[r] = "ok" =>
          \A o \in batch[r] : Completed(op[o].state)
    BY DEF WaitallComplete, Completed
  <2>3. (\A r \in Ranks : outcome'[r] = "ok" =>
          \A o \in batch'[r] : Completed(op'[o].state)) => WaitallComplete'
    BY DEF WaitallComplete, Completed
  <2>4. WaitallComplete'
    BY <2>1, <2>2, <2>3, Zenon DEF IInv
  <2>5. WaitInv'
    BY <1>2, <2>1, Zenon DEF IInv, WaitInv, ToSet
  <2>. QED BY <2>4, <2>5
<1>. QED BY <1>1, <1>3, <1>4, <1>5 DEF IInv

LEMMA RecordFacts ==
  ASSUME NEW K, NEW P, NEW T, NEW S, NEW O,
         NEW x \in [kind : K, peer : P, tag : T, state : S, partner : O],
         NEW y \in O, NEW z \in S
  PROVE  /\ [x EXCEPT !.partner = y, !.state = z] \in
              [kind : K, peer : P, tag : T, state : S, partner : O]
         /\ x.state \in S
<1>. DEFINE R == [kind : K, peer : P, tag : T, state : S, partner : O]
            x1 == [x EXCEPT !.partner = y]
<1>1. x1 \in R /\ x.state \in S
  BY SMT
<1>2. ASSUME NEW w \in R PROVE [w EXCEPT !.state = z] \in R
  BY <1>2, SMT
<1>. HIDE DEF R, x1
<1>3. [x1 EXCEPT !.state = z] \in R
  BY <1>1, <1>2
<1>. QED BY <1>1, <1>3 DEF R, x1

LEMMA MatchStep ==
  ASSUME IInv, NEW s \in Ops, NEW d \in Ops, Match(s, d)
  PROVE  IInv'
<1>1. op \in OpType /\ s # d
  BY SMT DEF IInv, TypeOK, OpType, Match, CanMatch
<1>2. /\ \A o \in Ops : o # s /\ o # d => op'[o] = op[o]
      /\ op'[s] = [op[s] EXCEPT !.partner = d,
                     !.state = IF op[s].state = "posted" THEN "ready"
                               ELSE op[s].state]
      /\ op'[d] = [op[d] EXCEPT !.partner = s, !.state = "ready"]
      /\ op' = [o \in Ops |-> op'[o]]
  BY <1>1, Zenon DEF Match
<1>3. \A o \in Ops : op'[o] \in [kind : Kinds, peer : Ranks, tag : Tags,
                          state : States, partner : Ops \cup {NoOp}]
  <2>1. \A o \in Ops : op[o] \in [kind : Kinds, peer : Ranks, tag : Tags,
                           state : States, partner : Ops \cup {NoOp}]
    BY <1>1, Zenon DEF OpType
  <2>a. \A z : z = "ready" => z \in States
    BY DEF States
  <2>b. (IF op[s].state = "posted" THEN "ready" ELSE op[s].state) \in States
    BY <2>1, <2>a, RecordFacts, Zenon
  <2>2. op'[s] \in [kind : Kinds, peer : Ranks, tag : Tags,
                    state : States, partner : Ops \cup {NoOp}]
    <3>1. op[s] \in [kind : Kinds, peer : Ranks, tag : Tags,
                    state : States, partner : Ops \cup {NoOp}]
      BY <2>1
    <3>2. d \in Ops \cup {NoOp}
      OBVIOUS
    <3>3. [op[s] EXCEPT !.partner = d,
             !.state = IF op[s].state = "posted" THEN "ready" ELSE op[s].state]
            \in [kind : Kinds, peer : Ranks, tag : Tags,
                 state : States, partner : Ops \cup {NoOp}]
      BY <3>1, <3>2, <2>b, RecordFacts
    <3>. QED BY <1>2, <3>3, Zenon
  <2>3. op'[d] \in [kind : Kinds, peer : Ranks, tag : Tags,
                    state : States, partner : Ops \cup {NoOp}]
    <3>1. op[d] \in [kind : Kinds, peer : Ranks, tag : Tags,
                    state : States, partner : Ops \cup {NoOp}]
      BY <2>1
    <3>2. s \in Ops \cup {NoOp} /\ "ready" \in States
      BY <2>a
    <3>3. [op[d] EXCEPT !.partner = s, !.state = "ready"]
            \in [kind : Kinds, peer : Ranks, tag : Tags,
                 state : States, partner : Ops \cup {NoOp}]
      BY <3>1, <3>2, RecordFacts
    <3>. QED BY <1>2, <3>3, Zenon
  <2>. QED BY <1>2, <2>1, <2>2, <2>3, Zenon
<1>4. op' \in OpType
  BY <1>2, <1>3, Zenon DEF OpType
<1>5. \A o \in Ops : Completed(op[o].state) => Completed(op'[o].state)
  <2>1. op[d].state = "posted"
    BY DEF Match, CanMatch
  <2>2. op'[s].state = IF op[s].state = "posted" THEN "ready" ELSE op[s].state
    BY <1>1, <1>2, SMT DEF OpType
  <2>. QED BY <1>2, <2>1, <2>2, Zenon DEF Completed
<1>. QED
  <2>1. UNCHANGED <<posted, handles, requests, at, pc, outcome, batch, freed,
                    late, fresh>>
    BY DEF Match, waiting
  <2>2. late' \in [Ranks -> BOOLEAN] /\ fresh' \in [Ranks -> BOOLEAN]
    BY <2>1 DEF IInv, TypeOK
  <2>. QED BY <1>4, <1>5, <2>1, <2>2, OpStep, Zenon

LEMMA FailStep ==
  ASSUME IInv, NEW f \in Ops, Fail(f)
  PROVE  IInv'
<1>1. op \in OpType
  BY DEF IInv, TypeOK, OpType
<1>2. op' \in OpType
  BY <1>1, SMT DEF Fail, OpType, States
<1>3. \A o \in Ops : Completed(op[o].state) => Completed(op'[o].state)
  BY <1>1, SMT DEF Fail, Completed, OpType
<1>. QED
  BY <1>2, <1>3, OpStep, SMT DEF Fail, waiting, handles, IInv, TypeOK

LEMMA EventsKept ==
  ASSUME TypeOK, NEW r \in Ranks, NEW E \in SUBSET Events(r), Complete(E)
  PROVE  /\ op' \in OpType
         /\ \A o \in Ops : Completed(op[o].state) => Completed(op'[o].state)
<1>1. op' \in OpType /\ \A o \in Ops : o \notin E => op'[o] = op[o]
  BY CompleteFacts DEF OpType
<1>2. \A o \in E : ~Completed(op[o].state)
  BY DEF Events, Completed
<1>. QED BY <1>1, <1>2

LEMMA ProgressStep ==
  ASSUME IInv, NEW r \in Ranks, ProgressThread(r) \/ TimePasses(r)
  PROVE  IInv'
<1>1. op \in OpType
  BY DEF IInv, TypeOK, OpType
<1>2. late' \in [Ranks -> BOOLEAN] /\ fresh' \in [Ranks -> BOOLEAN]
  <2>1. late \in [Ranks -> BOOLEAN] /\ fresh \in [Ranks -> BOOLEAN]
    BY DEF IInv, TypeOK
  <2>2. CASE ProgressThread(r)
    BY <2>1, <2>2, Zenon DEF ProgressThread
  <2>3. CASE TimePasses(r)
    BY <2>1, <2>3, Zenon DEF TimePasses
  <2>. QED BY <2>2, <2>3
<1>3. UNCHANGED <<posted, handles, requests, at, pc, outcome, batch, freed>>
  BY DEF ProgressThread, TimePasses
<1>4. CASE ProgressThread(r)
  BY <1>2, <1>3, <1>4, EventsKept, OpStep DEF ProgressThread, IInv
<1>5. CASE TimePasses(r)
  BY <1>1, <1>2, <1>3, <1>5, OpStep DEF TimePasses
<1>. QED BY <1>4, <1>5

-----------------------------------------------------------------------------
(* isend and irecv: the id is one that nothing uses, the operation is new.   *)

LEMMA NewId ==
  ASSUME IInv, NEW r \in Ranks, NEW id \in Ids, get_request_id(r, id),
         posted[r] < MaxOps[r]
  PROVE  /\ inflight[r][id] = NoOp /\ id \notin lost[r]
         /\ next' \in [Ranks -> Ids] /\ free' \in [Ranks -> SUBSET Ids]
         /\ \A u \in Ranks : u # r => next'[u] = next[u] /\ free'[u] = free[u]
         /\ free'[r] = free[r] \ {id}
         /\ \A i \in Ids : i < next'[r] <=> i < next[r] \/ i = id
         /\ next'[r] <= posted[r] + 1
<1>1. /\ next \in [Ranks -> Ids] /\ free \in [Ranks -> SUBSET Ids]
      /\ next[r] \in Nat /\ id \in Nat /\ posted[r] \in Nat
      /\ next[r] <= posted[r] /\ MaxOps[r] \in Nat
  <2>1. /\ next \in [Ranks -> Ids] /\ free \in [Ranks -> SUBSET Ids]
        /\ posted \in [Ranks -> Nat] /\ next[r] <= posted[r]
    BY DEF IInv, TypeOK, HandleInv
  <2>2. MaxOps[r] \in Nat /\ Ids \subseteq Nat
    BY IdsFacts, BoundsAssumption
  <2>. QED BY <2>1, <2>2
<1>2. next[r] + 1 \in Ids
  BY <1>1, IdsFacts, SMT
<1>3. /\ inflight[r][id] # NoOp => id \notin free[r] /\ id < next[r]
      /\ id \in lost[r] => id \notin free[r] /\ id < next[r]
  BY DEF IInv, IdsAccounted
<1>4. CASE free[r] = {}
  <2>1. id = next[r] /\ next' = [next EXCEPT ![r] = next[r] + 1] /\ free' = free
    BY <1>4, SMT DEF get_request_id
  <2>2. next' \in [Ranks -> Ids] /\ next'[r] = next[r] + 1
        /\ \A u \in Ranks : u # r => next'[u] = next[u]
    BY <1>1, <1>2, <2>1, SMT
  <2>3. \A i \in Ids : i < next'[r] <=> i < next[r] \/ i = id
    BY <1>1, <2>1, <2>2, IdsFacts, SMT
  <2>. QED BY <1>1, <1>3, <1>4, <2>1, <2>2, <2>3, SMT
<1>5. CASE free[r] # {}
  <2>1. /\ id \in free[r] /\ free' = [free EXCEPT ![r] = free[r] \ {id}]
        /\ next' = next
    BY <1>5, SMT DEF get_request_id
  <2>2. free' \in [Ranks -> SUBSET Ids] /\ free'[r] = free[r] \ {id}
        /\ \A u \in Ranks : u # r => free'[u] = free[u]
    BY <1>1, <2>1, SMT
  <2>3. id < next[r]
    BY <2>1 DEF IInv, IdsAccounted
  <2>. QED BY <1>1, <1>3, <2>1, <2>2, <2>3, SMT
<1>. QED BY <1>4, <1>5

LEMMA PostStep ==
  ASSUME IInv, NEW r \in Ranks, NEW kind \in {"send", "recv"},
         NEW peer \in Ranks, NEW tag \in Tags, Post(r, kind, peer, tag)
  PROVE  IInv'
<1>. DEFINE o == <<r, posted[r] + 1>>
            id0 == posted[r]
<1>1. /\ posted \in [Ranks -> Nat] /\ posted[r] < MaxOps[r] /\ MaxOps[r] \in Nat
      /\ posted' = [posted EXCEPT ![r] = posted[r] + 1]
      /\ pc[r] = "run" /\ UNCHANGED waiting
  <2>1. posted \in [Ranks -> Nat]
    BY DEF IInv, TypeOK
  <2>2. MaxOps[r] \in Nat
    BY BoundsAssumption
  <2>3. /\ posted[r] < MaxOps[r] /\ pc[r] = "run" /\ UNCHANGED waiting
        /\ posted' = [posted EXCEPT ![r] = posted[r] + 1]
    BY Zenon DEF Post
  <2>. QED BY <2>1, <2>2, <2>3
<1>2. /\ posted' \in [Ranks -> Nat] /\ posted'[r] = posted[r] + 1
      /\ \A u \in Ranks : u # r => posted'[u] = posted[u]
  BY <1>1, SMT
<1>3. o \in Ops
  BY <1>1, IdsFacts, SMT
<1>4. /\ o[1] = r /\ o[2] = posted[r] + 1 /\ o # NoOp
      /\ \A u \in Ranks : o \notin Issued(u)
      /\ o \in Issued(r)'
  BY <1>1, <1>2, <1>3, OpsFacts, SMT DEF Issued
<1>5. \A u \in Ranks : Issued(u) \subseteq Issued(u)'
  BY <1>1, <1>2, OpsFacts, SMT DEF Issued
<1>6. PICK id \in Ids :
        /\ get_request_id(r, id)
        /\ \/ /\ \E s \in {"posted", "done"} :
                   op' = [op EXCEPT ![o] = [kind |-> kind, peer |-> peer,
                            tag |-> tag, state |-> s, partner |-> NoOp]]
              /\ Insert(r, id, o)
              /\ held' = [held EXCEPT ![r][id] = o]
              /\ UNCHANGED lost
           \/ /\ lost' = [lost EXCEPT ![r] = lost[r] \cup {id}]
              /\ UNCHANGED <<op, inflight, held>>
  <2>1. PICK id \in Ids :
        /\ get_request_id(r, id)
        /\ \/ /\ \E s \in {"posted"} \cup (IF kind = "send" THEN {"done"} ELSE {}) :
                   op' = [op EXCEPT ![o] = [kind |-> kind, peer |-> peer,
                            tag |-> tag, state |-> s, partner |-> NoOp]]
              /\ Insert(r, id, o)
              /\ held' = [held EXCEPT ![r][id] = o]
              /\ UNCHANGED lost
           \/ /\ Faults /\ ~Ucxx
              /\ lost' = [lost EXCEPT ![r] = lost[r] \cup {id}]
              /\ UNCHANGED <<op, inflight, held>>
    BY Zenon DEF Post
  <2>2. {"posted"} \cup (IF kind = "send" THEN {"done"} ELSE {}) \subseteq {"posted", "done"}
    OBVIOUS
  <2>. QED BY <2>1, <2>2, Zenon
<1>. HIDE DEF o
<1>7. /\ inflight[r][id] = NoOp /\ id \notin lost[r]
      /\ next' \in [Ranks -> Ids] /\ free' \in [Ranks -> SUBSET Ids]
      /\ \A u \in Ranks : u # r => next'[u] = next[u] /\ free'[u] = free[u]
      /\ free'[r] = free[r] \ {id}
      /\ \A i \in Ids : i < next'[r] <=> i < next[r] \/ i = id
      /\ next'[r] <= posted[r] + 1
  BY <1>1, <1>6, NewId
<1>8. /\ op' \in OpType
      /\ \A p \in Ops : p # o => op'[p] = op[p]
  <2>1. op \in OpType
    BY DEF IInv, TypeOK, OpType
  <2>2. CASE op' = op
    BY <2>1, <2>2
  <2>3. ASSUME NEW s \in {"posted", "done"},
               op' = [op EXCEPT ![o] = [kind |-> kind, peer |-> peer,
                            tag |-> tag, state |-> s, partner |-> NoOp]]
        PROVE  op' \in OpType /\ \A p \in Ops : p # o => op'[p] = op[p]
    <3>1. [kind |-> kind, peer |-> peer, tag |-> tag, state |-> s,
           partner |-> NoOp] \in [kind : Kinds, peer : Ranks, tag : Tags,
                                  state : States, partner : Ops \cup {NoOp}]
      BY SMT DEF Kinds, States
    <3>. QED BY <1>3, <2>1, <2>3, <3>1, Zenon DEF OpType
  <2>. QED BY <1>6, <2>2, <2>3
<1>9. /\ inflight \in [Ranks -> [Ids -> Ops \cup {NoOp}]]
      /\ held = inflight /\ lost \in [Ranks -> SUBSET Ids]
  <2>1. held \in [Ranks -> [Ids -> Ops \cup {NoOp}]]
        /\ inflight \in [Ranks -> [Ids -> Ops \cup {NoOp}]]
    BY DEF IInv, TypeOK
  <2>2. \A u \in Ranks : held[u] = inflight[u]
    BY Zenon DEF IInv, HandleInv
  <2>3. held = inflight
    BY <2>1, <2>2, SMT
  <2>. QED BY <2>1, <2>3 DEF IInv, TypeOK
(* What became of the id. *)
<1>10. \/ /\ inflight' \in [Ranks -> [Ids -> Ops \cup {NoOp}]]
          /\ held' = inflight' /\ inflight'[r][id] = o /\ lost' = lost
          /\ \A u \in Ranks, i \in Ids :
               u # r \/ i # id => inflight'[u][i] = inflight[u][i]
       \/ /\ inflight' = inflight /\ held' = held
          /\ lost' \in [Ranks -> SUBSET Ids]
          /\ lost'[r] = lost[r] \cup {id}
          /\ \A u \in Ranks : u # r => lost'[u] = lost[u]
  <2>1. CASE /\ Insert(r, id, o)
             /\ held' = [held EXCEPT ![r][id] = o]
             /\ UNCHANGED lost
    <3>1. inflight' = [inflight EXCEPT ![r][id] = o]
      BY <1>7, <1>9, <2>1, SMT DEF Insert
    <3>2. held' = inflight'
      BY <1>9, <2>1, <3>1
    <3>. QED BY <1>3, <1>9, <2>1, <3>1, <3>2, SMT
  <2>2. CASE /\ lost' = [lost EXCEPT ![r] = lost[r] \cup {id}]
             /\ UNCHANGED <<op, inflight, held>>
    BY <1>9, <2>2, SMT
  <2>. QED BY <1>6, <2>1, <2>2
<1>11. TypeOK'
  <2>1. /\ inflight' \in [Ranks -> [Ids -> Ops \cup {NoOp}]]
        /\ held' \in [Ranks -> [Ids -> Ops \cup {NoOp}]]
        /\ lost' \in [Ranks -> SUBSET Ids]
    BY <1>9, <1>10
  <2>2. \A u \in Ranks : posted'[u] <= MaxOps[u]
    BY <1>1, <1>2, SMT DEF IInv, TypeOK
  <2>3. op' \in [Ops -> [kind : Kinds, peer : Ranks, tag : Tags,
                         state : States, partner : Ops \cup {NoOp}]]
    BY <1>8 DEF OpType
  <2>. QED BY <1>1, <1>2, <1>7, <2>1, <2>2, <2>3 DEF IInv, TypeOK, waiting
<1>12. IdsAccounted'
  <2>. SUFFICES ASSUME NEW u \in Ranks, NEW i \in Ids
       PROVE  /\ i < next'[u] <=> inflight'[u][i] # NoOp \/ i \in free'[u] \/ i \in lost'[u]
              /\ inflight'[u][i] # NoOp => i \notin free'[u] \cup lost'[u]
              /\ i \notin free'[u] \cap lost'[u]
    BY DEF IdsAccounted
  <2>1. /\ i < next[u] <=> inflight[u][i] # NoOp \/ i \in free[u] \/ i \in lost[u]
        /\ inflight[u][i] # NoOp => i \notin free[u] \cup lost[u]
        /\ i \notin free[u] \cap lost[u]
    BY DEF IInv, IdsAccounted
  <2>2. CASE u # r
    BY <1>7, <1>10, <2>1, <2>2, Zenon
  <2>3. CASE u = r
    BY <1>4, <1>7, <1>10, <2>1, <2>3, Zenon
  <2>. QED BY <2>2, <2>3
<1>13. HandleInv'
  <2>1. \A u \in Ranks : next'[u] <= posted'[u]
    BY <1>2, <1>7, SMT DEF IInv, HandleInv
  <2>. QED BY <1>9, <1>10, <2>1 DEF HandleInv
<1>14. OwnerInv'
  <2>1. \A u \in Ranks, i \in Ids : inflight'[u][i] # NoOp => inflight'[u][i] \in Issued(u)'
    BY <1>4, <1>5, <1>10, Zenon DEF IInv, OwnerInv
  <2>. QED BY <1>1, <1>5, <2>1, Zenon DEF IInv, OwnerInv, waiting
<1>15. OwnedOnce'
  <2>1. \A u \in Ranks : /\ o \notin ToSet(requests[u]) \cup freed[u]
                         /\ \A i \in Ids : inflight[u][i] # o
    <3>. TAKE u \in Ranks
    <3>1. o \notin freed[u]
      BY <1>4, Zenon DEF IInv, OwnerInv
    <3>2. \A i \in Ids : inflight[u][i] # o
      BY <1>4, Zenon DEF IInv, OwnerInv
    <3>3. requests[u] \in Seq(Ops) /\ \A i \in 1..Len(requests[u]) : requests[u][i] # o
      BY <1>4, Zenon DEF IInv, OwnerInv, TypeOK
    <3>4. o \notin ToSet(requests[u])
      BY <3>3, SMT DEF ToSet
    <3>. QED BY <3>1, <3>2, <3>4
  <2>2. UNCHANGED <<requests, freed>>
    BY <1>1 DEF waiting
  <2>3. \A u \in Ranks, i, j \in Ids :
          inflight'[u][i] = inflight'[u][j] /\ inflight'[u][i] # NoOp => i = j
    <3>. TAKE u \in Ranks, i, j \in Ids
    <3>1. inflight[u][i] = inflight[u][j] /\ inflight[u][i] # NoOp => i = j
      BY Zenon DEF IInv, OwnedOnce
    <3>2. inflight[u][i] # o /\ inflight[u][j] # o
      BY <2>1
    <3>. QED BY <1>10, <3>1, <3>2, SMT
  <2>4. \A u \in Ranks, i \in Ids : inflight'[u][i] \notin ToSet(requests[u]) \cup freed[u]
    <3>. TAKE u \in Ranks, i \in Ids
    <3>1. inflight[u][i] \notin ToSet(requests[u]) \cup freed[u]
      BY Zenon DEF IInv, OwnedOnce
    <3>2. o \notin ToSet(requests[u]) \cup freed[u]
      BY <2>1
    <3>3. inflight'[u][i] \in {inflight[u][i], o}
      BY <1>10, SMT
    <3>. QED BY <3>1, <3>2, <3>3
  <2>. QED BY <2>2, <2>3, <2>4, Zenon DEF IInv, OwnedOnce
<1>16. WaitInv' /\ WaitallComplete'
  <2>1. UNCHANGED <<batch, requests, outcome, pc, at>>
    BY <1>1 DEF waiting
  <2>2. \A u \in Ranks : \A p \in batch[u] : op'[p] = op[p] /\ p \in Issued(u)'
    <3>. TAKE u \in Ranks
    <3>. TAKE p \in batch[u]
    <3>1. p \in Issued(u) /\ p \in Ops
      BY Zenon DEF IInv, WaitInv, Issued
    <3>. QED BY <1>4, <1>5, <1>8, <3>1
  <2>3. WaitallComplete'
    BY <2>1, <2>2, Zenon DEF IInv, WaitallComplete
  <2>4. WaitInv'
    BY <2>1, <2>2, Zenon DEF IInv, WaitInv
  <2>. QED BY <2>3, <2>4
<1>. QED
  BY <1>11, <1>12, <1>13, <1>14, <1>15, <1>16 DEF IInv

-----------------------------------------------------------------------------
(* waitall: the requests it collects pass from the map to the vector.        *)

Taken(ids, n) == {ids[i] : i \in 1..n}
Collected(r, ids, n) == [i \in 1..n |-> inflight[r][ids[i]]]

LEMMA CollectFacts ==
  ASSUME IInv, NEW r \in Ranks, NEW ids \in Seq(Ids), NEW n \in 0..Len(ids),
         Valid(r, ids, n)
  PROVE  LET S == Taken(ids, n)
             q == Collected(r, ids, n)
         IN  /\ S \subseteq Ids /\ \A i \in S : inflight[r][i] # NoOp
             /\ q \in Seq(Ops) /\ Len(q) = n
             /\ \A i \in 1..n : q[i] \in Issued(r) /\ q[i] \notin freed[r]
             /\ \A i, j \in 1..n : q[i] = q[j] => i = j
             /\ \A i \in Ids \ S : inflight[r][i] \notin ToSet(q)
             /\ ToSet(q) = {inflight[r][ids[i]] : i \in 1..n}
<1>. DEFINE S == Taken(ids, n)
            q == Collected(r, ids, n)
<1>. USE DEF Taken, Collected
<1>1. /\ \A i \in 1..n : ids[i] \in Ids
      /\ n \in Nat
  BY SMT
<1>2. inflight \in [Ranks -> [Ids -> Ops \cup {NoOp}]]
  BY DEF IInv, TypeOK
<1>3. S \subseteq Ids
  BY <1>1
<1>4. \A i \in 1..n : inflight[r][ids[i]] # NoOp
  BY DEF Valid
<1>5. \A i \in S : inflight[r][i] # NoOp
  BY <1>4
<1>6. \A i \in 1..n : q[i] = inflight[r][ids[i]]
  BY <1>1, SMT
<1>7. ASSUME NEW i \in 1..n
      PROVE  /\ q[i] \in Ops /\ q[i] \in Issued(r)
             /\ q[i] \notin ToSet(requests[r]) \cup freed[r]
  <2>1. q[i] \in Ops
    BY <1>1, <1>2, <1>4, <1>6, SMT
  <2>2. inflight[r][ids[i]] \in Issued(r)
        /\ inflight[r][ids[i]] \notin ToSet(requests[r]) \cup freed[r]
    BY <1>1, <1>4, Zenon DEF IInv, OwnerInv, OwnedOnce
  <2>. QED BY <1>6, <2>1, <2>2
<1>8. q \in Seq(Ops) /\ Len(q) = n
  <2>1. q \in [1..n -> Ops]
    BY <1>6, <1>7
  <2>. QED BY <1>1, <2>1, SMT
<1>9. ASSUME NEW i \in 1..n, NEW j \in 1..n, q[i] = q[j]
      PROVE  i = j
  <2>1. ids[i] = ids[j]
    <3>1. inflight[r][ids[i]] = inflight[r][ids[j]]
      BY <1>6, <1>9
    <3>2. \A a, b \in Ids : inflight[r][a] = inflight[r][b]
                            /\ inflight[r][a] # NoOp => a = b
      BY Zenon DEF IInv, OwnedOnce
    <3>3. ids[i] \in Ids /\ ids[j] \in Ids /\ inflight[r][ids[i]] # NoOp
      BY <1>1, <1>4
    <3>. QED BY <3>1, <3>2, <3>3, Zenon
  <2>2. ~(i < j)
    <3>. SUFFICES ASSUME i < j PROVE FALSE
      OBVIOUS
    <3>1. i \in 1..(j - 1)
      BY SMT
    <3>. QED BY <2>1, <3>1, Zenon DEF Valid
  <2>3. ~(j < i)
    <3>. SUFFICES ASSUME j < i PROVE FALSE
      OBVIOUS
    <3>1. j \in 1..(i - 1)
      BY SMT
    <3>. QED BY <2>1, <3>1, Zenon DEF Valid
  <2>. QED BY <1>1, <2>2, <2>3, SMT
<1>10. ToSet(q) = {inflight[r][ids[i]] : i \in 1..n}
  BY <1>6, SMT DEF ToSet
<1>11. ASSUME NEW i \in Ids \ S PROVE inflight[r][i] \notin ToSet(q)
  <2>. SUFFICES ASSUME NEW j \in 1..n, inflight[r][i] = inflight[r][ids[j]]
       PROVE FALSE
    BY <1>10
  <2>1. i = ids[j]
    BY <1>1, <1>4, Zenon DEF IInv, OwnedOnce
  <2>. QED BY <2>1
<1>. HIDE DEF Taken, Collected
<1>. QED
  BY <1>3, <1>5, <1>7, <1>8, <1>9, <1>10, <1>11

LEMMA WaitallStep ==
  ASSUME IInv, NEW r \in Ranks, NEW ids \in BoundedSeq(0..next[r], MaxBatch[r]),
         waitall(r, ids)
  PROVE  IInv'
<1>1. next[r] \in Ids
  BY DEF IInv, TypeOK
<1>2. ids \in Seq(Ids) /\ Len(ids) \in Nat
  BY <1>1, ArrayFacts
<1>3. PICK n \in 0..Len(ids) :
        /\ pc[r] = "run" /\ Valid(r, ids, n)
        /\ FreeIds(r, ids, n)
        /\ Erase(r, {ids[i] : i \in 1..n})
        /\ held' = [held EXCEPT ![r] = [i \in Ids |->
                      IF \E j \in 1..n : i = ids[j] THEN NoOp ELSE held[r][i]]]
        /\ at' = [at EXCEPT ![r] = 0]
        /\ IF n = Len(ids)
             THEN /\ requests' = [requests EXCEPT ![r] =
                                    [i \in 1..n |-> inflight[r][ids[i]]]]
                  /\ pc' = [pc EXCEPT ![r] = "wait"]
                  /\ outcome' = [outcome EXCEPT ![r] = "none"]
                  /\ batch' = [batch EXCEPT ![r] = {held[r][ids[i]] : i \in 1..n}]
             ELSE /\ outcome' = [outcome EXCEPT ![r] = "invalid"]
                  /\ batch' = [batch EXCEPT ![r] = {}]
                  /\ UNCHANGED <<requests, pc>>
        /\ UNCHANGED <<op, posted, next, lost, late, freed, fresh>>
  BY Zenon DEF waitall
<1>. DEFINE S == Taken(ids, n)
            q == Collected(r, ids, n)
<1>4. /\ S \subseteq Ids /\ \A i \in S : inflight[r][i] # NoOp
      /\ q \in Seq(Ops) /\ Len(q) = n
      /\ \A i \in 1..n : q[i] \in Issued(r) /\ q[i] \notin freed[r]
      /\ \A i, j \in 1..n : q[i] = q[j] => i = j
      /\ \A i \in Ids \ S : inflight[r][i] \notin ToSet(q)
      /\ ToSet(q) = {inflight[r][ids[i]] : i \in 1..n}
  BY <1>2, <1>3, CollectFacts
<1>5. /\ inflight \in [Ranks -> [Ids -> Ops \cup {NoOp}]]
      /\ held \in [Ranks -> [Ids -> Ops \cup {NoOp}]]
      /\ free \in [Ranks -> SUBSET Ids] /\ at \in [Ranks -> Nat]
      /\ requests \in [Ranks -> Seq(Ops)] /\ pc \in [Ranks -> {"run", "wait"}]
      /\ outcome \in [Ranks -> Outcomes] /\ freed \in [Ranks -> SUBSET Ops]
      /\ batch \in [Ranks -> SUBSET (Ops \cup {NoOp})]
  BY DEF IInv, TypeOK
<1>6. /\ free' = [free EXCEPT ![r] = free[r] \cup S]
      /\ inflight' = [inflight EXCEPT ![r] =
                        [i \in Ids |-> IF i \in S THEN NoOp ELSE inflight[r][i]]]
      /\ held' = [held EXCEPT ![r] =
                    [i \in Ids |-> IF i \in S THEN NoOp ELSE held[r][i]]]
  <2>1. \A i : (\E j \in 1..n : i = ids[j]) <=> i \in S
    BY DEF Taken
  <2>2. held' = [held EXCEPT ![r] =
                  [i \in Ids |-> IF i \in S THEN NoOp ELSE held[r][i]]]
    <3>1. [i \in Ids |-> IF \E j \in 1..n : i = ids[j] THEN NoOp ELSE held[r][i]]
            = [i \in Ids |-> IF i \in S THEN NoOp ELSE held[r][i]]
      BY <2>1
    <3>. QED BY <1>3, <3>1, Zenon
  <2>. QED BY <1>3, <2>2, Zenon DEF FreeIds, Erase, Taken
<1>. HIDE DEF S, q
<1>7. /\ free' \in [Ranks -> SUBSET Ids] /\ free'[r] = free[r] \cup S
      /\ \A u \in Ranks : u # r => free'[u] = free[u]
  BY <1>4, <1>5, <1>6
<1>8. /\ inflight' \in [Ranks -> [Ids -> Ops \cup {NoOp}]]
      /\ \A i \in Ids : inflight'[r][i] = IF i \in S THEN NoOp ELSE inflight[r][i]
      /\ \A u \in Ranks : u # r => inflight'[u] = inflight[u]
  BY <1>5, <1>6
<1>9. /\ held' \in [Ranks -> [Ids -> Ops \cup {NoOp}]]
      /\ \A i \in Ids : held'[r][i] = IF i \in S THEN NoOp ELSE held[r][i]
      /\ \A u \in Ranks : u # r => held'[u] = held[u]
  BY <1>5, <1>6
<1>10. /\ \A u \in Ranks : Issued(u)' = Issued(u)
  BY <1>3 DEF Issued
<1>11. held[r] = inflight[r]
  BY DEF IInv, HandleInv
(* The vector, the iterator and the caller's view afterwards. *)
<1>12. /\ requests' \in [Ranks -> Seq(Ops)] /\ at' \in [Ranks -> Nat]
       /\ \A u \in Ranks : u # r =>
            /\ requests'[u] = requests[u] /\ at'[u] = at[u] /\ pc'[u] = pc[u]
            /\ outcome'[u] = outcome[u] /\ batch'[u] = batch[u]
       /\ at'[r] = 0
       /\ pc' \in [Ranks -> {"run", "wait"}]
       /\ outcome' \in [Ranks -> Outcomes]
       /\ batch' \in [Ranks -> SUBSET (Ops \cup {NoOp})]
       /\ \/ /\ requests'[r] = q /\ pc'[r] = "wait" /\ outcome'[r] = "none"
             /\ batch'[r] = ToSet(q)
          \/ /\ requests'[r] = <<>> /\ pc'[r] = "run" /\ outcome'[r] = "invalid"
             /\ batch'[r] = {}
  <2>1. requests[r] = <<>>
    BY <1>3, Zenon DEF IInv, WaitInv
  <2>2. {held[r][ids[i]] : i \in 1..n} = ToSet(q)
    BY <1>4, <1>11
  <2>3. ToSet(q) \subseteq Ops
    BY <1>4, SMT DEF ToSet
  <2>4. CASE n = Len(ids)
    <3>1. /\ requests' = [requests EXCEPT ![r] = q]
          /\ pc' = [pc EXCEPT ![r] = "wait"]
          /\ outcome' = [outcome EXCEPT ![r] = "none"]
          /\ batch' = [batch EXCEPT ![r] = ToSet(q)]
      BY <1>3, <2>2, <2>4, Zenon DEF q, Collected
    <3>. QED BY <1>3, <1>4, <1>5, <2>3, <3>1, SMT DEF Outcomes
  <2>5. CASE n # Len(ids)
    <3>1. /\ outcome' = [outcome EXCEPT ![r] = "invalid"]
          /\ batch' = [batch EXCEPT ![r] = {}]
          /\ requests' = requests /\ pc' = pc
      BY <1>3, <2>5, Zenon
    <3>. QED BY <1>3, <1>5, <2>1, <3>1, SMT DEF Outcomes
  <2>. QED BY <2>4, <2>5
<1>13. TypeOK'
  <2>1. \A u \in Ranks : at'[u] <= Len(requests'[u]) /\ posted'[u] <= MaxOps[u]
    BY <1>3, <1>4, <1>12, SMT DEF IInv, TypeOK
  <2>. QED BY <1>3, <1>7, <1>8, <1>9, <1>12, <2>1 DEF IInv, TypeOK
<1>14. IdsAccounted'
  <2>. SUFFICES ASSUME NEW u \in Ranks, NEW i \in Ids
       PROVE  /\ i < next[u] <=> inflight'[u][i] # NoOp \/ i \in free'[u] \/ i \in lost[u]
              /\ inflight'[u][i] # NoOp => i \notin free'[u] \cup lost[u]
              /\ i \notin free'[u] \cap lost[u]
    BY <1>3, Zenon DEF IdsAccounted
  <2>1. /\ i < next[u] <=> inflight[u][i] # NoOp \/ i \in free[u] \/ i \in lost[u]
        /\ inflight[u][i] # NoOp => i \notin free[u] \cup lost[u]
        /\ i \notin free[u] \cap lost[u]
    BY DEF IInv, IdsAccounted
  <2>. QED BY <1>4, <1>7, <1>8, <2>1
<1>15. HandleInv'
  <2>1. held'[r] = inflight'[r]
    BY <1>8, <1>9, <1>11, SMT
  <2>. QED BY <1>3, <1>8, <1>9, <2>1 DEF IInv, HandleInv
<1>16. OwnerInv'
  <2>. SUFFICES ASSUME NEW u \in Ranks
       PROVE  /\ \A i \in Ids : inflight'[u][i] # NoOp => inflight'[u][i] \in Issued(u)
              /\ \A i \in 1..Len(requests'[u]) : requests'[u][i] \in Issued(u)
              /\ freed'[u] \subseteq Issued(u)
    BY <1>10, Zenon DEF OwnerInv
  <2>1. /\ \A i \in Ids : inflight[u][i] # NoOp => inflight[u][i] \in Issued(u)
        /\ \A i \in 1..Len(requests[u]) : requests[u][i] \in Issued(u)
        /\ freed[u] \subseteq Issued(u)
    BY Zenon DEF IInv, OwnerInv
  <2>2. \A i \in Ids : inflight'[u][i] # NoOp => inflight'[u][i] \in Issued(u)
    BY <1>8, <2>1
  <2>3. \A i \in 1..Len(requests'[u]) : requests'[u][i] \in Issued(u)
    <3>1. CASE u # r
      BY <1>12, <2>1, <3>1, Zenon
    <3>2. CASE u = r /\ requests'[r] = q
      BY <1>4, <3>2, Zenon
    <3>3. CASE u = r /\ requests'[r] = <<>>
      BY <3>3, SMT
    <3>. QED BY <1>12, <3>1, <3>2, <3>3
  <2>. QED BY <1>3, <2>1, <2>2, <2>3
<1>17. OwnedOnce'
  <2>. SUFFICES ASSUME NEW u \in Ranks
       PROVE  /\ \A i, j \in Ids : inflight'[u][i] = inflight'[u][j]
                                   /\ inflight'[u][i] # NoOp => i = j
              /\ \A i, j \in 1..Len(requests'[u]) :
                   requests'[u][i] = requests'[u][j] => i = j
              /\ \A i \in Ids : inflight'[u][i] \notin ToSet(requests'[u]) \cup freed'[u]
              /\ ToSet(requests'[u]) \cap freed'[u] = {}
    BY Zenon DEF OwnedOnce, ToSet
  <2>1. /\ \A i, j \in Ids : inflight[u][i] = inflight[u][j]
                             /\ inflight[u][i] # NoOp => i = j
        /\ \A i, j \in 1..Len(requests[u]) : requests[u][i] = requests[u][j] => i = j
        /\ \A i \in Ids : inflight[u][i] \notin ToSet(requests[u]) \cup freed[u]
        /\ ToSet(requests[u]) \cap freed[u] = {}
    BY Zenon DEF IInv, OwnedOnce
  <2>2. freed' = freed /\ NoOp \notin Ops /\ freed[u] \subseteq Ops
    BY <1>3, <1>5, NoOpAssumption
  <2>3. CASE u # r
    <3>1. inflight'[u] = inflight[u] /\ requests'[u] = requests[u] /\ freed'[u] = freed[u]
      BY <1>8, <1>12, <2>2, <2>3
    <3>. QED BY <2>1, <3>1, Zenon DEF ToSet
  <2>4. CASE u = r
    <3>1. \A i, j \in Ids : inflight'[u][i] = inflight'[u][j]
                            /\ inflight'[u][i] # NoOp => i = j
      BY <1>8, <2>1, <2>4
    <3>2. CASE requests'[r] = q
      <4>1. \A x \in ToSet(q) : x \in Ops /\ x \notin freed[r]
        BY <1>4, SMT DEF ToSet
      <4>2. \A i \in Ids : inflight'[r][i] \notin ToSet(q) \cup freed[r]
        BY <1>4, <1>8, <2>1, <2>2, <2>4, <4>1
      <4>. QED BY <1>4, <2>2, <2>4, <3>1, <3>2, <4>1, <4>2
    <3>3. CASE requests'[r] = <<>>
      <4>1. Len(<<>>) = 0 /\ ToSet(<<>>) = {}
        BY SMT DEF ToSet
      <4>2. \A i \in Ids : inflight'[r][i] \notin freed[r]
        BY <1>8, <2>1, <2>2, <2>4
      <4>. QED BY <2>2, <2>4, <3>1, <3>3, <4>1, <4>2, SMT
    <3>. QED BY <1>12, <3>2, <3>3
  <2>. QED BY <2>3, <2>4
<1>18. WaitInv' /\ WaitallComplete'
  <2>1. op' = op
    BY <1>3
  <2>2. ToSet(q) \subseteq Issued(r)
    BY <1>4, SMT DEF ToSet
  <2>3. WaitallComplete'
    <3>1. outcome'[r] # "ok"
      BY <1>12
    <3>. QED BY <1>12, <2>1, <3>1, Zenon DEF IInv, WaitallComplete
  <2>4. WaitInv'
    <3>. SUFFICES ASSUME NEW u \in Ranks
         PROVE  /\ batch'[u] \subseteq Issued(u)
                /\ pc'[u] = "run" => requests'[u] = <<>> /\ at'[u] = 0
                /\ pc'[u] = "wait" =>
                     /\ outcome'[u] = "none"
                     /\ \A o \in batch'[u] :
                          o \in ToSet(requests'[u]) \/ Completed(op[o].state)
      BY <1>10, <2>1, Zenon DEF WaitInv, ToSet
    <3>1. CASE u # r
      BY <1>12, <3>1, Zenon DEF IInv, WaitInv
    <3>2. CASE u = r
      BY <1>12, <2>2, <3>2, Zenon
    <3>. QED BY <3>1, <3>2
  <2>. QED BY <2>3, <2>4
<1>. QED
  BY <1>13, <1>14, <1>15, <1>16, <1>17, <1>18 DEF IInv

-----------------------------------------------------------------------------
(* Inside waitall: an operation leaves the vector only when it has completed *)
(* and its request is released, or when the call throws.                     *)

LEMMA ReturnStep ==
  ASSUME IInv, NEW r \in Ranks, NEW how \in {"ok", "timeout", "error"},
         Return(r, how), how = "ok" => requests[r] = <<>>, pc[r] = "wait",
         op' \in OpType,
         \A o \in Ops : Completed(op[o].state) => Completed(op'[o].state),
         UNCHANGED <<posted, handles, freed>>
  PROVE  IInv'
<1>1. /\ at \in [Ranks -> Nat] /\ requests \in [Ranks -> Seq(Ops)]
      /\ pc \in [Ranks -> {"run", "wait"}] /\ outcome \in [Ranks -> Outcomes]
      /\ batch \in [Ranks -> SUBSET (Ops \cup {NoOp})]
      /\ late \in [Ranks -> BOOLEAN] /\ fresh \in [Ranks -> BOOLEAN]
  BY DEF IInv, TypeOK
<1>2. /\ requests' = [requests EXCEPT ![r] = <<>>]
      /\ at' = [at EXCEPT ![r] = 0]
      /\ pc' = [pc EXCEPT ![r] = "run"]
      /\ outcome' = [outcome EXCEPT ![r] = how]
      /\ batch' = [batch EXCEPT ![r] = IF how = "ok" THEN batch[r] ELSE {}]
      /\ late' = [late EXCEPT ![r] = FALSE]
      /\ fresh' = [fresh EXCEPT ![r] = FALSE]
  BY Zenon DEF Return
<1>3. /\ requests' \in [Ranks -> Seq(Ops)] /\ at' \in [Ranks -> Nat]
      /\ pc' \in [Ranks -> {"run", "wait"}] /\ outcome' \in [Ranks -> Outcomes]
      /\ batch' \in [Ranks -> SUBSET (Ops \cup {NoOp})]
      /\ requests'[r] = <<>> /\ at'[r] = 0 /\ pc'[r] = "run" /\ outcome'[r] = how
      /\ batch'[r] \subseteq batch[r]
      /\ \A u \in Ranks : u # r =>
           /\ requests'[u] = requests[u] /\ at'[u] = at[u] /\ pc'[u] = pc[u]
           /\ outcome'[u] = outcome[u] /\ batch'[u] = batch[u]
  BY <1>1, <1>2, SMT DEF Outcomes
<1>4. late' \in [Ranks -> BOOLEAN] /\ fresh' \in [Ranks -> BOOLEAN]
  BY <1>1, <1>2, Zenon
<1>5. \A u \in Ranks : Issued(u)' = Issued(u)
  BY DEF Issued
<1>6. Len(<<>>) = 0 /\ ToSet(<<>>) = {}
  BY SMT DEF ToSet
<1>7. TypeOK'
  <2>1. \A u \in Ranks : at'[u] <= Len(requests'[u]) /\ posted'[u] <= MaxOps[u]
    BY <1>3, <1>6, SMT DEF IInv, TypeOK
  <2>. QED BY <1>3, <1>4, <2>1 DEF IInv, TypeOK, OpType, handles
<1>8. IdsAccounted' /\ HandleInv'
  BY Zenon DEF IInv, IdsAccounted, HandleInv, handles
<1>9. OwnerInv'
  <2>. SUFFICES ASSUME NEW u \in Ranks
       PROVE  /\ \A i \in Ids : inflight'[u][i] # NoOp => inflight'[u][i] \in Issued(u)
              /\ \A i \in 1..Len(requests'[u]) : requests'[u][i] \in Issued(u)
              /\ freed'[u] \subseteq Issued(u)
    BY <1>5, Zenon DEF OwnerInv
  <2>1. /\ \A i \in Ids : inflight[u][i] # NoOp => inflight[u][i] \in Issued(u)
        /\ \A i \in 1..Len(requests[u]) : requests[u][i] \in Issued(u)
        /\ freed[u] \subseteq Issued(u)
    BY Zenon DEF IInv, OwnerInv
  <2>2. \A i \in 1..Len(requests'[u]) : requests'[u][i] \in Issued(u)
    <3>1. CASE u # r
      BY <1>3, <2>1, <3>1, Zenon
    <3>2. CASE u = r
      BY <1>3, <3>2, SMT
    <3>. QED BY <3>1, <3>2
  <2>. QED BY <2>1, <2>2 DEF handles
<1>10. OwnedOnce'
  <2>. SUFFICES ASSUME NEW u \in Ranks
       PROVE  /\ \A i, j \in Ids : inflight[u][i] = inflight[u][j]
                                   /\ inflight[u][i] # NoOp => i = j
              /\ \A i, j \in 1..Len(requests'[u]) :
                   requests'[u][i] = requests'[u][j] => i = j
              /\ \A i \in Ids : inflight[u][i] \notin ToSet(requests'[u]) \cup freed[u]
              /\ ToSet(requests'[u]) \cap freed[u] = {}
    BY Zenon DEF OwnedOnce, ToSet, handles
  <2>1. /\ \A i, j \in Ids : inflight[u][i] = inflight[u][j]
                             /\ inflight[u][i] # NoOp => i = j
        /\ \A i, j \in 1..Len(requests[u]) : requests[u][i] = requests[u][j] => i = j
        /\ \A i \in Ids : inflight[u][i] \notin ToSet(requests[u]) \cup freed[u]
        /\ ToSet(requests[u]) \cap freed[u] = {}
    BY Zenon DEF IInv, OwnedOnce
  <2>2. CASE u # r
    <3>1. requests'[u] = requests[u]
      BY <1>3, <2>2
    <3>. QED BY <2>1, <3>1, Zenon
  <2>3. CASE u = r
    <3>1. requests'[u] = <<>>
      BY <1>3, <2>3
    <3>2. \A i, j \in 1..Len(requests'[u]) : requests'[u][i] = requests'[u][j] => i = j
      BY <1>6, <3>1, SMT
    <3>3. ToSet(requests'[u]) = {}
      BY <1>6, <3>1
    <3>. QED BY <2>1, <3>2, <3>3
  <2>. QED BY <2>2, <2>3
<1>11. \A u \in Ranks : batch[u] \subseteq Ops
  BY Zenon DEF IInv, WaitInv, Issued
<1>12. WaitInv'
  <2>. SUFFICES ASSUME NEW u \in Ranks
       PROVE  /\ batch'[u] \subseteq Issued(u)
              /\ pc'[u] = "run" => requests'[u] = <<>> /\ at'[u] = 0
              /\ pc'[u] = "wait" =>
                   /\ outcome'[u] = "none"
                   /\ \A o \in batch'[u] :
                        o \in ToSet(requests'[u]) \/ Completed(op'[o].state)
    BY <1>5, Zenon DEF WaitInv, ToSet
  <2>1. /\ batch[u] \subseteq Issued(u)
        /\ pc[u] = "run" => requests[u] = <<>> /\ at[u] = 0
        /\ pc[u] = "wait" =>
             /\ outcome[u] = "none"
             /\ \A o \in batch[u] :
                  o \in ToSet(requests[u]) \/ Completed(op[o].state)
    BY Zenon DEF IInv, WaitInv
  <2>2. CASE u # r
    <3>1. /\ batch'[u] = batch[u] /\ pc'[u] = pc[u] /\ outcome'[u] = outcome[u]
          /\ requests'[u] = requests[u] /\ at'[u] = at[u]
      BY <1>3, <2>2
    <3>. QED BY <1>11, <2>1, <3>1, Zenon
  <2>3. CASE u = r
    BY <1>3, <2>1, <2>3, Zenon
  <2>. QED BY <2>2, <2>3
<1>13. WaitallComplete'
  <2>. SUFFICES ASSUME NEW u \in Ranks, outcome'[u] = "ok", NEW o \in batch'[u]
       PROVE  Completed(op'[o].state)
    BY Zenon DEF WaitallComplete, Completed
  <2>1. CASE u # r
    <3>1. Completed(op[o].state) /\ o \in Ops
      BY <1>3, <1>11, <2>1, Zenon DEF IInv, WaitallComplete, Completed
    <3>. QED BY <3>1
  <2>2. CASE u = r
    <3>1. o \in batch[r] /\ requests[r] = <<>>
      BY <1>3, <2>2
    <3>2. o \in ToSet(requests[r]) \/ Completed(op[o].state)
      BY <3>1, Zenon DEF IInv, WaitInv
    <3>. QED BY <1>6, <1>11, <3>1, <3>2
  <2>. QED BY <2>1, <2>2
<1>. QED
  BY <1>7, <1>8, <1>9, <1>10, <1>12, <1>13 DEF IInv

LEMMA WaitHeadStep ==
  ASSUME IInv, NEW r \in Ranks, WaitHead(r)
  PROVE  IInv'
<1>1. /\ op \in OpType /\ at \in [Ranks -> Nat] /\ requests[r] \in Seq(Ops)
      /\ late \in [Ranks -> BOOLEAN] /\ fresh \in [Ranks -> BOOLEAN]
  BY DEF IInv, TypeOK, OpType
<1>2. pc[r] = "wait" /\ UNCHANGED <<op, posted, handles, freed>>
  BY Zenon DEF WaitHead
<1>3. \/ requests[r] = <<>> /\ Return(r, "ok")
      \/ Return(r, "timeout")
      \/ /\ requests[r] # <<>> /\ at' = [at EXCEPT ![r] = 1]
         /\ UNCHANGED <<pc, outcome, requests, late, batch, fresh>>
  BY DEF WaitHead
<1>4. CASE requests[r] = <<>> /\ Return(r, "ok")
  BY <1>1, <1>2, <1>4, ReturnStep
<1>5. CASE Return(r, "timeout")
  BY <1>1, <1>2, <1>5, ReturnStep
<1>6. CASE /\ requests[r] # <<>> /\ at' = [at EXCEPT ![r] = 1]
           /\ UNCHANGED <<pc, outcome, requests, late, batch, fresh>>
  <2>1. /\ at' \in [Ranks -> Nat] /\ at'[r] = 1
        /\ \A u \in Ranks : u # r => at'[u] = at[u]
    BY <1>1, <1>6
  <2>2. Len(requests[r]) >= 1
    BY <1>1, <1>6, SMT
  <2>3. \A u \in Ranks : Issued(u)' = Issued(u)
    BY <1>2 DEF Issued
  <2>4. TypeOK'
    <3>1. \A u \in Ranks : at'[u] <= Len(requests'[u]) /\ posted'[u] <= MaxOps[u]
      BY <1>2, <1>6, <2>1, <2>2, SMT DEF IInv, TypeOK
    <3>. QED BY <1>2, <1>6, <2>1, <3>1 DEF IInv, TypeOK, handles
  <2>5. IdsAccounted' /\ HandleInv' /\ WaitallComplete'
    BY <1>2, <1>6, Zenon DEF IInv, IdsAccounted, HandleInv, WaitallComplete, handles
  <2>6. OwnerInv' /\ OwnedOnce'
    BY <1>2, <1>6, <2>3, SMT DEF IInv, OwnerInv, OwnedOnce, ToSet, handles
  <2>7. WaitInv'
    <3>. SUFFICES ASSUME NEW u \in Ranks
         PROVE  /\ batch[u] \subseteq Issued(u)
                /\ pc[u] = "run" => requests[u] = <<>> /\ at'[u] = 0
                /\ pc[u] = "wait" =>
                     /\ outcome[u] = "none"
                     /\ \A o \in batch[u] :
                          o \in ToSet(requests[u]) \/ Completed(op[o].state)
      BY <1>2, <1>6, <2>3, Zenon DEF WaitInv, ToSet
    <3>. QED BY <1>2, <2>1, Zenon DEF IInv, WaitInv
  <2>. QED BY <2>4, <2>5, <2>6, <2>7 DEF IInv
<1>. QED BY <1>3, <1>4, <1>5, <1>6

LEMMA PumpFacts ==
  ASSUME IInv, NEW r \in Ranks, NEW restart \in BOOLEAN, Pump(r, restart)
  PROVE  /\ op' \in OpType
         /\ \A o \in Ops : Completed(op[o].state) => Completed(op'[o].state)
<1>1. Ucxx \in BOOLEAN
  BY VariantAssumption
<1>2. op' = op \/ \E E \in SUBSET Events(r) : Complete(E)
  BY <1>1 DEF Pump
<1>3. CASE op' = op
  BY <1>3 DEF IInv, TypeOK, OpType
<1>4. CASE \E E \in SUBSET Events(r) : Complete(E)
  BY <1>4, EventsKept DEF IInv
<1>. QED BY <1>2, <1>3, <1>4

LEMMA AdvanceFacts ==
  ASSUME NEW len \in Nat, NEW i \in 1..len, NEW erased \in BOOLEAN
  PROVE  /\ Advance(i, len, erased) \in Nat
         /\ Advance(i, len, erased) <= IF erased THEN len - 1 ELSE len
BY SMT DEF Advance

(* The vector after a request has been released, or kept. *)
VectorAfter(r, i, complete) ==
  IF complete THEN RemoveAt(requests[r], i) ELSE requests[r]
FreedAfter(r, i, complete) ==
  IF complete THEN freed[r] \cup {requests[r][i]} ELSE freed[r]

(* What a round of the for loop leaves of the vector and of the released     *)
(* requests, in terms of the vector before it.                               *)
VisitPost(r, i, complete, q, f) ==
  /\ q \in Seq(Ops) /\ f \subseteq Issued(r)
  /\ Len(q) = IF complete THEN Len(requests[r]) - 1 ELSE Len(requests[r])
  /\ \A j \in 1..Len(q) : q[j] \in Issued(r)
  /\ \A j, k \in 1..Len(q) : q[j] = q[k] => j = k
  /\ ToSet(q) \cap f = {}
  /\ \A j \in Ids : inflight[r][j] \notin ToSet(q) \cup f
  /\ \A o \in ToSet(requests[r]) :
       o \in ToSet(q) \/ (complete /\ o = requests[r][i])

LEMMA VisitFacts ==
  ASSUME IInv, NEW r \in Ranks, NEW i \in 1..Len(requests[r]),
         NEW complete \in BOOLEAN
  PROVE  VisitPost(r, i, complete, VectorAfter(r, i, complete),
                   FreedAfter(r, i, complete))
<1>. DEFINE s == requests[r]
            q == VectorAfter(r, i, complete)
            f == FreedAfter(r, i, complete)
<1>1. s \in Seq(Ops) /\ Len(s) \in Nat
  BY Zenon, LenProperties DEF IInv, TypeOK
<1>2. /\ \A j \in 1..Len(s) : s[j] \in Issued(r)
      /\ freed[r] \subseteq Issued(r)
  BY Zenon DEF IInv, OwnerInv
<1>3. /\ \A j, k \in 1..Len(s) : s[j] = s[k] => j = k
      /\ \A j \in Ids : inflight[r][j] \notin ToSet(s) \cup freed[r]
      /\ ToSet(s) \cap freed[r] = {}
  BY Zenon DEF IInv, OwnedOnce
<1>0. /\ q = IF complete THEN RemoveAt(s, i) ELSE s
      /\ f = IF complete THEN freed[r] \cup {s[i]} ELSE freed[r]
      /\ i \in 1..Len(s)
  BY DEF VectorAfter, FreedAfter
<1>. HIDE DEF s, q, f
<1>4. \A x : x \in ToSet(s) <=> \E j \in 1..Len(s) : x = s[j]
  BY <1>1, SMT DEF ToSet
<1>5. CASE ~complete
  BY <1>0, <1>1, <1>2, <1>3, <1>5, Zenon DEF s, q, f, VisitPost
<1>6. CASE complete
  <2>1. q = RemoveAt(s, i) /\ f = freed[r] \cup {s[i]} /\ i \in 1..Len(s)
    BY <1>0, <1>6
  <2>2. /\ q \in Seq(Ops) /\ Len(q) = Len(s) - 1
        /\ \A j \in 1..(Len(s) - 1) : q[j] = IF j < i THEN s[j] ELSE s[j + 1]
    BY <1>1, <2>1, RemoveAtFacts
  <2>3. \A x : x \in ToSet(q) <=> \E j \in 1..Len(q) : x = q[j]
    BY <2>2, SMT DEF ToSet
  (* Where an element of the shorter vector was before. *)
  <2>. DEFINE old(j) == IF j < i THEN j ELSE j + 1
  <2>4. \A j \in 1..Len(q) : /\ old(j) \in 1..Len(s) /\ old(j) # i
                             /\ q[j] = s[old(j)]
    BY <1>1, <2>1, <2>2, SMT
  <2>5. \A j, k \in 1..Len(q) : old(j) = old(k) => j = k
    BY <1>1, <2>1, <2>2, SMT
  <2>6. \A j \in 1..Len(s) : j # i => \E k \in 1..Len(q) : old(k) = j
    <3>. SUFFICES ASSUME NEW j \in 1..Len(s), j # i
         PROVE \E k \in 1..Len(q) : old(k) = j
      OBVIOUS
    <3>1. CASE j < i
      <4>1. j \in 1..Len(q) /\ old(j) = j
        BY <1>1, <2>1, <2>2, <3>1, SMT
      <4>. QED BY <4>1
    <3>2. CASE ~(j < i)
      <4>1. j - 1 \in 1..Len(q) /\ old(j - 1) = j
        BY <1>1, <2>1, <2>2, <3>2, SMT
      <4>. QED BY <4>1
    <3>. QED BY <3>1, <3>2
  <2>. HIDE DEF old
  <2>7. \A j, k \in 1..Len(q) : q[j] = q[k] => j = k
    <3>. TAKE j, k \in 1..Len(q)
    <3>1. q[j] = s[old(j)] /\ old(j) \in 1..Len(s)
      BY <2>4
    <3>2. q[k] = s[old(k)] /\ old(k) \in 1..Len(s)
      BY <2>4
    <3>3. s[old(j)] = s[old(k)] => old(j) = old(k)
      BY <1>3, <3>1, <3>2
    <3>. QED BY <2>5, <3>1, <3>2, <3>3
  <2>8. \A x \in ToSet(q) : x \in ToSet(s) /\ x # s[i]
    <3>. TAKE x \in ToSet(q)
    <3>1. PICK j \in 1..Len(q) : x = q[j]
      BY <2>3
    <3>2. x = s[old(j)] /\ old(j) \in 1..Len(s) /\ old(j) # i
      BY <2>4, <3>1
    <3>3. s[old(j)] = s[i] => old(j) = i
      BY <1>3, <2>1, <3>2
    <3>. QED BY <1>4, <3>2, <3>3
  <2>9. s[i] \in ToSet(s)
    BY <1>4, <2>1
  <2>10. \A x \in ToSet(s) : x \in ToSet(q) \/ x = s[i]
    <3>. TAKE x \in ToSet(s)
    <3>1. PICK j \in 1..Len(s) : x = s[j]
      BY <1>4
    <3>2. CASE j = i
      BY <3>1, <3>2
    <3>3. CASE j # i
      <4>1. PICK k \in 1..Len(q) : old(k) = j
        BY <2>6, <3>3
      <4>2. q[k] = x
        BY <2>4, <3>1, <4>1
      <4>. QED BY <2>3, <4>2
    <3>. QED BY <3>2, <3>3
  <2>11. \A j \in 1..Len(q) : q[j] \in Issued(r)
    BY <1>2, <2>4, Zenon
  <2>12. f \subseteq Issued(r)
    BY <1>2, <2>1
  <2>13. ToSet(q) \cap f = {}
    BY <1>3, <2>1, <2>8
  <2>14. \A j \in Ids : inflight[r][j] \notin ToSet(q) \cup f
    BY <1>3, <2>1, <2>8, <2>9
  <2>. QED BY <1>6, <2>2, <2>7, <2>10, <2>11, <2>12, <2>13, <2>14, Zenon DEF s, q, f, VisitPost
<1>. QED BY <1>5, <1>6 DEF q, f

LEMMA WaitVisitStep ==
  ASSUME IInv, NEW r \in Ranks, WaitVisit(r)
  PROVE  IInv'
<1>. DEFINE i == at[r]
            o == requests[r][i]
            complete == Completed(op'[o].state)
<1>1. /\ at \in [Ranks -> Nat] /\ requests \in [Ranks -> Seq(Ops)]
      /\ freed \in [Ranks -> SUBSET Ops] /\ i <= Len(requests[r])
      /\ late \in [Ranks -> BOOLEAN] /\ fresh \in [Ranks -> BOOLEAN]
  BY DEF IInv, TypeOK
<1>2. pc[r] = "wait" /\ i > 0 /\ UNCHANGED <<posted, handles>>
  BY Zenon DEF WaitVisit
<1>3. i \in 1..Len(requests[r]) /\ Len(requests[r]) \in Nat
  BY <1>1, <1>2, SMT
<1>4. PICK restart \in BOOLEAN :
        /\ Pump(r, restart)
        /\ IF Throws(op'[o].state)
             THEN Return(r, "error") /\ UNCHANGED freed
             ELSE /\ late' = [late EXCEPT ![r] = late[r] /\ ~(restart \/ complete)]
                  /\ fresh' = [fresh EXCEPT ![r] = fresh[r] \/ op' # op]
                  /\ freed' = [freed EXCEPT ![r] =
                                 IF complete THEN freed[r] \cup {o} ELSE freed[r]]
                  /\ requests' = [requests EXCEPT ![r] =
                                    IF complete THEN RemoveAt(requests[r], i)
                                    ELSE requests[r]]
                  /\ at' = [at EXCEPT ![r] =
                              Advance(i, Len(requests[r]), complete)]
                  /\ UNCHANGED <<pc, outcome, batch>>
  BY Zenon DEF WaitVisit
<1>5. /\ op' \in OpType
      /\ \A p \in Ops : Completed(op[p].state) => Completed(op'[p].state)
  BY <1>4, PumpFacts
<1>6. CASE Throws(op'[o].state)
  BY <1>2, <1>4, <1>5, <1>6, ReturnStep
<1>7. CASE ~Throws(op'[o].state)
  <2>. DEFINE q == VectorAfter(r, i, complete)
              f == FreedAfter(r, i, complete)
              a == Advance(i, Len(requests[r]), complete)
  <2>1. /\ late' = [late EXCEPT ![r] = late[r] /\ ~(restart \/ complete)]
        /\ fresh' = [fresh EXCEPT ![r] = fresh[r] \/ op' # op]
        /\ freed' = [freed EXCEPT ![r] = f]
        /\ requests' = [requests EXCEPT ![r] = q]
        /\ at' = [at EXCEPT ![r] = a]
        /\ UNCHANGED <<pc, outcome, batch>>
    BY <1>4, <1>7, Zenon DEF VectorAfter, FreedAfter
  <2>2. complete \in BOOLEAN
    BY DEF Completed
  <2>. HIDE DEF complete
  <2>v. VisitPost(r, i, complete, q, f)
    BY <1>3, <2>2, VisitFacts, Zenon
  <2>3. /\ q \in Seq(Ops) /\ f \subseteq Issued(r)
        /\ Len(q) = IF complete THEN Len(requests[r]) - 1 ELSE Len(requests[r])
        /\ \A j \in 1..Len(q) : q[j] \in Issued(r)
        /\ \A j, k \in 1..Len(q) : q[j] = q[k] => j = k
        /\ ToSet(q) \cap f = {}
        /\ \A j \in Ids : inflight[r][j] \notin ToSet(q) \cup f
        /\ \A p \in ToSet(requests[r]) : p \in ToSet(q) \/ (complete /\ p = o)
    <3>. HIDE DEF q, f
    <3>. QED BY <2>v, Zenon DEF VisitPost
  <2>. USE DEF complete
  <2>4. a \in Nat /\ a <= Len(q)
    <3>1. a \in Nat /\ a <= IF complete THEN Len(requests[r]) - 1 ELSE Len(requests[r])
      <4>. HIDE DEF complete
      <4>. QED BY <1>3, <2>2, AdvanceFacts
    <3>. QED BY <2>3, <3>1
  <2>. HIDE DEF q, f, a
  <2>5. /\ late' \in [Ranks -> BOOLEAN] /\ fresh' \in [Ranks -> BOOLEAN]
    <3>1. (late[r] /\ ~(restart \/ complete)) \in BOOLEAN
          /\ (fresh[r] \/ op' # op) \in BOOLEAN
      OBVIOUS
    <3>. HIDE DEF complete
    <3>. QED BY <1>1, <2>1, <3>1, Zenon
  <2>6. /\ requests' \in [Ranks -> Seq(Ops)] /\ at' \in [Ranks -> Nat]
        /\ freed' \in [Ranks -> SUBSET Ops]
        /\ requests'[r] = q /\ at'[r] = a /\ freed'[r] = f
        /\ \A u \in Ranks : u # r => /\ requests'[u] = requests[u]
                                     /\ at'[u] = at[u] /\ freed'[u] = freed[u]
    <3>1. f \subseteq Ops
      BY <2>3 DEF Issued
    <3>. QED BY <1>1, <2>1, <2>3, <2>4, <3>1
  <2>7. \A u \in Ranks : Issued(u)' = Issued(u)
    BY <1>2 DEF Issued
  <2>8. TypeOK'
    <3>1. \A u \in Ranks : at'[u] <= Len(requests'[u]) /\ posted'[u] <= MaxOps[u]
      <4>. TAKE u \in Ranks
      <4>1. at[u] <= Len(requests[u]) /\ posted'[u] <= MaxOps[u]
        BY <1>2 DEF IInv, TypeOK
      <4>. QED BY <2>4, <2>6, <4>1
    <3>. QED BY <1>2, <1>5, <2>1, <2>5, <2>6, <3>1 DEF IInv, TypeOK, OpType, handles
  <2>9. IdsAccounted' /\ HandleInv'
    BY <1>2, Zenon DEF IInv, IdsAccounted, HandleInv, handles
  <2>10. OwnerInv'
    <3>. SUFFICES ASSUME NEW u \in Ranks
         PROVE  /\ \A j \in Ids : inflight[u][j] # NoOp => inflight[u][j] \in Issued(u)
                /\ \A j \in 1..Len(requests'[u]) : requests'[u][j] \in Issued(u)
                /\ freed'[u] \subseteq Issued(u)
      BY <1>2, <2>7, Zenon DEF OwnerInv, handles
    <3>1. /\ \A j \in Ids : inflight[u][j] # NoOp => inflight[u][j] \in Issued(u)
          /\ \A j \in 1..Len(requests[u]) : requests[u][j] \in Issued(u)
          /\ freed[u] \subseteq Issued(u)
      BY Zenon DEF IInv, OwnerInv
    <3>2. CASE u # r
      BY <2>6, <3>1, <3>2, Zenon
    <3>3. CASE u = r
      BY <2>3, <2>6, <3>1, <3>3, Zenon
    <3>. QED BY <3>2, <3>3
  <2>11. OwnedOnce'
    <3>. SUFFICES ASSUME NEW u \in Ranks
         PROVE  /\ \A j, k \in Ids : inflight[u][j] = inflight[u][k]
                                     /\ inflight[u][j] # NoOp => j = k
                /\ \A j, k \in 1..Len(requests'[u]) :
                     requests'[u][j] = requests'[u][k] => j = k
                /\ \A j \in Ids : inflight[u][j] \notin ToSet(requests'[u]) \cup freed'[u]
                /\ ToSet(requests'[u]) \cap freed'[u] = {}
      BY <1>2, Zenon DEF OwnedOnce, ToSet, handles
    <3>1. /\ \A j, k \in Ids : inflight[u][j] = inflight[u][k]
                               /\ inflight[u][j] # NoOp => j = k
          /\ \A j, k \in 1..Len(requests[u]) :
               requests[u][j] = requests[u][k] => j = k
          /\ \A j \in Ids : inflight[u][j] \notin ToSet(requests[u]) \cup freed[u]
          /\ ToSet(requests[u]) \cap freed[u] = {}
      BY Zenon DEF IInv, OwnedOnce
    <3>2. CASE u # r
      BY <2>6, <3>1, <3>2, Zenon
    <3>3. CASE u = r
      <4>1. requests'[u] = q /\ freed'[u] = f
        BY <2>6, <3>3
      <4>2. \A j \in Ids : inflight[u][j] \notin ToSet(q) \cup f
        BY <2>3, <3>3
      <4>. QED BY <2>3, <3>1, <4>1, <4>2
    <3>. QED BY <3>2, <3>3
  <2>12. \A u \in Ranks : batch[u] \subseteq Ops
    BY Zenon DEF IInv, WaitInv, Issued
  <2>13. WaitInv'
    <3>. SUFFICES ASSUME NEW u \in Ranks
         PROVE  /\ batch[u] \subseteq Issued(u)
                /\ pc[u] = "run" => requests'[u] = <<>> /\ at'[u] = 0
                /\ pc[u] = "wait" =>
                     /\ outcome[u] = "none"
                     /\ \A p \in batch[u] :
                          p \in ToSet(requests'[u]) \/ Completed(op'[p].state)
      BY <2>1, <2>7, Zenon DEF WaitInv, ToSet
    <3>1. /\ batch[u] \subseteq Issued(u)
          /\ pc[u] = "run" => requests[u] = <<>> /\ at[u] = 0
          /\ pc[u] = "wait" =>
               /\ outcome[u] = "none"
               /\ \A p \in batch[u] :
                    p \in ToSet(requests[u]) \/ Completed(op[p].state)
      BY Zenon DEF IInv, WaitInv
    <3>2. CASE u # r
      BY <1>5, <2>6, <2>12, <3>1, <3>2, Zenon
    <3>3. CASE u = r
      <4>. SUFFICES ASSUME NEW p \in batch[r]
           PROVE  p \in ToSet(q) \/ Completed(op'[p].state)
        BY <1>2, <2>6, <3>1, <3>3
      <4>1. p \in ToSet(requests[r]) \/ Completed(op[p].state)
        BY <1>2, <3>1, <3>3
      <4>2. CASE Completed(op[p].state)
        BY <1>5, <2>12, <4>2
      <4>3. CASE p \in ToSet(requests[r])
        BY <2>3, <4>3, Zenon
      <4>. QED BY <4>1, <4>2, <4>3
    <3>. QED BY <3>2, <3>3
  <2>14. WaitallComplete'
    <3>. SUFFICES ASSUME NEW u \in Ranks, outcome[u] = "ok", NEW p \in batch[u]
         PROVE  Completed(op'[p].state)
      BY <2>1, Zenon DEF WaitallComplete, Completed
    <3>1. Completed(op[p].state)
      BY Zenon DEF IInv, WaitallComplete, Completed
    <3>. QED BY <1>5, <2>12, <3>1
  <2>. QED BY <2>8, <2>9, <2>10, <2>11, <2>13, <2>14 DEF IInv
<1>. QED BY <1>6, <1>7

-----------------------------------------------------------------------------
(* What a step does to an operation. Everything but Post and Match leaves    *)
(* its kind, its peer and its partner alone, and moves its state forward.    *)

Moves(a, b) == \/ a = b
               \/ a = "posted" /\ b = "broken"
               \/ a = "ready" /\ b = "done"
               \/ a = "broken" /\ b = "error"

OpMoves ==
  \A o \in Ops : /\ op'[o].kind = op[o].kind /\ op'[o].peer = op[o].peer
                 /\ op'[o].partner = op[o].partner
                 /\ Moves(op[o].state, op'[o].state)

LEMMA CompleteMoves ==
  ASSUME TypeOK, NEW r \in Ranks, NEW E \in SUBSET Events(r), Complete(E)
  PROVE  OpMoves
<1>. SUFFICES ASSUME NEW o \in Ops
     PROVE  /\ op'[o].kind = op[o].kind /\ op'[o].peer = op[o].peer
            /\ op'[o].partner = op[o].partner
            /\ Moves(op[o].state, op'[o].state)
  BY DEF OpMoves
<1>1. CASE o \notin E
  <2>1. op'[o] = op[o]
    BY <1>1, CompleteFacts
  <2>. QED BY <2>1 DEF Moves
<1>2. CASE o \in E
  <2>1. op[o] \in [kind : Kinds, peer : Ranks, tag : Tags, state : States,
                   partner : Ops \cup {NoOp}]
    BY DEF TypeOK
  <2>2. op'[o] = [op[o] EXCEPT !.state =
                    IF op[o].state = "ready" THEN "done" ELSE "error"]
    BY <1>2 DEF Complete
  <2>3. op[o].state \in {"ready", "broken"}
    BY <1>2 DEF Events
  <2>. QED BY <2>1, <2>2, <2>3, SMT DEF Moves
<1>. QED BY <1>1, <1>2

LEMMA PumpMoves ==
  ASSUME IInv, NEW r \in Ranks, NEW restart \in BOOLEAN, Pump(r, restart)
  PROVE  OpMoves
<1>1. Ucxx \in BOOLEAN
  BY VariantAssumption
<1>2. op' = op \/ \E E \in SUBSET Events(r) : Complete(E)
  BY <1>1 DEF Pump
<1>3. CASE op' = op
  BY <1>3, Zenon DEF OpMoves, Moves
<1>4. CASE \E E \in SUBSET Events(r) : Complete(E)
  BY <1>4, CompleteMoves DEF IInv
<1>. QED BY <1>2, <1>3, <1>4

LEMMA FailMoves ==
  ASSUME IInv, NEW f \in Ops, Fail(f)
  PROVE  OpMoves
<1>1. \A o \in Ops : op[o] \in [kind : Kinds, peer : Ranks, tag : Tags,
                          state : States, partner : Ops \cup {NoOp}]
  BY DEF IInv, TypeOK
<1>2. /\ op[f].state = "posted" /\ op' = [op EXCEPT ![f] = [op[f] EXCEPT !.state = "broken"]]
      /\ DOMAIN op = Ops
  BY DEF Fail, IInv, TypeOK
<1>3. /\ op'[f] = [op[f] EXCEPT !.state = "broken"]
      /\ \A o \in Ops : o # f => op'[o] = op[o]
  BY <1>2
<1>. SUFFICES ASSUME NEW o \in Ops
     PROVE  /\ op'[o].kind = op[o].kind /\ op'[o].peer = op[o].peer
            /\ op'[o].partner = op[o].partner
            /\ Moves(op[o].state, op'[o].state)
  BY DEF OpMoves
<1>4. CASE o = f
  BY <1>1, <1>2, <1>3, <1>4, SMT DEF Moves
<1>5. CASE o # f
  BY <1>3, <1>5, Zenon DEF Moves
<1>. QED BY <1>4, <1>5

(* The new operation of Post, when the transport takes it. *)
Posted(r, o) ==
  /\ o = <<r, posted[r] + 1>> /\ o \in Ops /\ o \notin Issued(r)
  /\ op'[o].partner = NoOp /\ op'[o].state \in {"posted", "done"}
  /\ op'[o].kind = "recv" => op'[o].state = "posted"
  /\ \A p \in Ops : p # o => op'[p] = op[p]

LEMMA PostFacts ==
  ASSUME IInv, NEW r \in Ranks, NEW kind \in {"send", "recv"},
         NEW peer \in Ranks, NEW tag \in Tags, Post(r, kind, peer, tag)
  PROVE  /\ UNCHANGED waiting
         /\ posted' = [posted EXCEPT ![r] = posted[r] + 1]
         /\ op' = op \/ Posted(r, <<r, posted[r] + 1>>)
<1>. DEFINE o == <<r, posted[r] + 1>>
<1>1. /\ posted[r] < MaxOps[r] /\ UNCHANGED waiting
      /\ posted' = [posted EXCEPT ![r] = posted[r] + 1]
      /\ \/ op' = op
         \/ \E s \in {"posted"} \cup (IF kind = "send" THEN {"done"} ELSE {}) :
              op' = [op EXCEPT ![o] = [kind |-> kind, peer |-> peer,
                       tag |-> tag, state |-> s, partner |-> NoOp]]
  BY Zenon DEF Post
<1>2. posted[r] \in Nat /\ MaxOps[r] \in Nat /\ op \in OpType
  BY BoundsAssumption DEF IInv, TypeOK, OpType
<1>3. o \in Ops
  BY <1>1, <1>2, IdsFacts, SMT
<1>4. o \notin Issued(r)
  BY <1>2, <1>3, SMT DEF Issued
<1>5. ASSUME NEW s \in {"posted"} \cup (IF kind = "send" THEN {"done"} ELSE {}),
             op' = [op EXCEPT ![o] = [kind |-> kind, peer |-> peer,
                      tag |-> tag, state |-> s, partner |-> NoOp]]
      PROVE  Posted(r, o)
  <2>. HIDE DEF o
  <2>1. /\ op'[o] = [kind |-> kind, peer |-> peer, tag |-> tag, state |-> s,
                     partner |-> NoOp]
        /\ \A p \in Ops : p # o => op'[p] = op[p]
    BY <1>2, <1>3, <1>5, Zenon DEF OpType
  <2>2. /\ op'[o].partner = NoOp /\ op'[o].state = s /\ op'[o].kind = kind
        /\ s \in {"posted", "done"} /\ (kind = "recv" => s = "posted")
    BY <2>1
  <2>. QED BY <1>3, <1>4, <2>1, <2>2, Zenon DEF Posted, o
<1>. QED BY <1>1, <1>5

LEMMA MatchFacts ==
  ASSUME IInv, NEW s \in Ops, NEW d \in Ops, Match(s, d)
  PROVE  /\ s # d /\ UNCHANGED <<posted, handles, waiting>>
         /\ \A o \in Ops : o # s /\ o # d => op'[o] = op[o]
         /\ op'[s].kind = "send" /\ op'[s].partner = d /\ op'[s].peer = op[s].peer
         /\ op'[s].state = IF op[s].state = "posted" THEN "ready" ELSE op[s].state
         /\ op'[d].kind = "recv" /\ op'[d].partner = s /\ op'[d].peer = op[d].peer
         /\ op'[d].state = "ready"
         /\ CanMatch(s, d)
<1>1. op \in OpType /\ s # d
  BY SMT DEF IInv, TypeOK, OpType, Match, CanMatch
<1>2. /\ \A o \in Ops : o # s /\ o # d => op'[o] = op[o]
      /\ op'[s] = [op[s] EXCEPT !.partner = d,
                     !.state = IF op[s].state = "posted" THEN "ready"
                               ELSE op[s].state]
      /\ op'[d] = [op[d] EXCEPT !.partner = s, !.state = "ready"]
  BY <1>1, Zenon DEF Match
<1>3. /\ op[s] \in [kind : Kinds, peer : Ranks, tag : Tags, state : States,
                    partner : Ops \cup {NoOp}]
      /\ op[d] \in [kind : Kinds, peer : Ranks, tag : Tags, state : States,
                    partner : Ops \cup {NoOp}]
  BY <1>1 DEF OpType
<1>4. /\ op'[s].kind = op[s].kind /\ op'[s].partner = d /\ op'[s].peer = op[s].peer
      /\ op'[s].state = IF op[s].state = "posted" THEN "ready" ELSE op[s].state
  BY <1>2, <1>3, SMT
<1>5. /\ op'[d].kind = op[d].kind /\ op'[d].partner = s /\ op'[d].peer = op[d].peer
      /\ op'[d].state = "ready"
  BY <1>2, <1>3, SMT
<1>6. CanMatch(s, d) /\ UNCHANGED <<posted, handles, waiting>>
  BY DEF Match
<1>7. op[s].kind = "send" /\ op[d].kind = "recv"
  BY <1>6 DEF CanMatch
<1>. QED BY <1>1, <1>2, <1>4, <1>5, <1>6, <1>7

-----------------------------------------------------------------------------
(* Tags. The shift leaves of the int tag a multiple of the word's highest    *)
(* bit, below which there is room for every rank.                            *)

LEMMA ModFacts ==
  ASSUME NEW a \in Int, NEW b \in Nat \ {0}
  PROVE  /\ a % b \in 0..(b - 1) /\ a \div b \in Int
         /\ a = b * (a \div b) + (a % b)
BY SMT

LEMMA HighBit ==
  ASSUME NEW h \in Nat \ {0}, NEW t \in Int
  PROVE  (t * h) % (2 * h) \in {0, h}
<1>. DEFINE q == (t * h) \div (2 * h)
            m == (t * h) % (2 * h)
<1>1. q \in Int /\ m \in 0..((2 * h) - 1) /\ t * h = (2 * h) * q + m
  <2>1. t * h \in Int /\ 2 * h \in Nat \ {0}
    BY SMT
  <2>. QED BY <2>1, ModFacts
<1>. HIDE DEF q, m
<1>2. m = h * (t - 2 * q) /\ t - 2 * q \in Int
  BY <1>1, SMT
<1>3. 0 <= h * (t - 2 * q) /\ h * (t - 2 * q) < 2 * h
  BY <1>1, <1>2, SMT
<1>4. ASSUME NEW k \in Int, 0 <= h * k, h * k < 2 * h
      PROVE  k = 0 \/ k = 1
  <2>1. ~(k < 0)
    BY <1>4, SMT
  <2>2. ~(k >= 2)
    BY <1>4, SMT
  <2>. QED BY <1>4, <2>1, <2>2, SMT
<1>5. t - 2 * q = 0 \/ t - 2 * q = 1
  BY <1>2, <1>3, <1>4
<1>6. m = 0 \/ m = h
  BY <1>2, <1>5, SMT
<1>. QED BY <1>6 DEF m

(* Two tags are the same only for the same rank. *)
LEMMA TagRank ==
  ASSUME NEW a \in Ranks, NEW b \in Ranks, NEW t \in Tags, NEW u \in Tags,
         build_message_tag(a, t) = build_message_tag(b, u)
  PROVE  a = b
<1>1. /\ (t * High) % (2 * High) \in {0, High}
      /\ (u * High) % (2 * High) \in {0, High}
  BY HighBit, RanksAssumption, TagsAssumption
<1>2. /\ a \in 0..(High - 1) /\ b \in 0..(High - 1) /\ High \in Nat \ {0}
      /\ ((t * High) % (2 * High)) + a = ((u * High) % (2 * High)) + b
  BY RanksAssumption DEF build_message_tag
<1>. QED BY <1>1, <1>2, SMT

-----------------------------------------------------------------------------
(* Source filtering. A receive's partner is a send that was paired with it;  *)
(* an operation that has not been posted yet is nobody's partner.            *)

Paired(o) ==
  op[o].kind = "recv" /\ op[o].partner # NoOp =>
    LET p == op[o].partner
    IN  /\ op[p].kind = "send" /\ op[p].partner = o
        /\ p[1] = op[o].peer

PairInv ==
  \A o \in Ops : Paired(o) /\ (o[2] > posted[o[1]] => op[o].kind = "none")

LEMMA PairMoves ==
  ASSUME IInv, PairInv, OpMoves, UNCHANGED posted
  PROVE  PairInv'
<1>. SUFFICES ASSUME NEW o \in Ops
     PROVE  Paired(o)' /\ (o[2] > posted[o[1]] => op'[o].kind = "none")
  BY DEF PairInv
<1>1. op[o].partner \in Ops \cup {NoOp}
  BY SMT DEF IInv, TypeOK
<1>2. CASE op[o].partner \in Ops
  BY <1>2, SMT DEF PairInv, Paired, OpMoves
<1>3. CASE op[o].partner = NoOp
  BY <1>3, Zenon DEF PairInv, Paired, OpMoves
<1>. QED BY <1>1, <1>2, <1>3

LEMMA PairStep ==
  ASSUME IInv, PairInv, [Next]_vars
  PROVE  PairInv'
<1>. USE DEF PairInv
<1>t. \A o \in Ops : /\ op[o].partner \in Ops \cup {NoOp} /\ op[o].peer \in Ranks
                     /\ op[o].tag \in Tags
  BY SMT DEF IInv, TypeOK
<1>1. ASSUME NEW r \in Ranks, NEW p \in Ranks, NEW t \in Tags,
             isend(r, p, t) \/ irecv(r, p, t)
      PROVE  PairInv'
  <2>. DEFINE n == <<r, posted[r] + 1>>
  <2>1. /\ posted' = [posted EXCEPT ![r] = posted[r] + 1]
        /\ op' = op \/ Posted(r, n)
    BY <1>1, PostFacts, Zenon DEF isend, irecv
  <2>2. posted \in [Ranks -> Nat]
    BY DEF IInv, TypeOK
  <2>3. \A o \in Ops : o[2] > posted'[o[1]] => o[2] > posted[o[1]]
    BY <2>1, <2>2, OpsFacts, SMT
  <2>4. CASE op' = op
    BY <2>3, <2>4, Zenon DEF Paired
  <2>5. CASE Posted(r, n)
    <3>1. /\ n \in Ops /\ op'[n].partner = NoOp /\ op[n].kind = "none"
          /\ \A o \in Ops : o # n => op'[o] = op[o]
      BY <2>2, <2>5, SMT DEF Posted
    <3>2. ~(n[2] > posted'[n[1]])
      BY <2>1, <2>2, SMT
    <3>. HIDE DEF n
    <3>3. ASSUME NEW o \in Ops PROVE Paired(o)'
      <4>1. CASE o = n
        BY <3>1, <4>1 DEF Paired
      <4>2. CASE o # n
        <5>1. op'[o] = op[o] /\ Paired(o)
          BY <3>1, <4>2
        <5>2. CASE op[o].kind = "recv" /\ op[o].partner # NoOp
          <6>1. op[o].partner \in Ops /\ op[op[o].partner].kind = "send"
            BY <1>t, <5>1, <5>2, Zenon DEF Paired
          <6>2. op[o].partner # n
            BY <3>1, <6>1
          <6>3. op'[op[o].partner] = op[op[o].partner]
            BY <3>1, <6>1, <6>2
          <6>. QED BY <5>1, <6>3, SMT DEF Paired
        <5>3. CASE ~(op[o].kind = "recv" /\ op[o].partner # NoOp)
          BY <5>1, <5>3, Zenon DEF Paired
        <5>. QED BY <5>2, <5>3
      <4>. QED BY <4>1, <4>2
    <3>4. ASSUME NEW o \in Ops, o[2] > posted'[o[1]] PROVE op'[o].kind = "none"
      <4>1. o # n /\ op[o].kind = "none"
        BY <2>3, <3>2, <3>4
      <4>. QED BY <3>1, <4>1
    <3>. QED BY <3>3, <3>4
  <2>. QED BY <2>1, <2>4, <2>5
<1>2. ASSUME NEW s \in Ops, NEW d \in Ops, Match(s, d)
      PROVE  PairInv'
  <2>1. /\ s # d /\ posted' = posted
        /\ \A o \in Ops : o # s /\ o # d => op'[o] = op[o]
        /\ op'[s].kind = "send" /\ op'[s].partner = d
        /\ op'[d].kind = "recv" /\ op'[d].partner = s /\ op'[d].peer = op[d].peer
        /\ CanMatch(s, d)
    BY <1>2, MatchFacts
  <2>2. /\ op[s].kind = "send" /\ op[s].partner = NoOp /\ op[d].kind = "recv"
        /\ UcpTag(s) = UcpTag(d)
    BY <2>1 DEF CanMatch
  <2>3. s[1] = op[d].peer
    <3>1. build_message_tag(s[1], op[s].tag) = build_message_tag(op[d].peer, op[d].tag)
      BY <2>2 DEF UcpTag
    <3>. QED BY <1>t, <3>1, TagRank, OpsFacts
  <2>4. ASSUME NEW o \in Ops PROVE Paired(o)'
    <3>1. CASE o = s
      BY <2>1, <3>1 DEF Paired
    <3>2. CASE o = d
      BY <2>1, <2>3, <3>2, Zenon DEF Paired
    <3>3. CASE o # s /\ o # d
      <4>1. op'[o] = op[o] /\ Paired(o)
        BY <2>1, <3>3
      <4>2. CASE op[o].kind = "recv" /\ op[o].partner # NoOp
        <5>1. /\ op[o].partner \in Ops /\ op[op[o].partner].kind = "send"
              /\ op[op[o].partner].partner = o
          BY <1>t, <4>1, <4>2, Zenon DEF Paired
        <5>2. op[o].partner # s /\ op[o].partner # d
          BY <2>2, <5>1, OpsFacts
        <5>3. op'[op[o].partner] = op[op[o].partner]
          BY <2>1, <5>1, <5>2
        <5>. QED BY <4>1, <5>3, SMT DEF Paired
      <4>3. CASE ~(op[o].kind = "recv" /\ op[o].partner # NoOp)
        BY <4>1, <4>3, Zenon DEF Paired
      <4>. QED BY <4>2, <4>3
    <3>. QED BY <3>1, <3>2, <3>3
  <2>5. ASSUME NEW o \in Ops, o[2] > posted'[o[1]] PROVE op'[o].kind = "none"
    <3>1. op[o].kind = "none"
      BY <2>1, <2>5
    <3>2. o # s /\ o # d
      BY <2>2, <3>1
    <3>. QED BY <2>1, <3>1, <3>2
  <2>. QED BY <2>4, <2>5
<1>3. ASSUME NEW f \in Ops, Fail(f)
      PROVE  PairInv'
  BY <1>3, FailMoves, PairMoves DEF Fail
<1>4. ASSUME NEW r \in Ranks, ProgressThread(r)
      PROVE  PairInv'
  BY <1>4, CompleteMoves, PairMoves DEF ProgressThread, IInv
<1>5. ASSUME NEW r \in Ranks, WaitVisit(r)
      PROVE  PairInv'
  <2>1. UNCHANGED posted /\ \E restart \in BOOLEAN : Pump(r, restart)
    BY <1>5, Zenon DEF WaitVisit
  <2>. QED BY <2>1, PumpMoves, PairMoves
<1>6. CASE UNCHANGED <<op, posted>>
  BY <1>6, Zenon DEF Paired
<1>7. ASSUME NEW r \in Ranks, WaitHead(r) \/ TimePasses(r)
      PROVE  UNCHANGED <<op, posted>>
  BY <1>7, Zenon DEF WaitHead, TimePasses
<1>8. ASSUME NEW r \in Ranks, NEW ids, waitall(r, ids)
      PROVE  UNCHANGED <<op, posted>>
  BY <1>8, Zenon DEF waitall
<1>9. CASE UNCHANGED vars
  BY <1>6, <1>9 DEF vars
<1>10. CASE Next
  BY <1>1, <1>2, <1>3, <1>4, <1>5, <1>6, <1>7, <1>8, <1>10, Zenon DEF Next, Transport
<1>. QED BY <1>9, <1>10

-----------------------------------------------------------------------------
(* Delivery over ucxx. A receive is ready or done only with a message, what  *)
(* has completed well stays so, and an operation that failed is still in the *)
(* vector of the wait it belongs to: looking at it throws.                   *)

Delivered(o) ==
  op[o].kind = "recv" /\ op[o].state \in {"ready", "done"} => op[o].partner # NoOp

GoodInv(r) ==
  /\ pc[r] = "wait" =>
       \A o \in batch[r] : o \in ToSet(requests[r]) \/ op[o].state = "done"
  /\ outcome[r] = "ok" => \A o \in batch[r] : op[o].state = "done"

DeliverInv == /\ \A o \in Ops : Delivered(o)
              /\ \A r \in Ranks : GoodInv(r)

LEMMA DeliverMoves ==
  ASSUME IInv, DeliverInv, OpMoves
  PROVE  /\ \A o \in Ops : Delivered(o)'
         /\ \A o \in Ops : op[o].state = "done" => op'[o].state = "done"
BY SMT DEF DeliverInv, Delivered, OpMoves, Moves

(* A rank whose wait a step does not touch. *)
LEMMA GoodKept ==
  ASSUME IInv, DeliverInv, NEW r \in Ranks,
         \A o \in batch[r] : op[o].state = "done" => op'[o].state = "done",
         requests'[r] = requests[r], batch'[r] = batch[r],
         pc'[r] = pc[r], outcome'[r] = outcome[r]
  PROVE  GoodInv(r)'
BY Zenon DEF DeliverInv, GoodInv, ToSet

LEMMA BatchOps ==
  ASSUME IInv, NEW r \in Ranks
  PROVE  batch[r] \subseteq Issued(r) /\ Issued(r) \subseteq Ops
BY Zenon DEF IInv, WaitInv, Issued

(* A step that changes operations only. *)
LEMMA DeliverQuiet ==
  ASSUME IInv, DeliverInv, OpMoves, UNCHANGED <<requests, batch, pc, outcome>>
  PROVE  DeliverInv'
<1>1. \A r \in Ranks : GoodInv(r)'
  <2>. TAKE r \in Ranks
  <2>1. \A o \in batch[r] : op[o].state = "done" => op'[o].state = "done"
    BY DeliverMoves, BatchOps
  <2>. QED BY <2>1, GoodKept
<1>. QED BY <1>1, DeliverMoves DEF DeliverInv

(* A return: what the call was asked for is kept only when it was all done.  *)
LEMMA DeliverReturn ==
  ASSUME IInv, DeliverInv, OpMoves, NEW r \in Ranks,
         NEW how \in {"ok", "timeout", "error"}, Return(r, how),
         pc[r] = "wait", how = "ok" => requests[r] = <<>>
  PROVE  DeliverInv'
<1>1. /\ requests \in [Ranks -> Seq(Ops)] /\ pc \in [Ranks -> {"run", "wait"}]
      /\ outcome \in [Ranks -> Outcomes]
      /\ batch \in [Ranks -> SUBSET (Ops \cup {NoOp})]
  BY DEF IInv, TypeOK
<1>2. /\ pc'[r] = "run" /\ outcome'[r] = how
      /\ batch'[r] = IF how = "ok" THEN batch[r] ELSE {}
      /\ \A u \in Ranks : u # r =>
           /\ requests'[u] = requests[u] /\ pc'[u] = pc[u]
           /\ outcome'[u] = outcome[u] /\ batch'[u] = batch[u]
  BY <1>1, SMT DEF Return
<1>3. \A u \in Ranks : \A o \in batch[u] : op[o].state = "done" => op'[o].state = "done"
  BY DeliverMoves, BatchOps
<1>4. \A u \in Ranks : u # r => GoodInv(u)'
  BY <1>2, <1>3, GoodKept
<1>5. GoodInv(r)'
  <2>1. how = "ok" => \A o \in batch[r] : op[o].state = "done"
    <3>. HAVE how = "ok"
    <3>1. requests[r] = <<>>
      OBVIOUS
    <3>2. ToSet(requests[r]) = {}
      BY <3>1, SMT DEF ToSet
    <3>. QED BY <3>2, Zenon DEF DeliverInv, GoodInv
  <2>. QED BY <1>2, <1>3, <2>1, Zenon DEF GoodInv
<1>. QED BY <1>4, <1>5, DeliverMoves DEF DeliverInv

LEMMA DeliverStep ==
  ASSUME Ucxx, IInv, DeliverInv, [Next]_vars
  PROVE  DeliverInv'
<1>. DEFINE Waits == <<requests, batch, pc, outcome>>
<1>0. ASSUME op' = op PROVE OpMoves
  BY <1>0, Zenon DEF OpMoves, Moves
<1>1. ASSUME NEW r \in Ranks, NEW p \in Ranks, NEW t \in Tags,
             isend(r, p, t) \/ irecv(r, p, t)
      PROVE  DeliverInv'
  <2>. DEFINE n == <<r, posted[r] + 1>>
  <2>1. UNCHANGED waiting /\ (op' = op \/ Posted(r, n))
    BY <1>1, PostFacts, Zenon DEF isend, irecv
  <2>2. UNCHANGED Waits
    BY <2>1 DEF waiting
  <2>3. CASE op' = op
    BY <1>0, <2>2, <2>3, DeliverQuiet
  <2>4. CASE Posted(r, n)
    <3>. HIDE DEF n
    <3>1. /\ \A o \in Ops : o # n => op'[o] = op[o]
          /\ op'[n].kind = "recv" => op'[n].state = "posted"
          /\ n \notin Issued(r) /\ n[1] = r
      BY <2>4 DEF Posted, n
    <3>2. \A o \in Ops : Delivered(o)'
      <4>. TAKE o \in Ops
      <4>1. CASE o = n
        BY <3>1, <4>1 DEF Delivered
      <4>2. CASE o # n
        <5>1. op'[o] = op[o] /\ Delivered(o)
          BY <3>1, <4>2 DEF DeliverInv
        <5>. QED BY <5>1, Zenon DEF Delivered
      <4>. QED BY <4>1, <4>2
    <3>3. \A u \in Ranks : GoodInv(u)'
      <4>. TAKE u \in Ranks
      <4>1. n \notin batch[u]
        BY <3>1, BatchOps DEF Issued
      <4>2. \A o \in batch[u] : op[o].state = "done" => op'[o].state = "done"
        BY <3>1, <4>1, BatchOps
      <4>. QED BY <2>2, <4>2, GoodKept
    <3>. QED BY <3>2, <3>3 DEF DeliverInv
  <2>. QED BY <2>1, <2>3, <2>4
<1>2. ASSUME NEW s \in Ops, NEW d \in Ops, Match(s, d)
      PROVE  DeliverInv'
  <2>1. /\ s # d /\ UNCHANGED waiting
        /\ \A o \in Ops : o # s /\ o # d => op'[o] = op[o]
        /\ op'[s].kind = "send"
        /\ op'[s].state = IF op[s].state = "posted" THEN "ready" ELSE op[s].state
        /\ op'[d].partner = s /\ CanMatch(s, d)
    BY <1>2, MatchFacts
  <2>2. \A o \in Ops : Delivered(o)'
    <3>. TAKE o \in Ops
    <3>1. CASE o = s
      BY <2>1, <3>1 DEF Delivered
    <3>2. CASE o = d
      BY <2>1, <3>2, OpsFacts DEF Delivered
    <3>3. CASE o # s /\ o # d
      <4>1. op'[o] = op[o] /\ Delivered(o)
        BY <2>1, <3>3 DEF DeliverInv
      <4>. QED BY <4>1, Zenon DEF Delivered
    <3>. QED BY <3>1, <3>2, <3>3
  <2>3. \A o \in Ops : op[o].state = "done" => op'[o].state = "done"
    BY <2>1 DEF CanMatch
  <2>4. \A u \in Ranks : GoodInv(u)'
    BY <2>1, <2>3, BatchOps, GoodKept DEF waiting
  <2>. QED BY <2>2, <2>4 DEF DeliverInv
<1>3. ASSUME NEW f \in Ops, Fail(f)
      PROVE  DeliverInv'
  BY <1>3, FailMoves, DeliverQuiet DEF Fail, waiting
<1>4. ASSUME NEW r \in Ranks, ProgressThread(r)
      PROVE  DeliverInv'
  <2>1. OpMoves
    BY <1>4, CompleteMoves DEF ProgressThread, IInv
  <2>. QED BY <1>4, <2>1, DeliverQuiet DEF ProgressThread
<1>5. ASSUME NEW r \in Ranks, TimePasses(r)
      PROVE  DeliverInv'
  BY <1>0, <1>5, DeliverQuiet DEF TimePasses
<1>6. ASSUME NEW r \in Ranks, WaitHead(r)
      PROVE  DeliverInv'
  <2>1. pc[r] = "wait" /\ op' = op
    BY <1>6, Zenon DEF WaitHead
  <2>2. \/ requests[r] = <<>> /\ Return(r, "ok")
        \/ Return(r, "timeout")
        \/ UNCHANGED Waits
    BY <1>6 DEF WaitHead
  <2>. QED BY <1>0, <2>1, <2>2, DeliverReturn, DeliverQuiet
<1>7. ASSUME NEW r \in Ranks, WaitVisit(r)
      PROVE  DeliverInv'
  <2>. DEFINE i == at[r]
              o == requests[r][i]
              complete == Completed(op'[o].state)
  <2>1. PICK restart \in BOOLEAN :
          /\ Pump(r, restart)
          /\ IF Throws(op'[o].state)
               THEN Return(r, "error")
               ELSE /\ requests' = [requests EXCEPT ![r] =
                                      IF complete THEN RemoveAt(requests[r], i)
                                      ELSE requests[r]]
                    /\ UNCHANGED <<pc, outcome, batch>>
    BY <1>7, Zenon DEF WaitVisit
  <2>2. OpMoves /\ pc[r] = "wait"
    BY <1>7, <2>1, PumpMoves, Zenon DEF WaitVisit
  <2>3. CASE Throws(op'[o].state)
    BY <2>1, <2>2, <2>3, DeliverReturn
  <2>4. CASE ~Throws(op'[o].state)
    <3>. DEFINE q == VectorAfter(r, i, complete)
    <3>1. /\ requests \in [Ranks -> Seq(Ops)] /\ i \in 1..Len(requests[r])
      <4>1. /\ requests \in [Ranks -> Seq(Ops)] /\ at \in [Ranks -> Nat]
            /\ i <= Len(requests[r])
        BY DEF IInv, TypeOK
      <4>2. i > 0
        BY <1>7, Zenon DEF WaitVisit
      <4>. QED BY <4>1, <4>2
    <3>2. requests' = [requests EXCEPT ![r] = q] /\ UNCHANGED <<pc, outcome, batch>>
      BY <2>1, <2>4, Zenon DEF VectorAfter
    <3>3. complete => op'[o].state = "done"
      BY <2>4 DEF Completed, Throws
    <3>4. complete \in BOOLEAN
      BY DEF Completed
    <3>. HIDE DEF complete
    <3>5. VisitPost(r, i, complete, q, FreedAfter(r, i, complete))
      BY <3>1, <3>4, VisitFacts, Zenon
    <3>6. \A p \in ToSet(requests[r]) : p \in ToSet(q) \/ (complete /\ p = o)
      <4>. HIDE DEF q
      <4>. QED BY <3>5, Zenon DEF VisitPost
    <3>. HIDE DEF q
    <3>7. requests'[r] = q /\ \A u \in Ranks : u # r => requests'[u] = requests[u]
      BY <3>1, <3>2
    <3>8. \A u \in Ranks : \A p \in batch[u] : op[p].state = "done" => op'[p].state = "done"
      BY <2>2, DeliverMoves, BatchOps
    <3>9. \A u \in Ranks : u # r => GoodInv(u)'
      BY <3>2, <3>7, <3>8, GoodKept
    <3>10. GoodInv(r)'
      <4>1. \A p \in batch[r] : p \in ToSet(q) \/ op'[p].state = "done"
        <5>. TAKE p \in batch[r]
        <5>1. p \in ToSet(requests[r]) \/ op[p].state = "done"
          BY <2>2 DEF DeliverInv, GoodInv
        <5>. QED BY <3>3, <3>6, <3>8, <5>1
      <4>2. outcome'[r] # "ok"
        BY <2>2, <3>2 DEF IInv, WaitInv
      <4>. QED BY <3>2, <3>7, <4>1, <4>2, Zenon DEF GoodInv
    <3>. QED BY <2>2, <3>9, <3>10, DeliverMoves DEF DeliverInv
  <2>. QED BY <2>3, <2>4
<1>8. ASSUME NEW r \in Ranks, NEW ids \in BoundedSeq(0..next[r], MaxBatch[r]),
             waitall(r, ids)
      PROVE  DeliverInv'
  <2>1. ids \in Seq(Ids) /\ Len(ids) \in Nat
    BY ArrayFacts DEF IInv, TypeOK
  <2>2. PICK n \in 0..Len(ids) :
          /\ pc[r] = "run" /\ Valid(r, ids, n)
          /\ IF n = Len(ids)
               THEN /\ requests' = [requests EXCEPT ![r] =
                                      [i \in 1..n |-> inflight[r][ids[i]]]]
                    /\ pc' = [pc EXCEPT ![r] = "wait"]
                    /\ outcome' = [outcome EXCEPT ![r] = "none"]
                    /\ batch' = [batch EXCEPT ![r] = {held[r][ids[i]] : i \in 1..n}]
               ELSE /\ outcome' = [outcome EXCEPT ![r] = "invalid"]
                    /\ batch' = [batch EXCEPT ![r] = {}]
                    /\ UNCHANGED <<requests, pc>>
          /\ op' = op
    BY <1>8, Zenon DEF waitall
  <2>. DEFINE q == Collected(r, ids, n)
  <2>3. /\ requests \in [Ranks -> Seq(Ops)] /\ pc \in [Ranks -> {"run", "wait"}]
        /\ outcome \in [Ranks -> Outcomes]
        /\ batch \in [Ranks -> SUBSET (Ops \cup {NoOp})]
    BY DEF IInv, TypeOK
  <2>4. {held[r][ids[i]] : i \in 1..n} = ToSet(q)
    <3>1. ToSet(q) = {inflight[r][ids[i]] : i \in 1..n}
      BY <2>1, <2>2, CollectFacts
    <3>2. held[r] = inflight[r]
      BY DEF IInv, HandleInv
    <3>. QED BY <3>1, <3>2
  <2>5. /\ \A u \in Ranks : u # r =>
             /\ requests'[u] = requests[u] /\ pc'[u] = pc[u]
             /\ outcome'[u] = outcome[u] /\ batch'[u] = batch[u]
        /\ outcome'[r] # "ok"
        /\ batch'[r] = {} \/ (requests'[r] = q /\ batch'[r] = ToSet(q))
    <3>1. CASE n = Len(ids)
      <4>1. /\ requests' = [requests EXCEPT ![r] = q]
            /\ pc' = [pc EXCEPT ![r] = "wait"]
            /\ outcome' = [outcome EXCEPT ![r] = "none"]
            /\ batch' = [batch EXCEPT ![r] = ToSet(q)]
        BY <2>2, <2>4, <3>1, Zenon DEF q, Collected
      <4>. HIDE DEF q
      <4>. QED BY <2>3, <4>1
    <3>2. CASE n # Len(ids)
      <4>1. /\ outcome' = [outcome EXCEPT ![r] = "invalid"]
            /\ batch' = [batch EXCEPT ![r] = {}]
            /\ requests' = requests /\ pc' = pc
        BY <2>2, <3>2, Zenon
      <4>. QED BY <2>3, <4>1
    <3>. QED BY <3>1, <3>2
  <2>. HIDE DEF q
  <2>6. \A u \in Ranks : u # r => GoodInv(u)'
    BY <2>2, <2>5, GoodKept
  <2>7. GoodInv(r)'
    BY <2>5, Zenon DEF GoodInv, ToSet
  <2>8. \A o \in Ops : Delivered(o)'
    BY <2>2, Zenon DEF DeliverInv, Delivered
  <2>. QED BY <2>6, <2>7, <2>8 DEF DeliverInv
<1>9. CASE UNCHANGED vars
  BY <1>0, <1>9, DeliverQuiet DEF vars, waiting
<1>10. CASE Next
  <2>1. CASE Transport
    BY <1>2, <1>3, <2>1 DEF Transport
  <2>. QED BY <1>1, <1>4, <1>5, <1>6, <1>7, <1>8, <1>10, <2>1, Zenon DEF Next
<1>. QED BY <1>9, <1>10

-----------------------------------------------------------------------------
(* The clock over ucp. Every progress the worker makes is made by the loop,  *)
(* which starts the clock again.                                             *)

TimeInv == \A r \in Ranks : late[r] => ~fresh[r]

(* A step of one rank's clock; the other ranks' wait goes on. *)
LEMMA TimeStep ==
  ASSUME ~Ucxx, IInv, TimeInv, [Next]_vars
  PROVE  /\ TimeInv'
         /\ \A r \in Ranks : outcome'[r] = "timeout" /\ outcome[r] # "timeout"
                               => ~fresh[r]
<1>. DEFINE Goal == /\ TimeInv'
                    /\ \A r \in Ranks : outcome'[r] = "timeout" /\ outcome[r] # "timeout"
                                          => ~fresh[r]
<1>t. /\ late \in [Ranks -> BOOLEAN] /\ fresh \in [Ranks -> BOOLEAN]
      /\ outcome \in [Ranks -> Outcomes] /\ op \in OpType
  BY DEF IInv, TypeOK, OpType
<1>0. ASSUME UNCHANGED <<late, fresh, outcome>> PROVE Goal
  BY <1>0, Zenon DEF TimeInv
<1>1. ASSUME NEW r \in Ranks, NEW how, Return(r, how),
             how = "timeout" => ~fresh[r]
      PROVE  Goal
  <2>1. /\ late' = [late EXCEPT ![r] = FALSE]
        /\ fresh' = [fresh EXCEPT ![r] = FALSE]
        /\ outcome' = [outcome EXCEPT ![r] = how]
    BY <1>1, Zenon DEF Return
  <2>2. \A u \in Ranks : /\ u = r => ~late'[u] /\ outcome'[u] = how
                         /\ u # r => /\ late'[u] = late[u] /\ fresh'[u] = fresh[u]
                                     /\ outcome'[u] = outcome[u]
    BY <1>t, <2>1, Zenon
  <2>. QED BY <1>1, <2>2, Zenon DEF TimeInv
<1>2. ASSUME NEW r \in Ranks, WaitHead(r)
      PROVE  Goal
  <2>1. \/ Return(r, "ok")
        \/ Return(r, "timeout") /\ late[r]
        \/ UNCHANGED <<late, fresh, outcome>>
    BY <1>2 DEF WaitHead, TimedOut
  <2>. QED BY <1>0, <1>1, <2>1, Zenon DEF TimeInv
<1>3. ASSUME NEW r \in Ranks, WaitVisit(r)
      PROVE  Goal
  <2>. DEFINE i == at[r]
              o == requests[r][i]
              complete == Completed(op'[o].state)
  <2>1. PICK restart \in BOOLEAN :
          /\ Pump(r, restart)
          /\ IF Throws(op'[o].state)
               THEN Return(r, "error")
               ELSE /\ late' = [late EXCEPT ![r] = late[r] /\ ~(restart \/ complete)]
                    /\ fresh' = [fresh EXCEPT ![r] = fresh[r] \/ op' # op]
                    /\ UNCHANGED outcome
    BY <1>3, Zenon DEF WaitVisit
  <2>2. ~Throws(op'[o].state)
    BY DEF Throws
  <2>3. ~restart => op' = op
    <3>. HAVE ~restart
    <3>1. restart = (Events(r) # {}) /\ Complete(Events(r))
      BY <2>1, VariantAssumption, Zenon DEF Pump
    <3>2. Complete({})
      BY <3>1, Zenon
    <3>3. op' = [p \in Ops |-> op[p]]
      BY <3>2, SMT DEF Complete
    <3>. QED BY <1>t, <3>3 DEF OpType
  <2>4. \A u \in Ranks : /\ u = r => /\ late'[u] <=> late[u] /\ ~(restart \/ complete)
                                     /\ fresh'[u] <=> fresh[u] \/ op' # op
                         /\ u # r => late'[u] = late[u] /\ fresh'[u] = fresh[u]
    <3>1. /\ late' = [late EXCEPT ![r] = late[r] /\ ~(restart \/ complete)]
          /\ fresh' = [fresh EXCEPT ![r] = fresh[r] \/ op' # op]
      BY <2>1, <2>2, Zenon
    <3>. HIDE DEF complete
    <3>. QED BY <1>t, <3>1, Zenon
  <2>5. outcome' = outcome
    BY <2>1, <2>2
  <2>. HIDE DEF complete
  <2>. QED BY <2>3, <2>4, <2>5, Zenon DEF TimeInv
<1>4. ASSUME NEW r \in Ranks, TimePasses(r)
      PROVE  Goal
  <2>1. /\ late' = [late EXCEPT ![r] = TRUE] /\ outcome' = outcome
        /\ fresh' = [fresh EXCEPT ![r] = FALSE]
    BY <1>4, Zenon DEF TimePasses
  <2>2. \A u \in Ranks : /\ u = r => ~fresh'[u]
                         /\ u # r => late'[u] = late[u] /\ fresh'[u] = fresh[u]
    BY <1>t, <2>1, Zenon
  <2>. QED BY <2>1, <2>2, Zenon DEF TimeInv
<1>5. ASSUME NEW r \in Ranks, ProgressThread(r)
      PROVE  Goal
  BY <1>5, VariantAssumption, Zenon DEF ProgressThread
<1>6. ASSUME NEW r \in Ranks, NEW ids, waitall(r, ids)
      PROVE  Goal
  <2>1. /\ UNCHANGED <<late, fresh>>
        /\ \/ outcome' = [outcome EXCEPT ![r] = "none"]
           \/ outcome' = [outcome EXCEPT ![r] = "invalid"]
    BY <1>6, Zenon DEF waitall
  <2>2. \A u \in Ranks : outcome'[u] = "timeout" => outcome[u] = "timeout"
    BY <1>t, <2>1, SMT
  <2>. QED BY <2>1, <2>2, Zenon DEF TimeInv
<1>7. ASSUME NEW r \in Ranks, NEW p \in Ranks, NEW t \in Tags,
             isend(r, p, t) \/ irecv(r, p, t)
      PROVE  Goal
  BY <1>0, <1>7, Zenon DEF isend, irecv, Post, waiting
<1>8. CASE Transport
  BY <1>0, <1>8, Zenon DEF Transport, Match, Fail, waiting
<1>9. CASE UNCHANGED vars
  BY <1>0, <1>9, Zenon DEF vars, waiting
<1>10. CASE Next
  BY <1>2, <1>3, <1>4, <1>5, <1>6, <1>7, <1>8, <1>10, Zenon DEF Next
<1>. QED BY <1>9, <1>10, Zenon

-----------------------------------------------------------------------------
(* Theorems. *)

LEMMA Step ==
  ASSUME IInv, [Next]_vars
  PROVE  IInv'
<1>1. CASE Next
  <2>1. ASSUME NEW r \in Ranks, NEW p \in Ranks, NEW t \in Tags,
               isend(r, p, t) \/ irecv(r, p, t)
        PROVE  IInv'
    BY <2>1, PostStep DEF isend, irecv
  <2>2. ASSUME NEW r \in Ranks, NEW ids \in BoundedSeq(0..next[r], MaxBatch[r]),
               waitall(r, ids)
        PROVE  IInv'
    BY <2>2, WaitallStep
  <2>3. ASSUME NEW r \in Ranks, WaitHead(r) \/ WaitVisit(r)
        PROVE  IInv'
    BY <2>3, WaitHeadStep, WaitVisitStep
  <2>4. ASSUME NEW r \in Ranks, TimePasses(r) \/ ProgressThread(r)
        PROVE  IInv'
    BY <2>4, ProgressStep
  <2>5. CASE Transport
    BY <2>5, MatchStep, FailStep DEF Transport
  <2>. QED BY <1>1, <2>1, <2>2, <2>3, <2>4, <2>5, Zenon DEF Next
<1>2. CASE UNCHANGED vars
  <2>1. op' \in OpType /\ late' \in [Ranks -> BOOLEAN] /\ fresh' \in [Ranks -> BOOLEAN]
    BY <1>2 DEF IInv, TypeOK, OpType, vars, waiting
  <2>. QED BY <1>2, <2>1, OpStep DEF vars, waiting
<1>. QED BY <1>1, <1>2

THEOREM Invariant == Spec => []IInv
<1>1. Init => IInv
  BY InitInv
<1>2. IInv /\ [Next]_vars => IInv'
  BY Step
<1>. QED BY <1>1, <1>2, PTL DEF Spec

(* The state keeps its types, and waitall's iterator stays in the vector.    *)
THEOREM TypeCorrect == Spec => []TypeOK
<1>1. IInv => TypeOK
  BY DEF IInv
<1>. QED BY <1>1, Invariant, PTL

(* Every id is in flight, free or lost, and no id serves two operations.     *)
THEOREM IdsCorrect == Spec => []IdsAccounted
<1>1. IInv => IdsAccounted
  BY DEF IInv
<1>. QED BY <1>1, Invariant, PTL

(* A caller's request_t leads to its operation until it has been waited for. *)
THEOREM HandlesCorrect == Spec => []HandlesStable
<1>1. IInv => HandlesStable
  BY Zenon DEF IInv, HandleInv, HandlesStable
<1>. QED BY <1>1, Invariant, PTL

(* A request object has one owner and is released at most once. *)
THEOREM OwnersCorrect == Spec => []OwnedOnce
<1>1. IInv => OwnedOnce
  BY DEF IInv
<1>. QED BY <1>1, Invariant, PTL

(* waitall returns normally only when all it was asked for has completed.    *)
THEOREM WaitCorrect == Spec => []WaitallComplete
<1>1. IInv => WaitallComplete
  BY DEF IInv
<1>. QED BY <1>1, Invariant, PTL

(* A receive takes a message only of the rank it names, and the two          *)
(* operations are paired with each other, for any ranks that fit below the   *)
(* highest bit of the tag's word and any tags.                               *)
THEOREM SourceCorrect == Spec => []SourceFilters
<1>1. Init => PairInv
  BY SMT DEF Init, PairInv, Paired, NoRequest
<1>2. IInv /\ PairInv /\ [Next]_vars => PairInv'
  BY PairStep
<1>3. IInv /\ PairInv => SourceFilters
  BY Zenon DEF PairInv, Paired, SourceFilters
<1>. QED BY <1>1, <1>2, <1>3, Invariant, PTL DEF Spec

(* Over ucxx a normal return of waitall means that no operation it was asked *)
(* for failed and that every receive got a message, for any ranks, bounds    *)
(* and progress threads. (Over ucp the callbacks drop the status.)           *)
THEOREM DeliversCorrect == Ucxx => (Spec => []WaitallDelivers)
<1>. SUFFICES ASSUME Ucxx PROVE Spec => []WaitallDelivers
  OBVIOUS
<1>1. Init => DeliverInv
  BY SMT DEF Init, DeliverInv, Delivered, GoodInv, NoRequest
<1>2. IInv /\ DeliverInv /\ [Next]_vars => DeliverInv'
  BY DeliverStep
<1>3. IInv /\ DeliverInv => WaitallDelivers
  <2>. SUFFICES ASSUME IInv, DeliverInv, NEW r \in Ranks, outcome[r] = "ok",
                       NEW o \in batch[r]
       PROVE  /\ op[o].state # "error"
              /\ op[o].kind = "recv" => op[o].partner # NoOp
    BY Zenon DEF WaitallDelivers
  <2>1. o \in Ops
    BY BatchOps
  <2>2. op[o].state = "done" /\ Delivered(o)
    BY <2>1 DEF DeliverInv, GoodInv
  <2>. QED BY <2>2 DEF Delivered
<1>. QED BY <1>1, <1>2, <1>3, Invariant, PTL DEF Spec

(* Over ucp waitall times out only when the worker has made no progress for  *)
(* ten seconds, on any of the rank's operations. (Over ucxx progress on      *)
(* another operation than the one looked at need not restart the clock.)     *)
THEOREM TimeoutCorrect == ~Ucxx => (Spec => TimeoutHonest)
<1>. SUFFICES ASSUME ~Ucxx PROVE Spec => TimeoutHonest
  OBVIOUS
<1>1. Init => TimeInv
  BY SMT DEF Init, TimeInv
<1>2. IInv /\ TimeInv /\ [Next]_vars => TimeInv'
  BY TimeStep
<1>3. IInv /\ TimeInv /\ [Next]_vars =>
        [\A r \in Ranks : outcome'[r] = "timeout" /\ outcome[r] # "timeout"
                            => ~fresh[r]]_vars
  BY TimeStep
<1>. QED BY <1>1, <1>2, <1>3, Invariant, PTL DEF Spec, TimeoutHonest

=============================================================================
