--------------------------- MODULE NcclSync_proofs ---------------------------
(***************************************************************************)
(* NcclSync for any number of ranks and any program of collectives: a wait *)
(* that succeeds, without an abort, has met every peer it needs. The       *)
(* inductive invariant says it of the stream, whether or not the host has  *)
(* waited: what a stream has performed, the peers it needed have started.  *)
(***************************************************************************)
EXTENDS NcclSync, SequenceTheorems, TLAPS

Performed ==
  \A r \in Ranks : \A k \in Nat :
    1 <= k /\ k <= done[r] => \A s \in Needs(r, k) : Started(s, k)

IInv == TypeOK /\ Performed

LEMMA LenType == Len(Program) \in Nat
  BY ProgramAssumption

(* Only ranks take part in a collective of the program. *)
LEMMA NeedsType ==
  ASSUME NEW r \in Ranks, NEW k \in 1..Len(Program)
  PROVE  Needs(r, k) \subseteq Ranks
<1>1. Program[k] \in [call : Calls, root : Ranks, sync : BOOLEAN]
  BY ProgramAssumption, ElementOfSeq
<1>2. Program[k].call \in Calls /\ Program[k].root \in Ranks
  BY <1>1
<1>3. Collective(k) \in {"allreduce", "allgather", "allgatherv", "reducescatter",
                         "bcast", "reduce", "gather", "gatherv", "sendrecv"}
  BY <1>2 DEF Collective, Barrier, Calls
<1>4. CASE Collective(k) \in {"allreduce", "allgather", "allgatherv", "reducescatter"}
  BY <1>4 DEF Needs
<1>5. CASE Collective(k) = "bcast"
  BY <1>2, <1>5 DEF Needs
<1>6. CASE Collective(k) \in {"reduce", "gather", "gatherv"}
  BY <1>6 DEF Needs
<1>7. CASE Collective(k) = "sendrecv"
  BY <1>7 DEF Needs
<1> QED BY <1>3, <1>4, <1>5, <1>6, <1>7

LEMMA InitIInv == Init => IInv
<1> SUFFICES ASSUME Init PROVE IInv
  OBVIOUS
<1>1. TypeOK
  BY LenType DEF Init, TypeOK
<1>2. Performed
  BY DEF Init, Performed
<1> QED BY <1>1, <1>2 DEF IInv

-----------------------------------------------------------------------------
(* Streams and hosts only go forward, so what has started stays started.     *)
LEMMA StartedStays ==
  ASSUME TypeOK, TypeOK',
         \A s \in Ranks : queued[s] <= queued'[s] /\ done[s] <= done'[s],
         NEW s \in Ranks, NEW k \in Nat, Started(s, k)
  PROVE  Started(s, k)'
<1>1. /\ queued[s] \in Nat /\ done[s] \in Nat
      /\ queued'[s] \in Nat /\ done'[s] \in Nat
  BY LenType DEF TypeOK
<1> QED BY <1>1 DEF Started

(* A step that lets no stream perform anything keeps Performed. *)
LEMMA HostKeepsPerformed ==
  ASSUME IInv, TypeOK', done' = done,
         \A s \in Ranks : queued[s] <= queued'[s]
  PROVE  Performed'
<1> SUFFICES ASSUME NEW r \in Ranks, NEW k \in Nat, 1 <= k, k <= done'[r],
                    NEW s \in Needs(r, k)
             PROVE  Started(s, k)'
  BY DEF Performed, Needs, Collective, Barrier
<1>1. done \in [Ranks -> 0..Len(Program)]
  BY DEF IInv, TypeOK
<1>2. k \in 1..Len(Program)
  BY <1>1, LenType
<1>3. s \in Ranks
  BY <1>2, NeedsType
<1>4. Started(s, k)
  BY DEF IInv, Performed
<1>5. \A x \in Ranks : queued[x] <= queued'[x] /\ done[x] <= done'[x]
  BY <1>1, LenType
<1> QED BY <1>3, <1>4, <1>5, StartedStays DEF IInv

-----------------------------------------------------------------------------
(* Each action keeps the types. *)

LEMMA CallTypes ==
  ASSUME TypeOK, NEW r \in Ranks, Call(r)
  PROVE  TypeOK' /\ \A s \in Ranks : queued[s] <= queued'[s]
<1>1. /\ queued \in [Ranks -> 0..Len(Program)] /\ queued[r] < Len(Program)
      /\ queued' = queued \/ queued' = [queued EXCEPT ![r] = @ + 1]
      /\ UNCHANGED <<done, killed, broken, comm, token, status, synced>>
  BY DEF TypeOK, Call, external
<1>2. /\ queued' \in [Ranks -> 0..Len(Program)]
      /\ \A s \in Ranks : queued[s] <= queued'[s]
  BY <1>1, LenType
<1>3. \A s \in Ranks : done[s] <= queued'[s]
  BY <1>1, <1>2, LenType DEF TypeOK
<1>4. pc' \in [Ranks -> {"run", "query", "async", "yield", "abort", "failed"}]
  BY DEF TypeOK, Call
<1> QED BY <1>1, <1>2, <1>3, <1>4 DEF TypeOK

LEMMA ReturnTypes ==
  ASSUME TypeOK, NEW r \in Ranks, NEW s \in {"SUCCESS", "ERROR", "ABORT"},
         Return(r, s), s = "SUCCESS" => Idle(r)
  PROVE  /\ pc' \in [Ranks -> {"run", "query", "async", "yield", "abort", "failed"}]
         /\ status' \in [Ranks -> {"none", "SUCCESS", "ERROR", "ABORT"}]
         /\ synced' \in [Ranks -> 0..Len(Program)]
         /\ \A x \in Ranks : synced'[x] <= done[x]
<1>1. pc' \in [Ranks -> {"run", "query", "async", "yield", "abort", "failed"}]
  BY DEF TypeOK, Return
<1>2. status' \in [Ranks -> {"none", "SUCCESS", "ERROR", "ABORT"}]
  BY DEF TypeOK, Return
<1>3. CASE s = "SUCCESS" /\ ~killed[r]
  <2>1. synced' = [synced EXCEPT ![r] = queued[r]] /\ done[r] = queued[r]
    BY <1>3 DEF Return, Idle
  <2>2. \A x \in Ranks : synced'[x] <= done[x]
    BY <2>1, LenType DEF TypeOK
  <2> QED BY <1>1, <1>2, <2>1, <2>2 DEF TypeOK
<1>4. CASE ~(s = "SUCCESS" /\ ~killed[r])
  BY <1>1, <1>2, <1>4 DEF TypeOK, Return
<1> QED BY <1>3, <1>4

LEMMA HostTypes ==
  ASSUME TypeOK, NEW r \in Ranks,
         Query(r) \/ GetAsyncError(r) \/ Yield(r) \/ CommAbort(r)
  PROVE  TypeOK' /\ UNCHANGED <<queued, done>>
<1> DEFINE PcOK == pc' \in [Ranks -> {"run", "query", "async", "yield", "abort", "failed"}]
           ReturnOK == /\ PcOK
                       /\ status' \in [Ranks -> {"none", "SUCCESS", "ERROR", "ABORT"}]
                       /\ synced' \in [Ranks -> 0..Len(Program)]
                       /\ \A x \in Ranks : synced'[x] <= done[x]
<1>1. ASSUME NEW next \in {"query", "async", "yield", "abort", "failed"}, Goto(r, next)
      PROVE  ReturnOK
  BY <1>1 DEF Goto, TypeOK
<1>2. CASE Query(r)
  <2>1. ReturnOK
    BY <1>1, <1>2, ReturnTypes DEF Query
  <2> QED BY <1>2, <2>1 DEF Query, external, TypeOK
<1>3. CASE GetAsyncError(r)
  <2>1. ReturnOK
    BY <1>1, <1>3, ReturnTypes DEF GetAsyncError
  <2> QED BY <1>3, <2>1 DEF GetAsyncError, external, TypeOK
<1>4. CASE Yield(r)
  <2>1. ReturnOK
    BY <1>1, <1>4 DEF Yield
  <2> QED BY <1>4, <2>1 DEF Yield, external, TypeOK
<1>5. CASE CommAbort(r)
  <2>1. ReturnOK
    BY <1>1, <1>5, ReturnTypes DEF CommAbort
  <2>2. comm' \in [Ranks -> {"ok", "failed", "aborted"}]
    BY <1>5 DEF CommAbort, TypeOK
  <2> QED BY <1>5, <2>1, <2>2 DEF CommAbort, external, TypeOK
<1> QED BY <1>2, <1>3, <1>4, <1>5

LEMMA EnvironmentTypes ==
  ASSUME TypeOK, NEW r \in Ranks,
         Cancel(r) \/ Kill(r) \/ Break(r) \/ DeviceError(r)
  PROVE  TypeOK' /\ UNCHANGED <<queued, done>>
<1>1. CASE Cancel(r)
  BY <1>1 DEF Cancel, external, TypeOK
<1>2. CASE Kill(r)
  BY <1>2 DEF Kill, external, TypeOK
<1>3. CASE Break(r)
  BY <1>3 DEF Break, external, TypeOK
<1>4. CASE DeviceError(r)
  BY <1>4 DEF DeviceError, external, TypeOK
<1> QED BY <1>1, <1>2, <1>3, <1>4

-----------------------------------------------------------------------------
(* The one step that performs a collective. *)
LEMMA FinishKeeps ==
  ASSUME IInv, NEW r \in Ranks, Finish(r)
  PROVE  IInv'
<1> DEFINE n == done[r] + 1
<1>1. /\ n <= queued[r]
      /\ \A s \in Needs(r, n) : Ready(s, n)
      /\ done' = [done EXCEPT ![r] = n]
      /\ UNCHANGED <<pc, queued, killed, broken, comm, token, status, synced>>
  BY DEF Finish, Perform
<1>2. /\ done \in [Ranks -> 0..Len(Program)]
      /\ queued \in [Ranks -> 0..Len(Program)]
      /\ synced \in [Ranks -> 0..Len(Program)]
      /\ \A s \in Ranks : synced[s] <= done[s] /\ done[s] <= queued[s]
  BY DEF IInv, TypeOK
<1>3. n \in 1..Len(Program) /\ n \in Nat
  BY <1>1, <1>2, LenType
<1>4. /\ done' \in [Ranks -> 0..Len(Program)]
      /\ \A s \in Ranks : /\ queued[s] <= queued'[s] /\ done[s] <= done'[s]
                          /\ synced'[s] <= done'[s] /\ done'[s] <= queued'[s]
  BY <1>1, <1>2, <1>3, LenType
<1>5. TypeOK'
  BY <1>1, <1>4 DEF IInv, TypeOK
<1>6. \A s \in Needs(r, n) : Started(s, n)
  BY <1>1 DEF Ready, Grouped
<1>7. ASSUME NEW x \in Ranks, NEW k \in Nat, 1 <= k, k <= done'[x],
             NEW s \in Needs(x, k)
      PROVE  Started(s, k)'
  <2>1. k \in 1..Len(Program)
    BY <1>4, <1>7, LenType
  <2>2. s \in Ranks
    BY <1>7, <2>1, NeedsType
  <2>3. k <= done[x] \/ (x = r /\ k = n)
    <3>1. CASE x = r
      <4>1. done'[x] = n /\ done[x] \in Nat /\ n = done[x] + 1
        BY <1>1, <1>2, <3>1, LenType
      <4> HIDE DEF n
      <4> QED BY <1>7, <3>1, <4>1
    <3>2. CASE x # r
      <4>1. done'[x] = done[x]
        BY <1>1, <1>2, <3>2
      <4> QED BY <1>7, <4>1
    <3> QED BY <3>1, <3>2
  <2>4. Started(s, k)
    BY <1>6, <1>7, <2>3 DEF IInv, Performed
  <2> QED BY <1>4, <1>5, <2>2, <2>4, StartedStays DEF IInv
<1>8. Performed'
  BY <1>7 DEF Performed, Needs, Collective, Barrier
<1> QED BY <1>5, <1>8 DEF IInv

LEMMA NextIInv == IInv /\ [Next]_vars => IInv'
<1> SUFFICES ASSUME IInv, [Next]_vars PROVE IInv'
  OBVIOUS
<1>0. TypeOK /\ \A s \in Ranks : queued[s] <= queued[s]
  BY LenType DEF IInv, TypeOK
<1>1. ASSUME NEW r \in Ranks, Call(r) PROVE IInv'
  <2>1. TypeOK' /\ \A s \in Ranks : queued[s] <= queued'[s]
    BY <1>0, <1>1, CallTypes
  <2>2. done' = done
    BY <1>1 DEF Call, external
  <2> QED BY <2>1, <2>2, HostKeepsPerformed DEF IInv
<1>2. ASSUME NEW r \in Ranks,
             Query(r) \/ GetAsyncError(r) \/ Yield(r) \/ CommAbort(r)
      PROVE  IInv'
  <2>1. TypeOK' /\ UNCHANGED <<queued, done>>
    BY <1>0, <1>2, HostTypes
  <2> QED BY <1>0, <2>1, HostKeepsPerformed DEF IInv
<1>3. ASSUME NEW r \in Ranks, Cancel(r) \/ Kill(r) \/ Break(r) \/ DeviceError(r)
      PROVE  IInv'
  <2>1. TypeOK' /\ UNCHANGED <<queued, done>>
    BY <1>0, <1>3, EnvironmentTypes
  <2> QED BY <1>0, <2>1, HostKeepsPerformed DEF IInv
<1>4. ASSUME NEW r \in Ranks, Finish(r) PROVE IInv'
  BY <1>4, FinishKeeps
<1>5. CASE UNCHANGED vars
  <2>1. TypeOK' /\ UNCHANGED <<queued, done>>
    BY <1>0, <1>5 DEF vars, external, TypeOK
  <2> QED BY <1>0, <2>1, HostKeepsPerformed DEF IInv
<1> QED BY <1>1, <1>2, <1>3, <1>4, <1>5 DEF Next, Host

-----------------------------------------------------------------------------
THEOREM Invariant == Spec => []IInv
<1> QED BY InitIInv, NextIInv, PTL DEF Spec

(* The types hold for any number of ranks and any program of collectives.    *)
THEOREM TypeCorrect == Spec => []TypeOK
<1>1. IInv => TypeOK
  BY DEF IInv
<1> QED BY <1>1, Invariant, PTL

(* sync_stream never succeeds, unless it aborted, before every peer that the *)
(* collectives need has come to them.                                        *)
THEOREM SyncCorrect == Spec => []SyncedArrived
<1>1. IInv => SyncedArrived
  <2> SUFFICES ASSUME IInv, NEW r \in Ranks, NEW k \in 1..synced[r],
                      NEW s \in Needs(r, k)
               PROVE  Started(s, k)
    BY DEF SyncedArrived
  <2>1. k \in Nat /\ 1 <= k /\ k <= done[r]
    BY LenType DEF IInv, TypeOK
  <2> QED BY <2>1 DEF IInv, Performed
<1> QED BY <1>1, Invariant, PTL

(* barrier never lets a rank out, unless it aborted, before every rank has   *)
(* entered it and finished everything it had queued earlier.                 *)
THEOREM BarrierCorrect == Spec => []BarrierHolds
<1>1. IInv => BarrierHolds
  <2> SUFFICES ASSUME IInv, NEW r \in Ranks, NEW k \in 1..synced[r],
                      Program[k].call = "barrier", NEW s \in Ranks
               PROVE  queued[s] >= k /\ done[s] >= k - 1
    BY DEF BarrierHolds
  <2>1. k \in Nat /\ 1 <= k /\ k <= done[r]
    BY LenType DEF IInv, TypeOK
  <2>2. Needs(r, k) = Ranks
    BY DEF Needs, Collective, Barrier
  <2>3. Started(s, k)
    BY <2>1, <2>2 DEF IInv, Performed
  <2> QED BY <2>3 DEF Started
<1> QED BY <1>1, Invariant, PTL
=============================================================================
