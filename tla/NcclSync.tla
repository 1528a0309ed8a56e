------------------------------ MODULE NcclSync ------------------------------
(***************************************************************************)
(* The collective half of comms/detail/std_comms.hpp: every rank queues    *)
(* the same collectives on its stream and waits for them with sync_stream  *)
(* (nccl_sync_stream in comms/detail/util.hpp) or inside barrier. The wait *)
(* polls the stream, and aborts the communicator when NCCL has reported an *)
(* asynchronous error or the thread has been cancelled.                    *)
(*                                                                         *)
(* NCCL and CUDA are external: a stream runs its collectives in order; one *)
(* that waits for a peer ends after the peer has started the same one; an  *)
(* aborted communicator ends its kernels without performing them, and must *)
(* not be used again: what a call with it does then is not defined.        *)
(***************************************************************************)
EXTENDS Integers, Sequences

CONSTANTS
  Ranks,        \* rank numbers
  Program,      \* the calls that every rank makes, in order
  Cancellable,  \* ranks whose thread may be cancelled
  Faulty        \* ranks whose communicator and device may fail

Calls == {"allreduce", "allgather", "allgatherv", "reducescatter", "bcast",
          "reduce", "gather", "gatherv", "sendrecv", "barrier"}

ASSUME RanksAssumption == Ranks \subseteq Nat /\ Cancellable \cup Faulty \subseteq Ranks
ASSUME ProgramAssumption == Program \in Seq([call : Calls, root : Ranks, sync : BOOLEAN])

VARIABLES
  pc,       \* where the host thread of a rank is
  queued,   \* how many calls of the program it has made
  done,     \* how many of them its stream has performed
  killed,   \* the stream was emptied by an abort
  comm,     \* nccl_comm_: "ok", "failed" (an asynchronous error) or "aborted"
  broken,   \* the device is in a sticky error state
  token,    \* the thread has been cancelled
  status,   \* what its last nccl_sync_stream returned
  synced    \* history: how many calls a SUCCESS has covered, without an abort

external == <<done, killed, broken>>
vars == <<pc, queued, external, comm, token, status, synced>>

Init ==
  /\ pc = [r \in Ranks |-> "run"]
  /\ queued = [r \in Ranks |-> 0]
  /\ done = [r \in Ranks |-> 0]
  /\ killed = [r \in Ranks |-> FALSE]
  /\ comm = [r \in Ranks |-> "ok"]
  /\ broken = [r \in Ranks |-> FALSE]
  /\ token = [r \in Ranks |-> FALSE]
  /\ status = [r \in Ranks |-> "none"]
  /\ synced = [r \in Ranks |-> 0]

-----------------------------------------------------------------------------
(* The collectives, as NCCL performs what the methods queue. *)

Broadcast == "bcast"
Barrier == "allreduce"
Collective(k) == IF Program[k].call = "barrier" THEN Barrier ELSE Program[k].call

(* The peers whose part of call k rank r cannot do without. In a broadcast   *)
(* and in a send nobody needs the receiver; an allgatherv is a group with a  *)
(* broadcast from every rank, a gather a group with a send from every rank.  *)
Needs(r, k) ==
  CASE Collective(k) \in {"allreduce", "allgather", "allgatherv", "reducescatter"} -> Ranks
    [] Collective(k) = "bcast" -> {Program[k].root}
    [] Collective(k) \in {"reduce", "gather", "gatherv"} ->
         IF r = Program[k].root THEN Ranks ELSE {}
    [] Collective(k) = "sendrecv" -> Ranks \ {r}

Started(s, k) == queued[s] >= k /\ done[s] >= k - 1

(* ncclSend and ncclRecv between ncclGroupStart and ncclGroupEnd run at the  *)
(* same time; one after the other, each send waits for a receive behind the  *)
(* peer's own send.                                                          *)
SendThenRecv(s, k) == done[s] >= k
Grouped(s, k) == Started(s, k)
Ready(s, k) == IF Collective(k) = "sendrecv" THEN Grouped(s, k) ELSE Started(s, k)

Perform(r, peers) ==
  LET k == done[r] + 1 IN
  /\ k <= queued[r] /\ ~killed[r]
  /\ \A s \in peers : Ready(s, k)
  /\ done' = [done EXCEPT ![r] = k]
  /\ UNCHANGED <<pc, queued, killed, broken, comm, token, status, synced>>

Finish(r) == Perform(r, Needs(r, done[r] + 1))

(* What NCCL promises: it may wait for every peer, but for nothing else.     *)
Deliver(r) == comm[r] = "ok" /\ Perform(r, Ranks)

-----------------------------------------------------------------------------
(* The host thread. *)

(* RAFT_NCCL_TRY throws when NCCL refuses the call; a call with an aborted   *)
(* communicator is refused, or ends the process. A barrier waits at once,    *)
(* other calls when the program syncs the stream after them.                 *)
Call(r) ==
  /\ pc[r] = "run" /\ queued[r] < Len(Program)
  /\ \/ /\ comm[r] # "aborted"
        /\ queued' = [queued EXCEPT ![r] = @ + 1]
        /\ pc' = [pc EXCEPT ![r] =
                   IF Program[queued'[r]].sync \/ Program[queued'[r]].call = "barrier"
                     THEN "query" ELSE "run"]
     \/ /\ comm[r] # "ok"
        /\ pc' = [pc EXCEPT ![r] = "failed"]
        /\ UNCHANGED queued
  /\ UNCHANGED <<external, comm, token, status, synced>>

(* nccl_sync_stream returns s. barrier then throws unless s is SUCCESS; a    *)
(* caller of sync_stream may go on with any status.                          *)
Return(r, s) ==
  /\ status' = [status EXCEPT ![r] = s]
  /\ pc' \in {[pc EXCEPT ![r] = next] : next \in
                IF s = "SUCCESS" THEN {"run"}
                ELSE IF Program[queued[r]].call = "barrier" THEN {"failed"}
                ELSE {"run", "failed"}}
  /\ synced' = IF s = "SUCCESS" /\ ~killed[r]
                 THEN [synced EXCEPT ![r] = queued[r]] ELSE synced

Goto(r, next) == pc' = [pc EXCEPT ![r] = next] /\ UNCHANGED <<status, synced>>

AlmostIdle(r) == killed[r] \/ done[r] + 1 >= queued[r]
Idle(r) == killed[r] \/ done[r] = queued[r]

(* cudaStreamQuery. *)
Query(r) ==
  /\ pc[r] = "query"
  /\ IF broken[r] THEN Return(r, "ERROR")
     ELSE IF Idle(r) THEN Return(r, "SUCCESS")
     ELSE Goto(r, "async")
  /\ UNCHANGED <<queued, external, comm, token>>

(* ncclCommGetAsyncError. *)
Reported(r) == comm[r] # "ok"
GetAsyncError(r) ==
  /\ pc[r] = "async"
  /\ \/ Goto(r, IF Reported(r) THEN "abort" ELSE "yield")
     \/ comm[r] # "ok" /\ Return(r, "ERROR")
     \/ comm[r] = "aborted" /\ (Goto(r, "yield") \/ Goto(r, "failed"))
  /\ UNCHANGED <<queued, external, comm, token>>

(* interruptible::yield_no_throw takes the cancellation. *)
NeverCancelled(r) == FALSE
Cancelled(r) == token[r]
Yield(r) ==
  /\ pc[r] = "yield"
  /\ Goto(r, IF Cancelled(r) THEN "abort" ELSE "query")
  /\ token' = [token EXCEPT ![r] = FALSE]
  /\ UNCHANGED <<queued, external, comm>>

(* ncclCommAbort. If it succeeds the loop goes on polling the stream.        *)
CommAbort(r) ==
  /\ pc[r] = "abort"
  /\ \/ /\ Goto(r, "query")
        /\ comm' = [comm EXCEPT ![r] = "aborted"]
     \/ /\ comm[r] # "ok"
        /\ Return(r, "ABORT")
        /\ UNCHANGED comm
     \/ /\ comm[r] = "aborted"
        /\ Goto(r, "failed")
        /\ UNCHANGED comm
  /\ UNCHANGED <<queued, external, token>>

-----------------------------------------------------------------------------
(* The environment. *)

(* Another thread calls interruptible::cancel. *)
Cancel(r) ==
  /\ r \in Cancellable /\ ~token[r]
  /\ token' = [token EXCEPT ![r] = TRUE]
  /\ UNCHANGED <<pc, queued, external, comm, status, synced>>

(* The kernels of an aborted communicator leave the stream. *)
Kill(r) ==
  /\ comm[r] = "aborted" /\ ~Idle(r)
  /\ killed' = [killed EXCEPT ![r] = TRUE]
  /\ UNCHANGED <<pc, queued, done, broken, comm, token, status, synced>>

(* NCCL meets an error of its own, or notices that a peer has gone. *)
Break(r) ==
  /\ comm[r] = "ok"
  /\ r \in Faulty \/ \E s \in Ranks : comm[s] = "aborted" \/ pc[s] = "failed"
  /\ comm' = [comm EXCEPT ![r] = "failed"]
  /\ UNCHANGED <<pc, queued, external, token, status, synced>>

DeviceError(r) ==
  /\ r \in Faulty /\ ~broken[r]
  /\ broken' = [broken EXCEPT ![r] = TRUE]
  /\ UNCHANGED <<pc, queued, done, killed, comm, token, status, synced>>

-----------------------------------------------------------------------------
Host(r) == Call(r) \/ Query(r) \/ GetAsyncError(r) \/ Yield(r) \/ CommAbort(r)

Next == \E r \in Ranks : \/ Host(r) \/ Finish(r)
                         \/ Cancel(r) \/ Kill(r) \/ Break(r) \/ DeviceError(r)

Spec == Init /\ [][Next]_vars

(* Host threads are scheduled; NCCL performs what every peer has queued, and *)
(* ends the kernels of a communicator that was aborted.                      *)
FairSpec == Spec /\ \A r \in Ranks :
                      WF_vars(Host(r)) /\ WF_vars(Deliver(r)) /\ WF_vars(Kill(r))

-----------------------------------------------------------------------------
(* Properties. *)

Polling(r) == pc[r] \in {"query", "async", "yield", "abort"}

(* Type invariant. *)
TypeOK ==
  /\ pc \in [Ranks -> {"run", "query", "async", "yield", "abort", "failed"}]
  /\ queued \in [Ranks -> 0..Len(Program)]
  /\ done \in [Ranks -> 0..Len(Program)]
  /\ killed \in [Ranks -> BOOLEAN]
  /\ comm \in [Ranks -> {"ok", "failed", "aborted"}]
  /\ broken \in [Ranks -> BOOLEAN]
  /\ token \in [Ranks -> BOOLEAN]
  /\ status \in [Ranks -> {"none", "SUCCESS", "ERROR", "ABORT"}]
  /\ synced \in [Ranks -> 0..Len(Program)]
  /\ \A r \in Ranks : synced[r] <= done[r] /\ done[r] <= queued[r]

(* A rank that has left a barrier without an abort knows that every rank has *)
(* entered it, and that every collective before it has ended everywhere.     *)
BarrierHolds ==
  \A r \in Ranks : \A k \in 1..synced[r] :
    Program[k].call = "barrier" => \A s \in Ranks : queued[s] >= k /\ done[s] >= k - 1

(* A sync that succeeded without an abort covers only collectives to which   *)
(* every peer whose part they need has come.                                 *)
SyncedArrived ==
  \A r \in Ranks : \A k \in 1..synced[r] : \A s \in Needs(r, k) : Started(s, k)

(* A thread that is cancelled inside the wait leaves it, also when its peers *)
(* never come; and so does one whose communicator has failed.                *)
SyncEnds ==
  \A r \in Ranks : (token[r] \/ comm[r] = "failed") /\ Polling(r) ~> ~Polling(r)

(* Without errors and cancellations every rank gets through the program.     *)
Undisturbed == \A r \in Ranks : comm[r] = "ok" /\ ~broken[r] /\ ~token[r]
Through(r) == pc[r] = "run" /\ synced[r] = Len(Program)
ProgramEnds == []Undisturbed => <>\A r \in Ranks : Through(r)
=============================================================================
