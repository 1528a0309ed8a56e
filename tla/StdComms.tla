------------------------------ MODULE StdComms ------------------------------
(***************************************************************************)
(* The point-to-point half of comms/detail/std_comms.hpp: every rank posts *)
(* isend and irecv operations, each under a request id, and waits for some *)
(* of them with waitall. Ids are recycled; the operations of a wait are    *)
(* followed in a local vector until the transport has completed them, the  *)
(* transport has failed them, or ten seconds have passed without progress. *)
(*                                                                         *)
(* UCX itself is external: it pairs a send with a receive by the 64-bit    *)
(* tag the code builds, and hands completions to the rank whose worker is  *)
(* progressed. A rank uses its communicator from one thread.               *)
(***************************************************************************)
EXTENDS Integers, Sequences, SequencesExt

CONSTANTS
  Ranks,      \* rank numbers
  Tags,       \* the int tags the program passes
  MaxOps,     \* bound: operations each rank posts
  MaxBatch,   \* bound: length of the arrays each rank gives to waitall
  High,       \* weight of the highest bit of a tag's word (2^31 in the code)
  Ucxx,       \* the worker is a ucxx::Worker (TRUE) or a ucp_worker_h (FALSE)
  Threaded,   \* the ranks whose ucxx worker has a progress thread
  Faults,     \* the transport may fail an operation
  NoOp        \* no operation

ASSUME RanksAssumption == /\ High \in Nat \ {0}
                          /\ Ranks \subseteq 0..(High - 1)
ASSUME TagsAssumption == Tags \subseteq Int /\ Tags # {}
ASSUME BoundsAssumption == MaxOps \in [Ranks -> Nat] /\ MaxBatch \in [Ranks -> Nat]
ASSUME VariantAssumption == /\ {Ucxx, Faults} \subseteq BOOLEAN
                            /\ Threaded \subseteq Ranks
                            /\ ~Ucxx => Threaded = {}

Ids == UNION {0..MaxOps[r] : r \in Ranks}
Ops == UNION {{r} \X (1..MaxOps[r]) : r \in Ranks}

ASSUME NoOpAssumption == NoOp \notin Ops

VARIABLES
  op,        \* the operations, as the transport and their requests see them
  posted,    \* how many operations a rank has posted
  next,      \* next_request_id_
  free,      \* free_requests_
  inflight,  \* requests_in_flight_
  requests,  \* the vector of the running waitall
  at,        \* its iterator; 0 at the head of the while loop
  late,      \* ten seconds have passed since start
  pc,        \* "run", or "wait" inside waitall
  outcome,   \* how the last waitall ended
  held,      \* history: the operation a caller's request_t stands for
  batch,     \* history: the operations the last waitall was asked for
  freed,     \* history: operations whose request has been released
  lost,      \* history: ids taken for an operation that was refused
  fresh      \* history: the worker progressed in the last ten seconds

handles == <<next, free, inflight, held, lost>>
waiting == <<requests, at, late, pc, outcome, batch, freed, fresh>>
vars == <<op, posted, handles, waiting>>

Kinds == {"none", "send", "recv"}
States == {"none", "posted", "ready", "broken", "done", "error"}
Outcomes == {"none", "ok", "timeout", "invalid", "error"}

NoRequest == [kind |-> "none", peer |-> CHOOSE r \in Ranks : TRUE,
              tag |-> CHOOSE t \in Tags : TRUE, state |-> "none",
              partner |-> NoOp]

Init ==
  /\ op = [o \in Ops |-> NoRequest]
  /\ posted = [r \in Ranks |-> 0]
  /\ next = [r \in Ranks |-> 0]
  /\ free = [r \in Ranks |-> {}]
  /\ inflight = [r \in Ranks |-> [i \in Ids |-> NoOp]]
  /\ requests = [r \in Ranks |-> <<>>]
  /\ at = [r \in Ranks |-> 0]
  /\ late = [r \in Ranks |-> FALSE]
  /\ pc = [r \in Ranks |-> "run"]
  /\ outcome = [r \in Ranks |-> "none"]
  /\ held = [r \in Ranks |-> [i \in Ids |-> NoOp]]
  /\ batch = [r \in Ranks |-> {}]
  /\ freed = [r \in Ranks |-> {}]
  /\ lost = [r \in Ranks |-> {}]
  /\ fresh = [r \in Ranks |-> FALSE]

-----------------------------------------------------------------------------
(* isend and irecv. *)

(* ((uint32_t)tag << 31) | (uint32_t)rank: the shift drops all but one bit.  *)
NoRank(rank, tag) == (tag * High) % (2 * High)
build_message_tag(rank, tag) == ((tag * High) % (2 * High)) + rank

(* Any id in free_requests_, or else a new one. *)
KeepFree(r, id) == /\ IF free[r] = {} THEN id = next[r] ELSE id \in free[r]
                   /\ next' = [next EXCEPT ![r] = IF id = @ THEN @ + 1 ELSE @]
                   /\ UNCHANGED free
get_request_id(r, id) ==
  IF free[r] = {}
    THEN id = next[r] /\ next' = [next EXCEPT ![r] = @ + 1] /\ UNCHANGED free
    ELSE /\ id \in free[r]
         /\ free' = [free EXCEPT ![r] = @ \ {id}]
         /\ UNCHANGED next

(* requests_in_flight_.insert keeps an entry that is there already. *)
Insert(r, id, o) ==
  inflight' = [inflight EXCEPT ![r][id] = IF @ = NoOp THEN o ELSE @]

(* A send may complete before isend returns; the transport may refuse an     *)
(* operation at once, and the id just taken is then not given back.          *)
Post(r, kind, peer, tag) ==
  LET o == <<r, posted[r] + 1>> IN
  /\ pc[r] = "run"
  /\ posted[r] < MaxOps[r]
  /\ posted' = [posted EXCEPT ![r] = @ + 1]
  /\ \E id \in Ids :
     /\ get_request_id(r, id)
     /\ \/ /\ \E s \in {"posted"} \cup (IF kind = "send" THEN {"done"} ELSE {}) :
                op' = [op EXCEPT ![o] = [kind |-> kind, peer |-> peer,
                                         tag |-> tag, state |-> s,
                                         partner |-> NoOp]]
           /\ Insert(r, id, o)
           /\ held' = [held EXCEPT ![r][id] = o]
           /\ UNCHANGED lost
        \/ /\ Faults /\ ~Ucxx
           /\ lost' = [lost EXCEPT ![r] = @ \cup {id}]
           /\ UNCHANGED <<op, inflight, held>>
  /\ UNCHANGED waiting

isend(r, dest, tag) == Post(r, "send", dest, tag)
irecv(r, source, tag) == Post(r, "recv", source, tag)

-----------------------------------------------------------------------------
(* UCX (external). *)

UcpTag(o) ==
  build_message_tag(IF op[o].kind = "send" THEN o[1] ELSE op[o].peer, op[o].tag)

CanMatch(s, d) ==
  /\ op[s].kind = "send" /\ op[s].state \in {"posted", "done"}
  /\ op[s].partner = NoOp
  /\ op[d].kind = "recv" /\ op[d].state = "posted"
  /\ op[s].peer = d[1]
  /\ UcpTag(s) = UcpTag(d)

(* Messages of one sender arrive in order, receives match in posting order.  *)
Match(s, d) ==
  /\ CanMatch(s, d)
  /\ \A n \in 1..(s[2] - 1) : ~CanMatch(<<s[1], n>>, d)
  /\ \A n \in 1..(d[2] - 1) : ~CanMatch(s, <<d[1], n>>)
  /\ op' = [o \in Ops |->
       CASE o = s -> [op[s] EXCEPT !.partner = d,
                        !.state = IF @ = "posted" THEN "ready" ELSE @]
         [] o = d -> [op[d] EXCEPT !.partner = s, !.state = "ready"]
         [] OTHER -> op[o]]
  /\ UNCHANGED <<posted, handles, waiting>>

(* The connection of a pending operation breaks. *)
Fail(o) ==
  /\ Faults
  /\ op[o].state = "posted"
  /\ op' = [op EXCEPT ![o].state = "broken"]
  /\ UNCHANGED <<posted, handles, waiting>>

(* Completions that wait for the rank's worker to be progressed. *)
Events(r) == {o \in Ops : o[1] = r /\ op[o].state \in {"ready", "broken"}}
Complete(O) ==
  op' = [o \in Ops |-> IF o \notin O THEN op[o]
                       ELSE [op[o] EXCEPT !.state =
                               IF @ = "ready" THEN "done" ELSE "error"]]

(* The progress thread of a ucxx worker. *)
ProgressThread(r) ==
  /\ r \in Threaded
  /\ Events(r) # {}
  /\ Complete(Events(r))
  /\ fresh' = [fresh EXCEPT ![r] = pc[r] = "wait"]
  /\ UNCHANGED <<posted, handles, requests, at, late, pc, outcome, batch, freed>>

-----------------------------------------------------------------------------
(* waitall. *)

(* An entry moves from requests_in_flight_ to the vector; its id is free.    *)
FindOnly(r, S) == UNCHANGED inflight
Erase(r, S) ==
  inflight' = [inflight EXCEPT ![r] = [i \in Ids |-> IF i \in S THEN NoOp ELSE @[i]]]

FreeIds(r, ids, n) == free' = [free EXCEPT ![r] = @ \cup {ids[i] : i \in 1..n}]

(* The first ids of the array that name distinct requests in flight. *)
Valid(r, ids, n) == \A i \in 1..n : /\ inflight[r][ids[i]] # NoOp
                                    /\ \A j \in 1..(i - 1) : ids[i] # ids[j]

(* The loop that collects the requests. An id that is not in flight throws,  *)
(* and the requests collected before it are given up.                        *)
waitall(r, ids) ==
  \E n \in 0..Len(ids) :
    /\ pc[r] = "run"
    /\ Valid(r, ids, n)
    /\ n < Len(ids) => ~Valid(r, ids, n + 1)
    /\ FreeIds(r, ids, n)
    /\ Erase(r, {ids[i] : i \in 1..n})
    /\ held' = [held EXCEPT ![r] = [i \in Ids |->
                  IF \E j \in 1..n : i = ids[j] THEN NoOp ELSE @[i]]]
    /\ at' = [at EXCEPT ![r] = 0]
    /\ IF n = Len(ids)
         THEN /\ requests' = [requests EXCEPT ![r] = [i \in 1..n |-> inflight[r][ids[i]]]]
              /\ pc' = [pc EXCEPT ![r] = "wait"]
              /\ outcome' = [outcome EXCEPT ![r] = "none"]
              /\ batch' = [batch EXCEPT ![r] = {held[r][ids[i]] : i \in 1..n}]
         ELSE /\ outcome' = [outcome EXCEPT ![r] = "invalid"]
              /\ batch' = [batch EXCEPT ![r] = {}]
              /\ UNCHANGED <<requests, pc>>
    /\ UNCHANGED <<op, posted, next, lost, late, freed, fresh>>

(* waitall returns, or an assertion throws: what the vector still holds is   *)
(* neither released nor tracked any more.                                    *)
Return(r, how) == /\ pc' = [pc EXCEPT ![r] = "run"]
                  /\ outcome' = [outcome EXCEPT ![r] = how]
                  /\ requests' = [requests EXCEPT ![r] = <<>>]
                  /\ at' = [at EXCEPT ![r] = 0]
                  /\ late' = [late EXCEPT ![r] = FALSE]
                  /\ fresh' = [fresh EXCEPT ![r] = FALSE]
                  /\ batch' = [batch EXCEPT ![r] = IF how = "ok" THEN @ ELSE {}]

(* The head of the while loop: the test of the vector, then of the clock.    *)
NeverTimedOut(r) == FALSE
TimedOut(r) == late[r]

WaitHead(r) ==
  /\ pc[r] = "wait" /\ at[r] = 0
  /\ CASE requests[r] = <<>> -> Return(r, "ok")
       [] requests[r] # <<>> /\ TimedOut(r) -> Return(r, "timeout")
       [] OTHER -> /\ at' = [at EXCEPT ![r] = 1]
                   /\ UNCHANGED <<pc, outcome, requests, late, batch, fresh>>
  /\ UNCHANGED <<op, posted, handles, freed>>

(* The worker is progressed before a request is looked at: ucp is drained;   *)
(* ucxx is called until it has progressed something; a progress thread needs *)
(* no call. restart tells whether the code takes that for progress.          *)
PumpQuiet(r, restart) == restart = FALSE /\ Complete(Events(r))
Pump(r, restart) ==
  CASE r \in Threaded -> restart = FALSE /\ UNCHANGED op
    [] Ucxx /\ r \notin Threaded -> \E E \in SUBSET Events(r) : E # {} /\ Complete(E)
    [] ~Ucxx -> restart = (Events(r) # {}) /\ Complete(Events(r))

(* The loop variable after one request: erase returns the next iterator.     *)
SkipNext(i, len, erased) == IF i + 1 > len THEN 0 ELSE i + 1
Advance(i, len, erased) ==
  LET n == IF erased THEN i ELSE i + 1
      l == IF erased THEN len - 1 ELSE len
  IN  IF n > l THEN 0 ELSE n

(* The request may be cleaned up. ucp's callbacks ignore their status, so    *)
(* req->completed says nothing of an error; ucxx's status does, and throws.  *)
AnyState(s) == s # "none"
Completed(s) == s \in {"done", "error"}
IgnoreStatus(s) == FALSE
Throws(s) == Ucxx /\ s = "error"

(* One round of the for loop. *)
WaitVisit(r) ==
  /\ pc[r] = "wait" /\ at[r] > 0
  /\ \E restart \in BOOLEAN :
     /\ Pump(r, restart)
     /\ LET i == at[r]
            o == requests[r][i]
            complete == Completed(op'[o].state)
        IN IF Throws(op'[o].state)
             THEN Return(r, "error") /\ UNCHANGED freed
             ELSE /\ late' = [late EXCEPT ![r] = @ /\ ~(restart \/ complete)]
                  /\ fresh' = [fresh EXCEPT ![r] = @ \/ op' # op]
                  /\ freed' = [freed EXCEPT ![r] = IF complete THEN @ \cup {o} ELSE @]
                  /\ requests' = [requests EXCEPT ![r] =
                                    IF complete THEN RemoveAt(@, i) ELSE @]
                  /\ at' = [at EXCEPT ![r] = Advance(i, Len(requests[r]), complete)]
                  /\ UNCHANGED <<pc, outcome, batch>>
  /\ UNCHANGED <<posted, handles>>

(* The clock reaches start + 10. *)
TimePasses(r) ==
  /\ pc[r] = "wait" /\ ~late[r]
  /\ late' = [late EXCEPT ![r] = TRUE]
  /\ fresh' = [fresh EXCEPT ![r] = FALSE]
  /\ UNCHANGED <<op, posted, handles, requests, at, pc, outcome, batch, freed>>

-----------------------------------------------------------------------------
Transport == \/ \E s, d \in Ops : Match(s, d)
             \/ \E o \in Ops : Fail(o)

(* Bound: of the ids never handed out, the arrays hold the first only. *)
Next ==
  \/ \E r \in Ranks :
       \/ \E p \in Ranks \ {r}, t \in Tags : isend(r, p, t) \/ irecv(r, p, t)
       \/ \E ids \in BoundedSeq(0..next[r], MaxBatch[r]) : waitall(r, ids)
       \/ WaitHead(r) \/ WaitVisit(r) \/ TimePasses(r) \/ ProgressThread(r)
  \/ Transport

Spec == Init /\ [][Next]_vars

(* A waiting thread is scheduled, the clock runs, the progress thread runs;  *)
(* nothing is assumed of the peers or of the transport.                      *)
FairSpec ==
  Spec /\ \A r \in Ranks : /\ WF_vars(WaitHead(r) \/ WaitVisit(r))
                           /\ WF_vars(TimePasses(r))
                           /\ WF_vars(ProgressThread(r))

-----------------------------------------------------------------------------
(* Properties. *)

(* Type invariant; the iterator never leaves the vector. *)
TypeOK ==
  /\ op \in [Ops -> [kind : Kinds, peer : Ranks, tag : Tags, state : States,
                     partner : Ops \cup {NoOp}]]
  /\ posted \in [Ranks -> Nat]
  /\ next \in [Ranks -> Ids]
  /\ free \in [Ranks -> SUBSET Ids]
  /\ inflight \in [Ranks -> [Ids -> Ops \cup {NoOp}]]
  /\ requests \in [Ranks -> Seq(Ops)]
  /\ at \in [Ranks -> Nat]
  /\ late \in [Ranks -> BOOLEAN]
  /\ pc \in [Ranks -> {"run", "wait"}]
  /\ outcome \in [Ranks -> Outcomes]
  /\ held \in [Ranks -> [Ids -> Ops \cup {NoOp}]]
  /\ batch \in [Ranks -> SUBSET (Ops \cup {NoOp})]
  /\ freed \in [Ranks -> SUBSET Ops]
  /\ lost \in [Ranks -> SUBSET Ids]
  /\ fresh \in [Ranks -> BOOLEAN]
  /\ \A r \in Ranks : at[r] <= Len(requests[r]) /\ posted[r] <= MaxOps[r]

(* Every id handed out so far is in exactly one place: in flight, free, or   *)
(* lost with an operation that was refused. No id serves two operations.     *)
IdsAccounted ==
  \A r \in Ranks, i \in Ids :
    /\ i < next[r] <=> inflight[r][i] # NoOp \/ i \in free[r] \/ i \in lost[r]
    /\ inflight[r][i] # NoOp => i \notin free[r] \cup lost[r]
    /\ i \notin free[r] \cap lost[r]

(* The request_t a caller still holds leads to the operation it was given    *)
(* for, whatever was posted and waited for since.                            *)
HandlesStable ==
  \A r \in Ranks, i \in Ids : held[r][i] # NoOp => inflight[r][i] = held[r][i]

(* A request object has one owner: it is in flight under one id, or once in  *)
(* the vector, or released; none is released twice.                          *)
OwnedOnce ==
  \A r \in Ranks :
    /\ \A i, j \in Ids : inflight[r][i] = inflight[r][j] /\ inflight[r][i] # NoOp => i = j
    /\ \A i, j \in 1..Len(requests[r]) : requests[r][i] = requests[r][j] => i = j
    /\ \A i \in Ids : inflight[r][i] \notin ToSet(requests[r]) \cup freed[r]
    /\ ToSet(requests[r]) \cap freed[r] = {}

(* waitall returns normally only when every operation it was asked for has   *)
(* been completed by the transport.                                          *)
WaitallComplete ==
  \A r \in Ranks : outcome[r] = "ok" =>
    \A o \in batch[r] : op[o].state \in {"done", "error"}

(* The documented promise "until the message is delivered (or fails)": a     *)
(* normal return means that no operation failed, and that every receive got  *)
(* a message.                                                                *)
WaitallDelivers ==
  \A r \in Ranks : outcome[r] = "ok" =>
    \A o \in batch[r] : /\ op[o].state # "error"
                        /\ op[o].kind = "recv" => op[o].partner # NoOp

(* A receive takes a message of the rank it names, never of another one that *)
(* sends to the same worker.                                                 *)
SourceFilters ==
  \A o \in Ops : op[o].kind = "recv" /\ op[o].partner # NoOp =>
    /\ op[o].partner[1] = op[o].peer
    /\ op[op[o].partner].partner = o

(* A wait times out only when the worker has made no progress for ten        *)
(* seconds, on any of the rank's operations.                                 *)
TimeoutHonest ==
  [][\A r \in Ranks : outcome'[r] = "timeout" /\ outcome[r] # "timeout"
                        => ~fresh[r]]_vars

(* Every waitall ends, with success, a timeout or an error, whatever the     *)
(* peers do.                                                                 *)
WaitallEnds == \A r \in Ranks : pc[r] = "wait" ~> pc[r] = "run"
=============================================================================
