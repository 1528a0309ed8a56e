---------------------------- MODULE Interruptible ----------------------------
(***************************************************************************)
(* The cancellation tokens of core/interruptible.hpp: the global registry  *)
(* of weak pointers, the shared pointers that own a token, the deleter     *)
(* that takes the registry's mutex, and the calls built on them            *)
(* (get_token, cancel, yield, synchronize).                                *)
(*                                                                         *)
(* A critical section is one action per step at which another thread may   *)
(* interfere: other threads drop their shared pointers without the mutex.  *)
(* A thread id is reused by a later thread once the earlier one has ended. *)
(***************************************************************************)
CONSTANTS
  Tids,      \* std::thread::id values
  Keepers,   \* the threads that keep a token they asked for
  Tokens,    \* storage for tokens: addresses the allocator may return
  NoToken,   \* an empty pointer
  NoThread   \* the mutex is free

ASSUME NoTokenAssumption == NoToken \notin Tokens
ASSUME KeepersAssumption == Keepers \subseteq Tids
ASSUME NoThreadAssumption == NoThread \notin Tids

VARIABLES
  pc,        \* where each thread is
  call,      \* the call a thread is in
  arg,       \* the thread id that call was given
  ref,       \* the shared pointers of each thread, by name
  dying,     \* the token whose deleter a thread runs
  registry,  \* the weak pointer stored for each thread id (NoToken: none)
  mutex,     \* the owner of the registry's mutex
  claimed,   \* claimed_ of each token
  continue,  \* continue_ of each token: FALSE once cancelled
  tokTid,    \* the thread id the deleter of each token was made with
  aim,       \* history: what the running cancel found for its target
  owed       \* history: a cancel of this thread has returned, unseen so far

vars == <<pc, call, arg, ref, dying, registry, mutex, claimed, continue,
          tokTid, aim, owed>>

(* The names of a thread's shared pointers: the thread_local s, a token the  *)
(* program keeps, thread_store in get_token_impl, stored in the deleter.     *)
Names == {"tls", "held", "local", "stored"}

Phases == {"off", "idle", "g_lock", "g_find", "g_make", "g_claim", "cancel",
           "drop", "sync", "query", "d_lock", "d_find", "d_end", "selflock"}
Calls == {"none", "sync", "cancel", "keep", "exit"}
Debts == {"none", "owed"}

(* Phases in which a thread holds the registry's mutex. *)
Critical == {"g_find", "g_make", "g_claim", "d_find", "d_end", "selflock"}

NoRefs == [n \in Names |-> NoToken]

(* A token has owners; weak_ptr::lock gives its address only then. *)
Live(k) == \E t \in Tids, n \in Names : ref[t][n] = k
Lock(k) == IF Live(k) THEN k ELSE NoToken

(* The shared pointer n of t is the only owner of its token. *)
LastOwner(t, n) ==
  /\ ref[t][n] # NoToken
  /\ \A u \in Tids, m \in Names : ref[u][m] = ref[t][n] => u = t /\ m = n

(* Storage not in use: no owner, and no deleter still working on it. *)
Free(k) == ~Live(k) /\ \A t \in Tids : dying[t] # k

Assign(t, n, k) == ref' = [ref EXCEPT ![t][n] = k]

(* The thread goes on inside its call, or returns from it. *)
Goto(t, p) == pc' = [pc EXCEPT ![t] = p] /\ UNCHANGED <<call, arg>>
Return(t, p) == /\ pc' = [pc EXCEPT ![t] = p]
                /\ call' = [call EXCEPT ![t] = "none"]
                /\ arg' = [arg EXCEPT ![t] = t]

Init ==
  /\ pc = [t \in Tids |-> "off"]
  /\ call = [t \in Tids |-> "none"]
  /\ arg = [t \in Tids |-> t]
  /\ ref = [t \in Tids |-> NoRefs]
  /\ dying = [t \in Tids |-> NoToken]
  /\ registry = [i \in Tids |-> NoToken]
  /\ mutex = NoThread
  /\ claimed = [k \in Tokens |-> FALSE]
  /\ continue = [k \in Tokens |-> TRUE]
  /\ tokTid = [k \in Tokens |-> NoThread]
  /\ aim = [t \in Tids |-> "none"]
  /\ owed = [t \in Tids |-> "none"]

-----------------------------------------------------------------------------
(* Calls of the program. *)

Start(t) ==
  /\ pc[t] = "off"
  /\ Goto(t, "idle")
  /\ UNCHANGED <<ref, dying, registry, mutex, claimed, continue,
                 tokTid, aim, owed>>

Enter(t, c, i, p) ==
  /\ pc[t] = "idle"
  /\ pc' = [pc EXCEPT ![t] = p]
  /\ call' = [call EXCEPT ![t] = c]
  /\ arg' = [arg EXCEPT ![t] = i]

(* synchronize and yield take the thread's own token; the first use of the   *)
(* thread_local s claims it.                                                 *)
Synchronize(t) ==
  /\ Enter(t, "sync", t, IF ref[t]["tls"] = NoToken THEN "g_lock" ELSE "sync")
  /\ UNCHANGED <<ref, dying, registry, mutex, claimed, continue, tokTid,
                 aim, owed>>

(* The static cancel(thread_id). *)
Cancel(t, i) ==
  /\ Enter(t, "cancel", i, "g_lock")
  /\ UNCHANGED <<ref, dying, registry, mutex, claimed, continue, tokTid,
                 aim, owed>>

(* auto token = get_token(thread_id). *)
GetToken(t, i) ==
  /\ t \in Keepers
  /\ ref[t]["held"] = NoToken
  /\ Enter(t, "keep", i, "g_lock")
  /\ UNCHANGED <<ref, dying, registry, mutex, claimed, continue, tokTid,
                 aim, owed>>

(* The member cancel() on a token the program kept: no lock. *)
HeldCancel(t) ==
  /\ pc[t] = "idle"
  /\ ref[t]["held"] # NoToken
  /\ continue' = [continue EXCEPT ![ref[t]["held"]] = FALSE]
  /\ UNCHANGED <<pc, call, arg, ref, dying, registry, mutex, claimed, tokTid,
                 aim, owed>>

(* A shared pointer goes out of scope: its last owner runs the deleter, and  *)
(* the thread goes on to p otherwise.                                        *)
Release(t, n, p) ==
  /\ Assign(t, n, NoToken)
  /\ IF LastOwner(t, n)
       THEN /\ dying' = [dying EXCEPT ![t] = ref[t][n]]
            /\ pc' = [pc EXCEPT ![t] = "d_lock"]
            /\ call' = [call EXCEPT ![t] = IF p = "off" THEN "exit" ELSE "none"]
            /\ arg' = [arg EXCEPT ![t] = t]
       ELSE Return(t, p) /\ UNCHANGED dying

DropHeld(t) ==
  /\ pc[t] = "idle"
  /\ ref[t]["held"] # NoToken
  /\ Release(t, "held", "idle")
  /\ UNCHANGED <<registry, mutex, claimed, continue, tokTid,
                 aim, owed>>

(* The thread ends: its locals are gone, its thread_local s is destroyed.    *)
Exit(t) ==
  /\ pc[t] = "idle"
  /\ ref[t]["held"] = NoToken
  /\ Release(t, "tls", "off")
  /\ aim' = [u \in Tids |-> IF arg[u] = t THEN "none" ELSE aim[u]]
  /\ owed' = [owed EXCEPT ![t] = "none"]
  /\ UNCHANGED <<registry, mutex, claimed, continue, tokTid>>

-----------------------------------------------------------------------------
(* get_token_impl. *)

Claim(t) == call[t] = "sync"

GetLock(t) ==
  /\ pc[t] = "g_lock"
  /\ mutex = NoThread
  /\ mutex' = t
  /\ Goto(t, "g_find")
  /\ UNCHANGED <<ref, dying, registry, claimed, continue, tokTid,
                 aim, owed>>

(* A token is made when there is none, or when the one found belongs to an   *)
(* earlier thread with the same id.                                          *)
ReuseClaimed(t, k) == k = NoToken
NeedsNew(t, k) == k = NoToken \/ (Claim(t) /\ claimed[k])

(* thread_store = weak_store.lock(), and the test of the branch. *)
GetFind(t) ==
  LET k == Lock(registry[arg[t]]) IN
  /\ pc[t] = "g_find"
  /\ Assign(t, "local", k)
  /\ Goto(t, IF NeedsNew(t, k) THEN "g_make" ELSE "g_claim")
  /\ UNCHANGED <<dying, registry, mutex, claimed, continue, tokTid,
                 aim, owed>>

(* The swap of weak_store. *)
PublishUnclaimed(t, k) ==
  registry' = IF Claim(t) THEN registry ELSE [registry EXCEPT ![arg[t]] = k]
Publish(t, k) == registry' = [registry EXCEPT ![arg[t]] = k]

(* thread_store.reset(new interruptible()), then the swap of weak_store. The *)
(* reset gives up the old token: when its other owners have gone meanwhile,  *)
(* its deleter runs here and locks the mutex this thread holds.              *)
GetMake(t) ==
  /\ pc[t] = "g_make"
  /\ IF LastOwner(t, "local")
       THEN /\ Goto(t, "selflock")
            /\ UNCHANGED <<ref, registry, claimed, continue, tokTid>>
       ELSE \E k \in Tokens :
            /\ Free(k)
            /\ Assign(t, "local", k)
            /\ Publish(t, k)
            /\ claimed' = [claimed EXCEPT ![k] = FALSE]
            /\ continue' = [continue EXCEPT ![k] = TRUE]
            /\ tokTid' = [tokTid EXCEPT ![k] = arg[t]]
            /\ Goto(t, "g_claim")
  /\ UNCHANGED <<dying, mutex, aim, owed>>

(* The returned pointer moves from thread_store into the caller's variable. *)
CopyOut(t, n) == ref' = [ref EXCEPT ![t][n] = ref[t]["local"]]
MoveOut(t, n) == ref' = [ref EXCEPT ![t][n] = ref[t]["local"],
                                    ![t]["local"] = NoToken]

(* The end of get_token_impl: claim, unlock, hand the pointer over. *)
GetClaim(t) ==
  LET k == ref[t]["local"] IN
  /\ pc[t] = "g_claim"
  /\ mutex' = NoThread
  /\ CASE call[t] = "sync" ->
            /\ claimed' = [claimed EXCEPT ![k] = TRUE]
            /\ MoveOut(t, "tls")
            /\ Goto(t, "sync")
            /\ UNCHANGED aim
       [] call[t] = "keep" ->
            /\ MoveOut(t, "held")
            /\ Return(t, "idle")
            /\ UNCHANGED <<claimed, aim>>
       [] OTHER ->
            /\ Goto(t, "cancel")
            /\ aim' = [aim EXCEPT ![t] =
                         IF ref[arg[t]]["tls"] # NoToken THEN "owed" ELSE "none"]
            /\ UNCHANGED <<ref, claimed>>
  /\ UNCHANGED <<dying, registry, continue, tokTid, owed>>

-----------------------------------------------------------------------------
(* cancel(thread_id), after its get_token. *)

CancelFound(t) ==
  /\ pc[t] = "cancel"
  /\ continue' = [continue EXCEPT ![ref[t]["local"]] = FALSE]
  /\ owed' = [owed EXCEPT ![arg[t]] = IF aim[t] = "owed" THEN "owed" ELSE @]
  /\ aim' = [aim EXCEPT ![t] = "none"]
  /\ Goto(t, "drop")
  /\ UNCHANGED <<ref, dying, registry, mutex, claimed, tokTid>>

CancelDrop(t) ==
  /\ pc[t] = "drop"
  /\ Release(t, "local", "idle")
  /\ UNCHANGED <<registry, mutex, claimed, continue, tokTid, aim, owed>>

-----------------------------------------------------------------------------
(* synchronize_impl; yield is a synchronize whose query answers at once. *)

(* yield_no_throw_impl: test_and_set of continue_. *)
TestOnly(k) == UNCHANGED continue
TestAndSet(k) == continue' = [continue EXCEPT ![k] = TRUE]

(* yield_impl throws when the flag was set. *)
NoThrow(k) == TRUE
Passes(k) == continue[k]

SyncYield(t) ==
  LET k == ref[t]["tls"] IN
  /\ pc[t] = "sync"
  /\ TestAndSet(k)
  /\ IF Passes(k) THEN Goto(t, "query") /\ UNCHANGED owed
                    ELSE /\ Return(t, "idle")
                         /\ owed' = [owed EXCEPT ![t] = "none"]
  /\ UNCHANGED <<ref, dying, registry, mutex, claimed, tokTid, aim>>

(* The device query: cudaErrorNotReady goes around the loop, which starts    *)
(* with a cancellation point; anything else ends the call.                   *)
SyncQuery(t) ==
  /\ pc[t] = "query"
  /\ \E ready \in BOOLEAN :
       IF ready THEN Return(t, "idle") ELSE Goto(t, "sync")
  /\ UNCHANGED <<ref, dying, registry, mutex, claimed, continue,
                 tokTid, aim, owed>>

-----------------------------------------------------------------------------
(* registry_gc_t::operator(). *)

DelLock(t) ==
  /\ pc[t] = "d_lock"
  /\ mutex = NoThread
  /\ mutex' = t
  /\ Goto(t, "d_find")
  /\ UNCHANGED <<ref, dying, registry, claimed, continue, tokTid,
                 aim, owed>>

(* No token in the entry, or this one: the entry is erased. *)
EraseAny(k, d) == TRUE
EraseEntry(k, d) == k \in {NoToken, d}

(* stored = found->second.lock(), and the erase of the entry. *)
DelFind(t) ==
  LET i == tokTid[dying[t]]
      k == Lock(registry[i]) IN
  /\ pc[t] = "d_find"
  /\ Assign(t, "stored", k)
  /\ registry' = IF EraseEntry(k, dying[t])
                 THEN [registry EXCEPT ![i] = NoToken] ELSE registry
  /\ Goto(t, "d_end")
  /\ UNCHANGED <<dying, mutex, claimed, continue, tokTid, aim,
                 owed>>

(* The storage goes back to the allocator. *)
Delete(k) == /\ claimed' = [claimed EXCEPT ![k] = FALSE]
             /\ continue' = [continue EXCEPT ![k] = TRUE]
             /\ tokTid' = [tokTid EXCEPT ![k] = NoThread]

(* stored goes out of scope before the lock_guard: as the last owner of a    *)
(* newer token it runs that token's deleter under the mutex. Otherwise the   *)
(* mutex is released and the token deleted.                                  *)
DelEnd(t) ==
  /\ pc[t] = "d_end"
  /\ IF LastOwner(t, "stored")
       THEN /\ Goto(t, "selflock")
            /\ UNCHANGED <<ref, dying, mutex, claimed, continue, tokTid>>
       ELSE /\ Assign(t, "stored", NoToken)
            /\ Delete(dying[t])
            /\ dying' = [dying EXCEPT ![t] = NoToken]
            /\ mutex' = NoThread
            /\ Return(t, IF call[t] = "exit" THEN "off" ELSE "idle")
  /\ UNCHANGED <<registry, aim, owed>>

-----------------------------------------------------------------------------
Step(t) ==
  \/ GetLock(t) \/ GetFind(t) \/ GetMake(t) \/ GetClaim(t)
  \/ CancelFound(t) \/ CancelDrop(t)
  \/ SyncYield(t) \/ SyncQuery(t)
  \/ DelLock(t) \/ DelFind(t) \/ DelEnd(t)

Next ==
  \E t \in Tids :
    \/ Start(t) \/ Synchronize(t) \/ HeldCancel(t) \/ DropHeld(t) \/ Exit(t)
    \/ \E i \in Tids : Cancel(t, i) \/ GetToken(t, i)
    \/ Step(t)

Spec == Init /\ [][Next]_vars

(* The scheduler runs every thread that is inside a call. *)
FairSpec == Spec /\ \A t \in Tids : WF_vars(Step(t))

-----------------------------------------------------------------------------
(* Properties. *)

(* Type invariant; between calls nothing of the library is left in a thread. *)
TypeOK ==
  /\ pc \in [Tids -> Phases]
  /\ call \in [Tids -> Calls]
  /\ arg \in [Tids -> Tids]
  /\ ref \in [Tids -> [Names -> Tokens \cup {NoToken}]]
  /\ dying \in [Tids -> Tokens \cup {NoToken}]
  /\ registry \in [Tids -> Tokens \cup {NoToken}]
  /\ mutex \in Tids \cup {NoThread}
  /\ claimed \in [Tokens -> BOOLEAN]
  /\ continue \in [Tokens -> BOOLEAN]
  /\ tokTid \in [Tokens -> Tids \cup {NoThread}]
  /\ aim \in [Tids -> Debts]
  /\ owed \in [Tids -> Debts]
  /\ \A t \in Tids : pc[t] \in {"off", "idle"} =>
       ref[t]["local"] = NoToken /\ ref[t]["stored"] = NoToken /\ dying[t] = NoToken

(* A thread that has its token is found through the registry, whatever       *)
(* tokens of the same thread id are created, kept or deleted around it.      *)
RegistryFindsClaimed ==
  \A t \in Tids : ref[t]["tls"] # NoToken =>
    /\ registry[t] = ref[t]["tls"]
    /\ claimed[ref[t]["tls"]]

(* Every entry of the registry is a token with owners or one whose deleter   *)
(* has yet to run: no entry is left behind, and none refers to freed storage *)
(* that the allocator may give to another thread's token.                    *)
RegistryNeverStale ==
  \A i \in Tids : registry[i] # NoToken =>
    /\ ~Free(registry[i])
    /\ tokTid[registry[i]] = i

(* A thread never takes over a token that an earlier thread of the same id   *)
(* used: whoever still keeps that one cannot interrupt the new thread.       *)
ClaimedOnce ==
  [][\A t \in Tids : ref[t]["tls"] = NoToken /\ ref'[t]["tls"] # NoToken
                        => ~claimed[ref'[t]["tls"]]]_vars

(* Once a thread has its token, a cancel(thread_id) that has returned is     *)
(* seen by the thread's next cancellation point: it never passes.            *)
CancelNotMissed ==
  [][\A t \in Tids : pc[t] = "sync" /\ pc'[t] = "query" => owed[t] # "owed"]_vars

(* No thread waits for the registry's mutex while holding it. *)
NoSelfDeadlock == \A t \in Tids : pc[t] # "selflock"

(* A cancelled thread leaves synchronize however long the device works. *)
CancelledSyncEnds ==
  \A t \in Tids : pc[t] \in {"sync", "query"} /\ owed[t] = "owed"
                    ~> pc[t] \notin {"sync", "query"}

(* The API's promise, thread by thread: the threads with a token, those of   *)
(* them with a cancellation to come, those inside synchronize and those past *)
(* its cancellation point. A cancel interrupts one call, and is then used up.*)
Attached == {t \in Tids : ref[t]["tls"] # NoToken}
Cancelled == {t \in Attached : ~continue[ref[t]["tls"]]}
Calling == {t \in Tids : pc[t] \in {"sync", "query"}}
Passed == {t \in Tids : pc[t] = "query"}

Abs == INSTANCE CancelFlag WITH
         attached <- Attached, cancelled <- Cancelled,
         calling <- Calling, passed <- Passed
AbsSpec == Abs!Spec
=============================================================================
