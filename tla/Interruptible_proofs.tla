------------------------- MODULE Interruptible_proofs -------------------------
(***************************************************************************)
(* Proofs about Interruptible for any threads and any storage.             *)
(*                                                                         *)
(* The inductive invariant IInv says what the registry's mutex protects:   *)
(* who is inside it (MutexInv), which tokens are being deleted (DyingInv), *)
(* that an entry of the registry leads to a token made for that thread id  *)
(* (RegistryNeverStale) and to the running thread's own token              *)
(* (RegistryFindsClaimed), and what a thread inside a call knows about the *)
(* token it holds (CallInv). DebtInv carries it over to cancellations.     *)
(***************************************************************************)
EXTENDS Interruptible, TLAPS

MutexInv == \A t \in Tids : pc[t] \in Critical <=> mutex = t

DyingInv ==
  /\ \A t \in Tids : dying[t] # NoToken <=>
        pc[t] \in {"d_lock", "d_find", "d_end"} 
           \/ (pc[t] = "selflock" /\ ref[t]["local"] = NoToken)
  /\ \A t \in Tids : dying[t] # NoToken => ~Live(dying[t])
  /\ \A t, u \in Tids : dying[t] # NoToken /\ dying[t] = dying[u] => t = u
  /\ \A t \in Tids : pc[t] = "d_end" => registry[tokTid[dying[t]]] # dying[t]

(* A token in use, or being deleted, has its thread id. *)
OwnerInv ==
  /\ \A k \in Tokens : ~Free(k) => tokTid[k] \in Tids
  /\ \A t \in Tids : ref[t]["tls"] # NoToken => tokTid[ref[t]["tls"]] = t

CallInv ==
  \A t \in Tids :
    /\ pc[t] \in {"g_lock", "g_find", "g_make", "g_claim"} /\ call[t] = "sync"
          => arg[t] = t /\ ref[t]["tls"] = NoToken
    /\ pc[t] \in {"g_lock", "g_find", "g_make", "g_claim"} /\ call[t] = "keep"
          => ref[t]["held"] = NoToken
    /\ pc[t] = "g_make" /\ call[t] # "sync" => ref[arg[t]]["tls"] = NoToken
    /\ pc[t] = "g_claim" => /\ ref[t]["local"] # NoToken
                            /\ registry[arg[t]] = ref[t]["local"]
                            /\ call[t] = "sync" => ~claimed[ref[t]["local"]]
    /\ pc[t] \in {"cancel", "drop"} => ref[t]["local"] # NoToken
    /\ pc[t] \in {"sync", "query"} => ref[t]["tls"] # NoToken
    /\ call[t] = "exit" => ref[t]["tls"] = NoToken
    /\ pc[t] = "off" => ref[t]["tls"] = NoToken
    /\ ref[t]["stored"] # NoToken => pc[t] \in {"d_end", "selflock"}
    /\ pc[t] \in {"g_lock", "g_find", "sync", "query", "d_lock", "d_find",
                  "d_end"} => ref[t]["local"] = NoToken

DebtInv ==
  \A t \in Tids :
    /\ aim[t] # "none" => pc[t] = "cancel"
    /\ aim[t] = "owed" => /\ ref[t]["local"] = ref[arg[t]]["tls"]
                          /\ ref[arg[t]]["tls"] # NoToken
    /\ owed[t] = "owed" => /\ ref[t]["tls"] # NoToken
                           /\ ~continue[ref[t]["tls"]]

IInv == /\ TypeOK /\ MutexInv /\ DyingInv /\ OwnerInv
        /\ RegistryNeverStale /\ RegistryFindsClaimed /\ CallInv /\ DebtInv

(* An action that moves no shared pointer and no entry keeps the registry. *)
LEMMA RegistryStable ==
  ASSUME RegistryNeverStale, UNCHANGED <<ref, dying, registry, tokTid>>
  PROVE RegistryNeverStale'
  BY DEF RegistryNeverStale, Free, Live

(* What the end of one shared pointer does: only its own token may die, and   *)
(* no storage becomes free before its deleter has run.                         *)
LEMMA ReleaseFacts ==
  ASSUME TypeOK, NEW t \in Tids, NEW n \in Names, NEW p, Release(t, n, p),
         dying[t] = NoToken
  PROVE  /\ \A k \in Tokens : Live(k)' => Live(k)
         /\ \A k \in Tokens : Live(k) /\ ~Live(k)' => LastOwner(t, n) /\ ref[t][n] = k
         /\ \A k \in Tokens : LastOwner(t, n) /\ ref[t][n] = k => ~Live(k)'
         /\ \A u \in Tids : \A m \in Names :
              ref'[u][m] = IF u = t /\ m = n THEN NoToken ELSE ref[u][m]
         /\ \A u \in Tids :
              dying'[u] = IF u = t /\ LastOwner(t, n) THEN ref[t][n] ELSE dying[u]
         /\ \A k \in Tokens : Free(k)' <=> Free(k)
         /\ \A u \in Tids :
              pc'[u] = IF u # t THEN pc[u] ELSE IF LastOwner(t, n) THEN "d_lock" ELSE p
         /\ pc' = [pc EXCEPT ![t] = IF LastOwner(t, n) THEN "d_lock" ELSE p]
         /\ \E c \in {"exit", "none"} : call' = [call EXCEPT ![t] = c]
         /\ arg' = [arg EXCEPT ![t] = t]
<1>1. \A u \in Tids, m \in Names :
        ref'[u][m] = IF u = t /\ m = n THEN NoToken ELSE ref[u][m]
  BY DEF TypeOK, Release, Assign
<1>2. dying' = IF LastOwner(t, n) THEN [dying EXCEPT ![t] = ref[t][n]] ELSE dying
  BY DEF Release
<1>3. \A u \in Tids :
        dying'[u] = IF u = t /\ LastOwner(t, n) THEN ref[t][n] ELSE dying[u]
  BY <1>2 DEF TypeOK
<1>4. \A k \in Tokens : Live(k)' => Live(k)
  BY <1>1, NoTokenAssumption DEF Live
<1>5. \A k \in Tokens : LastOwner(t, n) /\ ref[t][n] = k => ~Live(k)'
  BY <1>1, NoTokenAssumption DEF Live, LastOwner
<1>6. \A k \in Tokens : Live(k) /\ ~Live(k)' => LastOwner(t, n) /\ ref[t][n] = k
  <2> SUFFICES ASSUME NEW k \in Tokens, Live(k), ~Live(k)'
               PROVE  LastOwner(t, n) /\ ref[t][n] = k
    OBVIOUS
  <2>1. \A u \in Tids, m \in Names : ref[u][m] = k => u = t /\ m = n
    BY <1>1 DEF Live
  <2> QED BY <2>1, NoTokenAssumption DEF Live, LastOwner
<1>7. \A k \in Tokens : Free(k)' <=> Free(k)
  <2> SUFFICES ASSUME NEW k \in Tokens PROVE Free(k)' <=> Free(k)
    OBVIOUS
  <2>1. CASE LastOwner(t, n) /\ ref[t][n] = k
    BY <2>1, <1>3, <1>5 DEF Free, Live
  <2>2. CASE ~(LastOwner(t, n) /\ ref[t][n] = k)
    <3>1. Live(k)' <=> Live(k)
      BY <2>2, <1>4, <1>6
    <3>2. \A u \in Tids : dying'[u] = k <=> dying[u] = k
      BY <2>2, <1>3, NoTokenAssumption
    <3> QED BY <3>1, <3>2 DEF Free
  <2> QED BY <2>1, <2>2
<1>8. /\ pc' = [pc EXCEPT ![t] = IF LastOwner(t, n) THEN "d_lock" ELSE p]
      /\ \E c \in {"exit", "none"} : call' = [call EXCEPT ![t] = c]
      /\ arg' = [arg EXCEPT ![t] = t]
  BY DEF Release, Return
<1>9. \A u \in Tids :
        pc'[u] = IF u # t THEN pc[u] ELSE IF LastOwner(t, n) THEN "d_lock" ELSE p
  BY <1>8 DEF TypeOK
<1> QED BY <1>1, <1>3, <1>4, <1>5, <1>6, <1>7, <1>8, <1>9

(* A thread that starts keeps IInv. *)
LEMMA Start_Inv ==
  ASSUME IInv, NEW t \in Tids, Start(t)
  PROVE IInv'
<1>1. TypeOK'
  BY NoTokenAssumption, NoThreadAssumption DEF IInv, Start, Goto, TypeOK, CallInv, DyingInv, Names, Phases, Calls, Debts
<1>2. MutexInv'
  BY NoTokenAssumption, NoThreadAssumption DEF IInv, Start, Goto, TypeOK, MutexInv, Critical, Names
<1>3. DyingInv'
  BY NoTokenAssumption, NoThreadAssumption DEF IInv, Start, Goto, TypeOK, MutexInv, DyingInv, CallInv, OwnerInv, RegistryNeverStale, Critical, Live, Free, Names
<1>4. OwnerInv'
  BY NoTokenAssumption, NoThreadAssumption DEF IInv, Start, Goto, TypeOK, OwnerInv, DyingInv, CallInv, RegistryNeverStale, Free, Live, Names
<1>5. RegistryNeverStale'
  BY RegistryStable DEF IInv, Start
<1>6. RegistryFindsClaimed'
  BY NoTokenAssumption, NoThreadAssumption DEF IInv, Start, Goto, TypeOK, RegistryFindsClaimed, RegistryNeverStale, DyingInv, OwnerInv, CallInv, MutexInv, Critical, Free, Live, Names
<1>7. CallInv'
  BY NoTokenAssumption, NoThreadAssumption DEF IInv, Start, Goto, TypeOK, RegistryFindsClaimed, RegistryNeverStale, DyingInv, CallInv, OwnerInv, MutexInv, Critical, Free, Live, Names
<1>8. DebtInv'
  BY NoTokenAssumption, NoThreadAssumption DEF IInv, Start, Goto, TypeOK, DebtInv, CallInv, OwnerInv, RegistryFindsClaimed, DyingInv, Live, Free, Names
<1> QED BY <1>1, <1>2, <1>3, <1>4, <1>5, <1>6, <1>7, <1>8 DEF IInv

(* Entering synchronize or yield keeps IInv. *)
LEMMA Synchronize_Inv ==
  ASSUME IInv, NEW t \in Tids, Synchronize(t)
  PROVE IInv'
<1>1. TypeOK'
  BY NoTokenAssumption, NoThreadAssumption DEF IInv, Synchronize, Enter, TypeOK, CallInv, DyingInv, Names, Phases, Calls, Debts
<1>2. MutexInv'
  BY NoTokenAssumption, NoThreadAssumption DEF IInv, Synchronize, Enter, TypeOK, MutexInv, Critical, Names
<1>3. DyingInv'
  BY NoTokenAssumption, NoThreadAssumption DEF IInv, Synchronize, Enter, TypeOK, MutexInv, DyingInv, CallInv, OwnerInv, RegistryNeverStale, Critical, Live, Free, Names
<1>4. OwnerInv'
  BY NoTokenAssumption, NoThreadAssumption DEF IInv, Synchronize, Enter, TypeOK, OwnerInv, DyingInv, CallInv, RegistryNeverStale, Free, Live, Names
<1>5. RegistryNeverStale'
  BY RegistryStable DEF IInv, Synchronize
<1>6. RegistryFindsClaimed'
  BY NoTokenAssumption, NoThreadAssumption DEF IInv, Synchronize, Enter, TypeOK, RegistryFindsClaimed, RegistryNeverStale, DyingInv, OwnerInv, CallInv, MutexInv, Critical, Free, Live, Names
<1>7. CallInv'
  BY NoTokenAssumption, NoThreadAssumption DEF IInv, Synchronize, Enter, TypeOK, RegistryFindsClaimed, RegistryNeverStale, DyingInv, CallInv, OwnerInv, MutexInv, Critical, Free, Live, Names
<1>8. DebtInv'
  BY NoTokenAssumption, NoThreadAssumption DEF IInv, Synchronize, Enter, TypeOK, DebtInv, CallInv, OwnerInv, RegistryFindsClaimed, DyingInv, Live, Free, Names
<1> QED BY <1>1, <1>2, <1>3, <1>4, <1>5, <1>6, <1>7, <1>8 DEF IInv

(* The lock-free cancel of a kept token keeps IInv. *)
LEMMA HeldCancel_Inv ==
  ASSUME IInv, NEW t \in Tids, HeldCancel(t)
  PROVE IInv'
<1>1. TypeOK'
  BY NoTokenAssumption, NoThreadAssumption DEF IInv, HeldCancel, TypeOK, CallInv, DyingInv, Names, Phases, Calls, Debts
<1>2. MutexInv'
  BY NoTokenAssumption, NoThreadAssumption DEF IInv, HeldCancel, TypeOK, MutexInv, Critical, Names
<1>3. DyingInv'
  BY NoTokenAssumption, NoThreadAssumption DEF IInv, HeldCancel, TypeOK, MutexInv, DyingInv, CallInv, OwnerInv, RegistryNeverStale, Critical, Live, Free, Names
<1>4. OwnerInv'
  BY NoTokenAssumption, NoThreadAssumption DEF IInv, HeldCancel, TypeOK, OwnerInv, DyingInv, CallInv, RegistryNeverStale, Free, Live, Names
<1>5. RegistryNeverStale'
  BY RegistryStable DEF IInv, HeldCancel
<1>6. RegistryFindsClaimed'
  BY NoTokenAssumption, NoThreadAssumption DEF IInv, HeldCancel, TypeOK, RegistryFindsClaimed, RegistryNeverStale, DyingInv, OwnerInv, CallInv, MutexInv, Critical, Free, Live, Names
<1>7. CallInv'
  BY NoTokenAssumption, NoThreadAssumption DEF IInv, HeldCancel, TypeOK, RegistryFindsClaimed, RegistryNeverStale, DyingInv, CallInv, OwnerInv, MutexInv, Critical, Free, Live, Names
<1>8. DebtInv'
  BY NoTokenAssumption, NoThreadAssumption DEF IInv, HeldCancel, TypeOK, DebtInv, CallInv, OwnerInv, RegistryFindsClaimed, DyingInv, Live, Free, Names
<1> QED BY <1>1, <1>2, <1>3, <1>4, <1>5, <1>6, <1>7, <1>8 DEF IInv

(* Dropping a kept token keeps IInv. *)
LEMMA DropHeld_Inv ==
  ASSUME IInv, NEW t \in Tids, DropHeld(t)
  PROVE IInv'
<1>0. dying[t] = NoToken /\ "held" \in Names
  BY DEF IInv, DropHeld, DyingInv, Names
<1>r. Release(t, "held", "idle")
  BY DEF DropHeld
<1>f. /\ \A u \in Tids : \A m \in Names :
           ref'[u][m] = IF u = t /\ m = "held" THEN NoToken ELSE ref[u][m]
      /\ \A u \in Tids :
           dying'[u] = IF u = t /\ LastOwner(t, "held") THEN ref[t]["held"] ELSE dying[u]
      /\ \A u \in Tids :
           pc'[u] = IF u # t THEN pc[u] ELSE IF LastOwner(t, "held") THEN "d_lock" ELSE "idle"
  BY <1>0, <1>r, ReleaseFacts DEF IInv
<1>g. /\ \A k \in Tokens : Live(k)' => Live(k)
      /\ \A k \in Tokens : LastOwner(t, "held") /\ ref[t]["held"] = k => ~Live(k)'
      /\ \A k \in Tokens : Free(k)' <=> Free(k)
  BY <1>0, <1>r, ReleaseFacts DEF IInv
<1>1. TypeOK'
  <2>1. /\ dying' \in [Tids -> Tokens \cup {NoToken}]
        /\ ref' \in [Tids -> [Names -> Tokens \cup {NoToken}]]
    BY <1>r DEF IInv, TypeOK, Release, Assign, Names, LastOwner
  <2>2. /\ pc' \in [Tids -> Phases]
        /\ call' \in [Tids -> Calls]
        /\ arg' \in [Tids -> Tids]
    <3>1. /\ \E q \in Phases : pc' = [pc EXCEPT ![t] = q]
          /\ \E c \in Calls : call' = [call EXCEPT ![t] = c]
          /\ arg' = [arg EXCEPT ![t] = t]
      BY <1>r DEF Release, Return, Phases, Calls
    <3> QED BY <3>1 DEF IInv, TypeOK
  <2>3. \A u \in Tids : pc'[u] \in {"off", "idle"} =>
          ref'[u]["local"] = NoToken /\ ref'[u]["stored"] = NoToken
            /\ dying'[u] = NoToken
    <3>1. ref[t]["stored"] = NoToken /\ ("held" # "local" => ref[t]["local"] = NoToken)
      BY DEF IInv, DropHeld, TypeOK, CallInv, DyingInv
    <3> QED BY <3>1, <1>0, <1>f DEF IInv, TypeOK, Names
  <2> QED BY <2>1, <2>2, <2>3 DEF IInv, TypeOK, DropHeld, Debts
<1>2. MutexInv'
  BY NoTokenAssumption, NoThreadAssumption DEF IInv, DropHeld, Release, Return, Assign, LastOwner, TypeOK, MutexInv, Critical, Names
<1>3. DyingInv'
  <2>2. \A u \in Tids : dying'[u] # NoToken =>
          \/ u # t /\ dying'[u] = dying[u]
          \/ u = t /\ LastOwner(t, "held") /\ dying'[u] = ref[t]["held"]
    BY <1>f, <1>0
  <2>3. \A u \in Tids : dying'[u] # NoToken => ~Live(dying[u])'
    <3> SUFFICES ASSUME NEW u \in Tids, dying'[u] # NoToken
                 PROVE  ~Live(dying[u])'
      OBVIOUS
    <3>1. dying'[u] \in Tokens
      BY <1>1 DEF TypeOK
    <3>2. \A k \in Tokens : k = dying'[u] => ~Live(k)'
      BY <2>2, <1>g DEF IInv, DyingInv
    <3> QED BY <3>1, <3>2 DEF Live
  <2>4. \A u, v \in Tids : dying'[u] # NoToken /\ dying'[u] = dying'[v] => u = v
    <3>1. LastOwner(t, "held") => Live(ref[t]["held"])
      BY <1>0 DEF LastOwner, Live
    <3> QED BY <3>1, <2>2 DEF IInv, DyingInv
  <2>5. \A u \in Tids : dying'[u] # NoToken <=>
          pc'[u] \in {"d_lock", "d_find", "d_end"}
           \/ (pc'[u] = "selflock" /\ ref'[u]["local"] = NoToken)
    BY <1>f, <1>0 DEF IInv, DyingInv, Names, LastOwner
  <2>6. \A u \in Tids : pc'[u] = "d_end" => registry'[tokTid'[dying'[u]]] # dying'[u]
    BY <1>f DEF IInv, DyingInv, DropHeld
  <2> QED BY <2>3, <2>4, <2>5, <2>6 DEF DyingInv
<1>4. OwnerInv'
  BY NoTokenAssumption, NoThreadAssumption DEF IInv, DropHeld, Release, Return, Assign, LastOwner, TypeOK, OwnerInv, DyingInv, CallInv, RegistryNeverStale, Free, Live, Names
<1>5. RegistryNeverStale'
  BY <1>g DEF IInv, RegistryNeverStale, TypeOK, DropHeld
<1>6. RegistryFindsClaimed'
  BY NoTokenAssumption, NoThreadAssumption DEF IInv, DropHeld, Release, Return, Assign, LastOwner, TypeOK, RegistryFindsClaimed, RegistryNeverStale, DyingInv, OwnerInv, CallInv, MutexInv, Critical, Free, Live, Names
<1>7. CallInv'
  BY NoTokenAssumption, NoThreadAssumption DEF IInv, DropHeld, Release, Return, Assign, LastOwner, TypeOK, RegistryFindsClaimed, RegistryNeverStale, DyingInv, CallInv, OwnerInv, MutexInv, Critical, Free, Live, Names
<1>8. DebtInv'
  BY NoTokenAssumption, NoThreadAssumption DEF IInv, DropHeld, Release, Return, Assign, LastOwner, TypeOK, DebtInv, CallInv, OwnerInv, RegistryFindsClaimed, DyingInv, Live, Free, Names
<1> QED BY <1>1, <1>2, <1>3, <1>4, <1>5, <1>6, <1>7, <1>8 DEF IInv

(* The end of a thread keeps IInv. *)
LEMMA Exit_Inv ==
  ASSUME IInv, NEW t \in Tids, Exit(t)
  PROVE IInv'
<1>0. dying[t] = NoToken /\ "tls" \in Names
  BY DEF IInv, Exit, DyingInv, Names
<1>r. Release(t, "tls", "off")
  BY DEF Exit
<1>f. /\ \A u \in Tids : \A m \in Names :
           ref'[u][m] = IF u = t /\ m = "tls" THEN NoToken ELSE ref[u][m]
      /\ \A u \in Tids :
           dying'[u] = IF u = t /\ LastOwner(t, "tls") THEN ref[t]["tls"] ELSE dying[u]
      /\ \A u \in Tids :
           pc'[u] = IF u # t THEN pc[u] ELSE IF LastOwner(t, "tls") THEN "d_lock" ELSE "off"
  BY <1>0, <1>r, ReleaseFacts DEF IInv
<1>g. /\ \A k \in Tokens : Live(k)' => Live(k)
      /\ \A k \in Tokens : LastOwner(t, "tls") /\ ref[t]["tls"] = k => ~Live(k)'
      /\ \A k \in Tokens : Free(k)' <=> Free(k)
  BY <1>0, <1>r, ReleaseFacts DEF IInv
<1>1. TypeOK'
  <2>1. /\ dying' \in [Tids -> Tokens \cup {NoToken}]
        /\ ref' \in [Tids -> [Names -> Tokens \cup {NoToken}]]
    BY <1>r DEF IInv, TypeOK, Release, Assign, Names, LastOwner
  <2>2. /\ pc' \in [Tids -> Phases]
        /\ call' \in [Tids -> Calls]
        /\ arg' \in [Tids -> Tids]
    <3>1. /\ \E q \in Phases : pc' = [pc EXCEPT ![t] = q]
          /\ \E c \in Calls : call' = [call EXCEPT ![t] = c]
          /\ arg' = [arg EXCEPT ![t] = t]
      BY <1>r DEF Release, Return, Phases, Calls
    <3> QED BY <3>1 DEF IInv, TypeOK
  <2>3. \A u \in Tids : pc'[u] \in {"off", "idle"} =>
          ref'[u]["local"] = NoToken /\ ref'[u]["stored"] = NoToken
            /\ dying'[u] = NoToken
    <3>1. ref[t]["stored"] = NoToken /\ ("tls" # "local" => ref[t]["local"] = NoToken)
      BY DEF IInv, Exit, TypeOK, CallInv, DyingInv
    <3> QED BY <3>1, <1>0, <1>f DEF IInv, TypeOK, Names
  <2> QED BY <2>1, <2>2, <2>3 DEF IInv, TypeOK, Exit, Debts
<1>2. MutexInv'
  BY NoTokenAssumption, NoThreadAssumption DEF IInv, Exit, Release, Return, Assign, LastOwner, TypeOK, MutexInv, Critical, Names
<1>3. DyingInv'
  <2>2. \A u \in Tids : dying'[u] # NoToken =>
          \/ u # t /\ dying'[u] = dying[u]
          \/ u = t /\ LastOwner(t, "tls") /\ dying'[u] = ref[t]["tls"]
    BY <1>f, <1>0
  <2>3. \A u \in Tids : dying'[u] # NoToken => ~Live(dying[u])'
    <3> SUFFICES ASSUME NEW u \in Tids, dying'[u] # NoToken
                 PROVE  ~Live(dying[u])'
      OBVIOUS
    <3>1. dying'[u] \in Tokens
      BY <1>1 DEF TypeOK
    <3>2. \A k \in Tokens : k = dying'[u] => ~Live(k)'
      BY <2>2, <1>g DEF IInv, DyingInv
    <3> QED BY <3>1, <3>2 DEF Live
  <2>4. \A u, v \in Tids : dying'[u] # NoToken /\ dying'[u] = dying'[v] => u = v
    <3>1. LastOwner(t, "tls") => Live(ref[t]["tls"])
      BY <1>0 DEF LastOwner, Live
    <3> QED BY <3>1, <2>2 DEF IInv, DyingInv
  <2>5. \A u \in Tids : dying'[u] # NoToken <=>
          pc'[u] \in {"d_lock", "d_find", "d_end"}
           \/ (pc'[u] = "selflock" /\ ref'[u]["local"] = NoToken)
    BY <1>f, <1>0 DEF IInv, DyingInv, Names, LastOwner
  <2>6. \A u \in Tids : pc'[u] = "d_end" => registry'[tokTid'[dying'[u]]] # dying'[u]
    BY <1>f DEF IInv, DyingInv, Exit
  <2> QED BY <2>3, <2>4, <2>5, <2>6 DEF DyingInv
<1>4. OwnerInv'
  BY NoTokenAssumption, NoThreadAssumption DEF IInv, Exit, Release, Return, Assign, LastOwner, TypeOK, OwnerInv, DyingInv, CallInv, RegistryNeverStale, Free, Live, Names
<1>5. RegistryNeverStale'
  BY <1>g DEF IInv, RegistryNeverStale, TypeOK, Exit
<1>6. RegistryFindsClaimed'
  BY NoTokenAssumption, NoThreadAssumption DEF IInv, Exit, Release, Return, Assign, LastOwner, TypeOK, RegistryFindsClaimed, RegistryNeverStale, DyingInv, OwnerInv, CallInv, MutexInv, Critical, Free, Live, Names
<1>7. CallInv'
  BY NoTokenAssumption, NoThreadAssumption DEF IInv, Exit, Release, Return, Assign, LastOwner, TypeOK, RegistryFindsClaimed, RegistryNeverStale, DyingInv, CallInv, OwnerInv, MutexInv, Critical, Free, Live, Names
<1>8. DebtInv'
  BY NoTokenAssumption, NoThreadAssumption DEF IInv, Exit, Release, Return, Assign, LastOwner, TypeOK, DebtInv, CallInv, OwnerInv, RegistryFindsClaimed, DyingInv, Live, Free, Names
<1> QED BY <1>1, <1>2, <1>3, <1>4, <1>5, <1>6, <1>7, <1>8 DEF IInv

(* Entering cancel(thread_id) keeps IInv. *)
LEMMA Cancel_Inv ==
  ASSUME IInv, NEW t \in Tids, NEW i \in Tids, Cancel(t, i)
  PROVE IInv'
<1>1. TypeOK'
  BY NoTokenAssumption, NoThreadAssumption DEF IInv, Cancel, Enter, TypeOK, CallInv, DyingInv, Names, Phases, Calls, Debts
<1>2. MutexInv'
  BY NoTokenAssumption, NoThreadAssumption DEF IInv, Cancel, Enter, TypeOK, MutexInv, Critical, Names
<1>3. DyingInv'
  BY NoTokenAssumption, NoThreadAssumption DEF IInv, Cancel, Enter, TypeOK, MutexInv, DyingInv, CallInv, OwnerInv, RegistryNeverStale, Critical, Live, Free, Names
<1>4. OwnerInv'
  BY NoTokenAssumption, NoThreadAssumption DEF IInv, Cancel, Enter, TypeOK, OwnerInv, DyingInv, CallInv, RegistryNeverStale, Free, Live, Names
<1>5. RegistryNeverStale'
  BY RegistryStable DEF IInv, Cancel
<1>6. RegistryFindsClaimed'
  BY NoTokenAssumption, NoThreadAssumption DEF IInv, Cancel, Enter, TypeOK, RegistryFindsClaimed, RegistryNeverStale, DyingInv, OwnerInv, CallInv, MutexInv, Critical, Free, Live, Names
<1>7. CallInv'
  BY NoTokenAssumption, NoThreadAssumption DEF IInv, Cancel, Enter, TypeOK, RegistryFindsClaimed, RegistryNeverStale, DyingInv, CallInv, OwnerInv, MutexInv, Critical, Free, Live, Names
<1>8. DebtInv'
  BY NoTokenAssumption, NoThreadAssumption DEF IInv, Cancel, Enter, TypeOK, DebtInv, CallInv, OwnerInv, RegistryFindsClaimed, DyingInv, Live, Free, Names
<1> QED BY <1>1, <1>2, <1>3, <1>4, <1>5, <1>6, <1>7, <1>8 DEF IInv

(* Entering get_token(thread_id) keeps IInv. *)
LEMMA GetToken_Inv ==
  ASSUME IInv, NEW t \in Tids, NEW i \in Tids, GetToken(t, i)
  PROVE IInv'
<1>1. TypeOK'
  BY NoTokenAssumption, NoThreadAssumption DEF IInv, GetToken, Enter, TypeOK, CallInv, DyingInv, Names, Phases, Calls, Debts
<1>2. MutexInv'
  BY NoTokenAssumption, NoThreadAssumption DEF IInv, GetToken, Enter, TypeOK, MutexInv, Critical, Names
<1>3. DyingInv'
  BY NoTokenAssumption, NoThreadAssumption DEF IInv, GetToken, Enter, TypeOK, MutexInv, DyingInv, CallInv, OwnerInv, RegistryNeverStale, Critical, Live, Free, Names
<1>4. OwnerInv'
  BY NoTokenAssumption, NoThreadAssumption DEF IInv, GetToken, Enter, TypeOK, OwnerInv, DyingInv, CallInv, RegistryNeverStale, Free, Live, Names
<1>5. RegistryNeverStale'
  BY RegistryStable DEF IInv, GetToken
<1>6. RegistryFindsClaimed'
  BY NoTokenAssumption, NoThreadAssumption DEF IInv, GetToken, Enter, TypeOK, RegistryFindsClaimed, RegistryNeverStale, DyingInv, OwnerInv, CallInv, MutexInv, Critical, Free, Live, Names
<1>7. CallInv'
  BY NoTokenAssumption, NoThreadAssumption DEF IInv, GetToken, Enter, TypeOK, RegistryFindsClaimed, RegistryNeverStale, DyingInv, CallInv, OwnerInv, MutexInv, Critical, Free, Live, Names
<1>8. DebtInv'
  BY NoTokenAssumption, NoThreadAssumption DEF IInv, GetToken, Enter, TypeOK, DebtInv, CallInv, OwnerInv, RegistryFindsClaimed, DyingInv, Live, Free, Names
<1> QED BY <1>1, <1>2, <1>3, <1>4, <1>5, <1>6, <1>7, <1>8 DEF IInv

(* Taking the mutex in get_token_impl keeps IInv. *)
LEMMA GetLock_Inv ==
  ASSUME IInv, NEW t \in Tids, GetLock(t)
  PROVE IInv'
<1>1. TypeOK'
  BY NoTokenAssumption, NoThreadAssumption DEF IInv, GetLock, Goto, TypeOK, CallInv, DyingInv, Names, Phases, Calls, Debts
<1>2. MutexInv'
  BY NoTokenAssumption, NoThreadAssumption DEF IInv, GetLock, Goto, TypeOK, MutexInv, Critical, Names
<1>3. DyingInv'
  BY NoTokenAssumption, NoThreadAssumption DEF IInv, GetLock, Goto, TypeOK, MutexInv, DyingInv, CallInv, OwnerInv, RegistryNeverStale, Critical, Live, Free, Names
<1>4. OwnerInv'
  BY NoTokenAssumption, NoThreadAssumption DEF IInv, GetLock, Goto, TypeOK, OwnerInv, DyingInv, CallInv, RegistryNeverStale, Free, Live, Names
<1>5. RegistryNeverStale'
  BY RegistryStable DEF IInv, GetLock
<1>6. RegistryFindsClaimed'
  BY NoTokenAssumption, NoThreadAssumption DEF IInv, GetLock, Goto, TypeOK, RegistryFindsClaimed, RegistryNeverStale, DyingInv, OwnerInv, CallInv, MutexInv, Critical, Free, Live, Names
<1>7. CallInv'
  BY NoTokenAssumption, NoThreadAssumption DEF IInv, GetLock, Goto, TypeOK, RegistryFindsClaimed, RegistryNeverStale, DyingInv, CallInv, OwnerInv, MutexInv, Critical, Free, Live, Names
<1>8. DebtInv'
  BY NoTokenAssumption, NoThreadAssumption DEF IInv, GetLock, Goto, TypeOK, DebtInv, CallInv, OwnerInv, RegistryFindsClaimed, DyingInv, Live, Free, Names
<1> QED BY <1>1, <1>2, <1>3, <1>4, <1>5, <1>6, <1>7, <1>8 DEF IInv

(* The lookup in get_token_impl keeps IInv. *)
LEMMA GetFind_Inv ==
  ASSUME IInv, NEW t \in Tids, GetFind(t)
  PROVE IInv'
<1>1. TypeOK'
  BY NoTokenAssumption, NoThreadAssumption DEF IInv, GetFind, Assign, Goto, Lock, NeedsNew, Claim, TypeOK, CallInv, DyingInv, Names, Phases, Calls, Debts
<1>2. MutexInv'
  BY NoTokenAssumption, NoThreadAssumption DEF IInv, GetFind, Assign, Goto, Lock, NeedsNew, Claim, TypeOK, MutexInv, Critical, Names
<1>3. DyingInv'
  BY NoTokenAssumption, NoThreadAssumption DEF IInv, GetFind, Assign, Goto, Lock, NeedsNew, Claim, TypeOK, MutexInv, DyingInv, CallInv, OwnerInv, RegistryNeverStale, Critical, Live, Free, Names
<1>4. OwnerInv'
  BY NoTokenAssumption, NoThreadAssumption DEF IInv, GetFind, Assign, Goto, Lock, NeedsNew, Claim, TypeOK, OwnerInv, DyingInv, CallInv, RegistryNeverStale, Free, Live, Names
<1>5. RegistryNeverStale'
  <2>1. \A k \in Tokens : Free(k)' <=> Free(k)
    <3>1. ref[t]["local"] = NoToken
      BY DEF IInv, CallInv, GetFind
    <3>2. \A u \in Tids, m \in Names :
            ref'[u][m] = IF u = t /\ m = "local" THEN Lock(registry[arg[t]]) ELSE ref[u][m]
      BY DEF IInv, TypeOK, GetFind, Assign, Names
    <3>3. \A k \in Tokens : Live(k)' <=> Live(k)
      BY <3>1, <3>2, NoTokenAssumption DEF Live, Lock, Names
    <3> QED BY <3>3 DEF Free, GetFind
  <2> QED BY <2>1 DEF IInv, RegistryNeverStale, GetFind, TypeOK
<1>6. RegistryFindsClaimed'
  BY NoTokenAssumption, NoThreadAssumption DEF IInv, GetFind, Assign, Goto, Lock, NeedsNew, Claim, TypeOK, RegistryFindsClaimed, RegistryNeverStale, DyingInv, OwnerInv, CallInv, MutexInv, Critical, Free, Live, Names
<1>7. CallInv'
  BY NoTokenAssumption, NoThreadAssumption DEF IInv, GetFind, Assign, Goto, Lock, NeedsNew, Claim, TypeOK, RegistryFindsClaimed, RegistryNeverStale, DyingInv, CallInv, OwnerInv, MutexInv, Critical, Free, Live, Names
<1>8. DebtInv'
  BY NoTokenAssumption, NoThreadAssumption DEF IInv, GetFind, Assign, Goto, Lock, NeedsNew, Claim, TypeOK, DebtInv, CallInv, OwnerInv, RegistryFindsClaimed, DyingInv, Live, Free, Names
<1> QED BY <1>1, <1>2, <1>3, <1>4, <1>5, <1>6, <1>7, <1>8 DEF IInv

(* The creation of a token keeps IInv. *)
LEMMA GetMake_Inv ==
  ASSUME IInv, NEW t \in Tids, GetMake(t)
  PROVE IInv'
<1>0. /\ pc[t] = "g_make" /\ mutex = t /\ dying[t] = NoToken /\ ref[t]["stored"] = NoToken
      /\ arg[t] \in Tids
  BY DEF IInv, GetMake, MutexInv, Critical, DyingInv, CallInv, TypeOK
<1>s. CASE LastOwner(t, "local")
  <2>1. /\ pc' = [pc EXCEPT ![t] = "selflock"]
        /\ ref[t]["local"] # NoToken
        /\ UNCHANGED <<call, arg, ref, dying, registry, mutex, claimed, continue,
                       tokTid, aim, owed>>
    BY <1>s DEF GetMake, Goto, LastOwner
  <2>2. TypeOK'
    BY <2>1 DEF IInv, TypeOK, Phases
  <2>3. \A u \in Tids : pc'[u] = IF u = t THEN "selflock" ELSE pc[u]
    BY <2>1 DEF IInv, TypeOK
  <2>4. MutexInv' /\ CallInv'
    BY <2>1, <2>3, <1>0 DEF IInv, MutexInv, CallInv, Critical
  <2>5. DyingInv'
    BY <2>1, <2>3, <1>0 DEF IInv, DyingInv, Live
  <2>6. OwnerInv' /\ RegistryNeverStale'
    BY <2>1 DEF IInv, OwnerInv, RegistryNeverStale, Free, Live
  <2>7. RegistryFindsClaimed'
    BY <2>1 DEF IInv, RegistryFindsClaimed
  <2>8. DebtInv'
    BY <2>1, <2>3, <1>0 DEF IInv, DebtInv
  <2> QED BY <2>2, <2>4, <2>5, <2>6, <2>7, <2>8 DEF IInv
<1>n. CASE ~LastOwner(t, "local")
  <2> PICK k \in Tokens :
        /\ Free(k)
        /\ ref' = [ref EXCEPT ![t]["local"] = k]
        /\ registry' = [registry EXCEPT ![arg[t]] = k]
        /\ claimed' = [claimed EXCEPT ![k] = FALSE]
        /\ continue' = [continue EXCEPT ![k] = TRUE]
        /\ tokTid' = [tokTid EXCEPT ![k] = arg[t]]
        /\ pc' = [pc EXCEPT ![t] = "g_claim"]
    BY <1>n DEF GetMake, Assign, Publish, Goto
  <2>0. UNCHANGED <<call, arg, dying, mutex, aim, owed>>
    BY <1>n DEF GetMake, Goto
  <2>1. TypeOK'
    BY <1>0, <2>0 DEF IInv, TypeOK, Phases, Names
  <2>r. \A u \in Tids, m \in Names :
          ref'[u][m] = IF u = t /\ m = "local" THEN k ELSE ref[u][m]
    BY DEF IInv, TypeOK, Names
  <2>p. /\ \A u \in Tids : pc'[u] = IF u = t THEN "g_claim" ELSE pc[u]
        /\ \A i \in Tids : registry'[i] = IF i = arg[t] THEN k ELSE registry[i]
        /\ \A j \in Tokens : tokTid'[j] = IF j = k THEN arg[t] ELSE tokTid[j]
        /\ \A j \in Tokens : claimed'[j] = IF j = k THEN FALSE ELSE claimed[j]
        /\ \A j \in Tokens : continue'[j] = IF j = k THEN TRUE ELSE continue[j]
    BY <1>0 DEF IInv, TypeOK
  <2>l. \A j \in Tokens : Live(j)' <=> Live(j) \/ j = k
    <3>1. k # NoToken
      BY NoTokenAssumption
    <3>2. \A j \in Tokens : Live(j)' => Live(j) \/ j = k
      BY <2>r DEF Live
    <3>3. Live(k)'
      BY <2>r DEF Live, Names
    <3>4. \A j \in Tokens : Live(j) => Live(j)'
      <4> SUFFICES ASSUME NEW j \in Tokens, Live(j) PROVE Live(j)'
        OBVIOUS
      <4>1. PICK u \in Tids, m \in Names : ref[u][m] = j /\ ~(u = t /\ m = "local")
        BY <1>n, NoTokenAssumption DEF Live, LastOwner
      <4>2. ref'[u][m] = j
        BY <4>1, <2>r
      <4> QED BY <4>2 DEF Live
    <3> QED BY <3>2, <3>3, <3>4
  <2>f. \A u \in Tids, m \in Names : ref[u][m] # k /\ dying[u] # k
    BY DEF Free, Live
  <2>2. MutexInv'
    BY <2>0, <2>p, <1>0 DEF IInv, MutexInv, Critical
  <2>3. DyingInv'
    <3>1. \A u \in Tids : dying'[u] # NoToken => ~Live(dying[u])'
      <4> SUFFICES ASSUME NEW u \in Tids, dying[u] # NoToken PROVE ~Live(dying[u])'
        BY <2>0
      <4>1. dying[u] \in Tokens /\ ~Live(dying[u]) /\ dying[u] # k
        BY <2>f DEF IInv, TypeOK, DyingInv, Names
      <4>2. \A j \in Tokens : j = dying[u] => ~Live(j)'
        BY <4>1, <2>l
      <4> QED BY <4>1, <4>2, <2>0 DEF Live
    <3>2. \A u \in Tids : pc'[u] # "d_end"
      BY <2>p, <1>0 DEF IInv, MutexInv, Critical
    <3>3. \A u \in Tids : u # t => ref'[u]["local"] = ref[u]["local"]
      BY <2>r DEF Names
    <3> QED BY <3>1, <3>2, <3>3, <2>0, <2>p, <1>0 DEF IInv, DyingInv
  <2>4. OwnerInv'
    <3>1. \A j \in Tokens : ~Free(j)' => ~Free(j) \/ j = k
      BY <2>l, <2>0 DEF Free
    <3> QED BY <3>1, <2>r, <2>p, <2>f, <1>0 DEF IInv, OwnerInv, TypeOK, Names
  <2>5. RegistryNeverStale'
    <3>1. \A j \in Tokens : ~Free(j) \/ j = k => ~Free(j)'
      BY <2>l, <2>0 DEF Free
    <3> QED BY <3>1, <2>p, <2>f, <1>0 DEF IInv, RegistryNeverStale, TypeOK
  <2>o. ref[arg[t]]["tls"] = NoToken
    BY <1>0 DEF IInv, CallInv
  <2>u. \A u \in Tids : ref'[u]["tls"] = ref[u]["tls"] /\ ref'[u]["held"] = ref[u]["held"]
                        /\ ref'[u]["stored"] = ref[u]["stored"]
                        /\ (u # t => ref'[u]["local"] = ref[u]["local"])
                        /\ ref[u]["tls"] \in Tokens \cup {NoToken}
    BY <2>r DEF IInv, TypeOK, Names
  <2>6. RegistryFindsClaimed'
    BY <2>u, <2>p, <2>f, <2>o DEF IInv, RegistryFindsClaimed, Names
  <2>7. CallInv'
    <3>1. \A u \in Tids : u # t => pc[u] \notin {"g_find", "g_make", "g_claim"}
      BY <1>0 DEF IInv, MutexInv, Critical
    <3>2. ref'[t]["local"] = k /\ k # NoToken /\ ~claimed'[k] /\ registry'[arg[t]] = k
      BY <2>r, <2>p, <1>0, NoTokenAssumption DEF Names
    <3> QED BY <3>1, <3>2, <2>0, <2>u, <2>p, <1>0 DEF IInv, CallInv
  <2>8. DebtInv'
    BY <2>u, <2>p, <2>0, <2>f, <1>0 DEF IInv, DebtInv, TypeOK, Names
  <2> QED BY <2>1, <2>2, <2>3, <2>4, <2>5, <2>6, <2>7, <2>8 DEF IInv
<1> QED BY <1>s, <1>n

(* The end of get_token_impl keeps IInv. *)
LEMMA GetClaim_Inv ==
  ASSUME IInv, NEW t \in Tids, GetClaim(t)
  PROVE IInv'
<1>0. /\ pc[t] = "g_claim" /\ ref[t]["local"] \in Tokens /\ dying[t] = NoToken
      /\ ref[t]["stored"] = NoToken
      /\ call[t] = "sync" => ref[t]["tls"] = NoToken
      /\ call[t] = "keep" => ref[t]["held"] = NoToken
  <2>1. pc[t] = "g_claim"
    BY DEF GetClaim
  <2>2. ref[t]["local"] # NoToken
    BY <2>1 DEF IInv, CallInv
  <2> QED BY <2>1, <2>2 DEF IInv, TypeOK, CallInv, DyingInv, Names
<1>c. \/ /\ call[t] = "sync"
         /\ pc' = [pc EXCEPT ![t] = "sync"] /\ UNCHANGED <<call, arg, aim>>
         /\ ref' = [ref EXCEPT ![t]["tls"] = ref[t]["local"], ![t]["local"] = NoToken]
         /\ claimed' = [claimed EXCEPT ![ref[t]["local"]] = TRUE]
      \/ /\ call[t] = "keep"
         /\ pc' = [pc EXCEPT ![t] = "idle"] /\ call' = [call EXCEPT ![t] = "none"]
         /\ arg' = [arg EXCEPT ![t] = t]
         /\ ref' = [ref EXCEPT ![t]["held"] = ref[t]["local"], ![t]["local"] = NoToken]
         /\ UNCHANGED <<claimed, aim>>
      \/ /\ call[t] \notin {"sync", "keep"}
         /\ pc' = [pc EXCEPT ![t] = "cancel"] /\ UNCHANGED <<call, arg, ref, claimed>>
         /\ aim' = [aim EXCEPT ![t] = IF ref[arg[t]]["tls"] # NoToken THEN "owed" ELSE "none"]
  BY DEF GetClaim, MoveOut, Goto, Return
<1>l. \A k \in Tokens : Live(k)' <=> Live(k)
  <2>1. CASE call[t] = "sync"
    <3>1. \A u \in Tids, m \in Names :
            ref'[u][m] = IF u = t /\ m = "tls" THEN ref[t]["local"]
                         ELSE IF u = t /\ m = "local" THEN NoToken ELSE ref[u][m]
      BY <1>c, <2>1 DEF IInv, TypeOK, Names
    <3> QED BY <3>1, <1>0, <2>1, NoTokenAssumption DEF Live, Names
  <2>2. CASE call[t] = "keep"
    <3>1. \A u \in Tids, m \in Names :
            ref'[u][m] = IF u = t /\ m = "held" THEN ref[t]["local"]
                         ELSE IF u = t /\ m = "local" THEN NoToken ELSE ref[u][m]
      BY <1>c, <2>2 DEF IInv, TypeOK, Names
    <3> QED BY <3>1, <1>0, <2>2, NoTokenAssumption DEF Live, Names
  <2>3. CASE call[t] \notin {"sync", "keep"}
    BY <1>c, <2>3 DEF Live
  <2> QED BY <2>1, <2>2, <2>3
<1>1. TypeOK'
  <2>1. /\ pc' \in [Tids -> Phases] /\ call' \in [Tids -> Calls] /\ arg' \in [Tids -> Tids]
        /\ aim' \in [Tids -> Debts] /\ claimed' \in [Tokens -> BOOLEAN]
    <3>1. /\ \E q \in Phases : pc' = [pc EXCEPT ![t] = q]
          /\ \E c \in Calls : call' = [call EXCEPT ![t] = c]
          /\ \E i \in Tids : arg' = [arg EXCEPT ![t] = i]
          /\ aim' = aim \/ \E a \in Debts : aim' = [aim EXCEPT ![t] = a]
          /\ claimed' = claimed \/ claimed' = [claimed EXCEPT ![ref[t]["local"]] = TRUE]
      <4>1. call[t] \in Calls /\ arg[t] \in Tids
              /\ call = [call EXCEPT ![t] = call[t]] /\ arg = [arg EXCEPT ![t] = arg[t]]
        BY DEF IInv, TypeOK
      <4> QED BY <4>1, <1>c DEF Phases, Debts, Calls
    <3>2. claimed' \in [Tokens -> BOOLEAN]
      BY <3>1 DEF IInv, TypeOK
    <3>3. pc' \in [Tids -> Phases] /\ call' \in [Tids -> Calls]
      BY <3>1 DEF IInv, TypeOK
    <3>4. arg' \in [Tids -> Tids]
      BY <3>1 DEF IInv, TypeOK
    <3>5. aim' \in [Tids -> Debts]
      BY <3>1 DEF IInv, TypeOK
    <3> QED BY <3>2, <3>3, <3>4, <3>5
  <2>2. ref' \in [Tids -> [Names -> Tokens \cup {NoToken}]]
    BY <1>c, <1>0 DEF IInv, TypeOK, Names
  <2>3. \A u \in Tids : pc'[u] \in {"off", "idle"} =>
          ref'[u]["local"] = NoToken /\ ref'[u]["stored"] = NoToken /\ dying[u] = NoToken
    BY <1>c, <1>0 DEF IInv, TypeOK, Names
  <2> QED BY <2>1, <2>2, <2>3 DEF IInv, TypeOK, GetClaim
<1>2. MutexInv'
  BY NoTokenAssumption, NoThreadAssumption DEF IInv, GetClaim, MoveOut, Goto, Return, TypeOK, MutexInv, Critical, Names
<1>3. DyingInv'
  <2>1. \A u \in Tids : pc'[u] = pc[u] \/ (u = t /\ pc'[u] \in {"sync", "idle", "cancel"})
    BY <1>c DEF IInv, TypeOK
  <2>2. UNCHANGED <<dying, registry, tokTid>>
    BY DEF GetClaim
  <2>3. \A u \in Tids : u # t => ref'[u] = ref[u]
    BY <1>c DEF IInv, TypeOK
  <2>4. \A u \in Tids : dying'[u] # NoToken => ~Live(dying[u])'
    <3> SUFFICES ASSUME NEW u \in Tids, dying'[u] # NoToken PROVE ~Live(dying[u])'
      OBVIOUS
    <3>1. dying[u] \in Tokens /\ dying'[u] = dying[u] /\ ~Live(dying[u])
      BY <2>2 DEF IInv, TypeOK, DyingInv
    <3>2. \A k \in Tokens : k = dying[u] => ~Live(k)'
      BY <3>1, <1>l
    <3> QED BY <3>1, <3>2 DEF Live
  <2>5. \A u \in Tids : dying'[u] # NoToken <=>
          \/ pc'[u] \in {"d_lock", "d_find", "d_end"}
          \/ pc'[u] = "selflock" /\ ref'[u]["local"] = NoToken
    BY <1>0, <2>1, <2>2, <2>3 DEF IInv, DyingInv
  <2>6. \A u \in Tids : pc'[u] = "d_end" => registry'[tokTid'[dying'[u]]] # dying'[u]
    BY <2>1, <2>2 DEF IInv, DyingInv
  <2> QED BY <2>2, <2>4, <2>5, <2>6 DEF IInv, DyingInv
<1>4. OwnerInv'
  BY NoTokenAssumption, NoThreadAssumption DEF IInv, GetClaim, MoveOut, Goto, Return, TypeOK, OwnerInv, DyingInv, CallInv, RegistryNeverStale, Free, Live, Names
<1>5. RegistryNeverStale'
  <2>1. \A k \in Tokens : Free(k)' <=> Free(k)
    BY <1>l DEF Free, GetClaim
  <2> QED BY <2>1 DEF IInv, RegistryNeverStale, GetClaim, TypeOK
<1>6. RegistryFindsClaimed'
  BY NoTokenAssumption, NoThreadAssumption DEF IInv, GetClaim, MoveOut, Goto, Return, TypeOK, RegistryFindsClaimed, RegistryNeverStale, DyingInv, OwnerInv, CallInv, MutexInv, Critical, Free, Live, Names
<1>7. CallInv'
  BY NoTokenAssumption, NoThreadAssumption DEF IInv, GetClaim, MoveOut, Goto, Return, TypeOK, RegistryFindsClaimed, RegistryNeverStale, DyingInv, CallInv, OwnerInv, MutexInv, Critical, Free, Live, Names
<1>8. DebtInv'
  <2>1. CASE call[t] = "sync"
    <3>1. \A u \in Tids : u # t => ref'[u]["tls"] = ref[u]["tls"] /\ ref'[u]["local"] = ref[u]["local"]
      BY <1>c, <2>1 DEF IInv, TypeOK, Names
    <3>2. owed[t] # "owed" /\ aim[t] = "none" /\ \A u \in Tids : aim[u] = "owed" => arg[u] # t
      BY <1>0, <2>1 DEF IInv, DebtInv
    <3> QED BY <3>1, <3>2, <1>c, <1>0, <2>1 DEF IInv, DebtInv, TypeOK, GetClaim
  <2>2. CASE call[t] = "keep"
    <3>1. \A u \in Tids : ref'[u]["tls"] = ref[u]["tls"] /\ (u # t => ref'[u] = ref[u])
      BY <1>c, <2>2 DEF IInv, TypeOK, Names
    <3>2. aim[t] = "none"
      BY <1>0 DEF IInv, DebtInv
    <3> QED BY <3>1, <3>2, <1>c, <1>0, <2>2 DEF IInv, DebtInv, TypeOK, GetClaim
  <2>3. CASE call[t] \notin {"sync", "keep"}
    <3>1. ref[arg[t]]["tls"] # NoToken => ref[t]["local"] = ref[arg[t]]["tls"]
      BY <1>0 DEF IInv, CallInv, RegistryFindsClaimed, TypeOK
    <3> QED BY <3>1, <1>c, <1>0, <2>3 DEF IInv, DebtInv, TypeOK, GetClaim
  <2> QED BY <2>1, <2>2, <2>3
<1> QED BY <1>1, <1>2, <1>3, <1>4, <1>5, <1>6, <1>7, <1>8 DEF IInv

(* The cancel of a token found by id keeps IInv. *)
LEMMA CancelFound_Inv ==
  ASSUME IInv, NEW t \in Tids, CancelFound(t)
  PROVE IInv'
<1>1. TypeOK'
  BY NoTokenAssumption, NoThreadAssumption DEF IInv, CancelFound, Goto, TypeOK, CallInv, DyingInv, Names, Phases, Calls, Debts
<1>2. MutexInv'
  BY NoTokenAssumption, NoThreadAssumption DEF IInv, CancelFound, Goto, TypeOK, MutexInv, Critical, Names
<1>3. DyingInv'
  BY NoTokenAssumption, NoThreadAssumption DEF IInv, CancelFound, Goto, TypeOK, MutexInv, DyingInv, CallInv, OwnerInv, RegistryNeverStale, Critical, Live, Free, Names
<1>4. OwnerInv'
  BY NoTokenAssumption, NoThreadAssumption DEF IInv, CancelFound, Goto, TypeOK, OwnerInv, DyingInv, CallInv, RegistryNeverStale, Free, Live, Names
<1>5. RegistryNeverStale'
  BY RegistryStable DEF IInv, CancelFound
<1>6. RegistryFindsClaimed'
  BY NoTokenAssumption, NoThreadAssumption DEF IInv, CancelFound, Goto, TypeOK, RegistryFindsClaimed, RegistryNeverStale, DyingInv, OwnerInv, CallInv, MutexInv, Critical, Free, Live, Names
<1>7. CallInv'
  BY NoTokenAssumption, NoThreadAssumption DEF IInv, CancelFound, Goto, TypeOK, RegistryFindsClaimed, RegistryNeverStale, DyingInv, CallInv, OwnerInv, MutexInv, Critical, Free, Live, Names
<1>8. DebtInv'
  BY NoTokenAssumption, NoThreadAssumption DEF IInv, CancelFound, Goto, TypeOK, DebtInv, CallInv, OwnerInv, RegistryFindsClaimed, DyingInv, Live, Free, Names
<1> QED BY <1>1, <1>2, <1>3, <1>4, <1>5, <1>6, <1>7, <1>8 DEF IInv

(* The end of cancel(thread_id) keeps IInv. *)
LEMMA CancelDrop_Inv ==
  ASSUME IInv, NEW t \in Tids, CancelDrop(t)
  PROVE IInv'
<1>0. dying[t] = NoToken /\ "local" \in Names
  BY DEF IInv, CancelDrop, DyingInv, Names
<1>r. Release(t, "local", "idle")
  BY DEF CancelDrop
<1>f. /\ \A u \in Tids : \A m \in Names :
           ref'[u][m] = IF u = t /\ m = "local" THEN NoToken ELSE ref[u][m]
      /\ \A u \in Tids :
           dying'[u] = IF u = t /\ LastOwner(t, "local") THEN ref[t]["local"] ELSE dying[u]
      /\ \A u \in Tids :
           pc'[u] = IF u # t THEN pc[u] ELSE IF LastOwner(t, "local") THEN "d_lock" ELSE "idle"
  BY <1>0, <1>r, ReleaseFacts DEF IInv
<1>g. /\ \A k \in Tokens : Live(k)' => Live(k)
      /\ \A k \in Tokens : LastOwner(t, "local") /\ ref[t]["local"] = k => ~Live(k)'
      /\ \A k \in Tokens : Free(k)' <=> Free(k)
  BY <1>0, <1>r, ReleaseFacts DEF IInv
<1>1. TypeOK'
  <2>1. /\ dying' \in [Tids -> Tokens \cup {NoToken}]
        /\ ref' \in [Tids -> [Names -> Tokens \cup {NoToken}]]
    BY <1>r DEF IInv, TypeOK, Release, Assign, Names, LastOwner
  <2>2. /\ pc' \in [Tids -> Phases]
        /\ call' \in [Tids -> Calls]
        /\ arg' \in [Tids -> Tids]
    <3>1. /\ \E q \in Phases : pc' = [pc EXCEPT ![t] = q]
          /\ \E c \in Calls : call' = [call EXCEPT ![t] = c]
          /\ arg' = [arg EXCEPT ![t] = t]
      BY <1>r DEF Release, Return, Phases, Calls
    <3> QED BY <3>1 DEF IInv, TypeOK
  <2>3. \A u \in Tids : pc'[u] \in {"off", "idle"} =>
          ref'[u]["local"] = NoToken /\ ref'[u]["stored"] = NoToken
            /\ dying'[u] = NoToken
    <3>1. ref[t]["stored"] = NoToken /\ ("local" # "local" => ref[t]["local"] = NoToken)
      BY DEF IInv, CancelDrop, TypeOK, CallInv, DyingInv
    <3> QED BY <3>1, <1>0, <1>f DEF IInv, TypeOK, Names
  <2> QED BY <2>1, <2>2, <2>3 DEF IInv, TypeOK, CancelDrop, Debts
<1>2. MutexInv'
  BY NoTokenAssumption, NoThreadAssumption DEF IInv, CancelDrop, Release, Return, Assign, LastOwner, TypeOK, MutexInv, Critical, Names
<1>3. DyingInv'
  <2>2. \A u \in Tids : dying'[u] # NoToken =>
          \/ u # t /\ dying'[u] = dying[u]
          \/ u = t /\ LastOwner(t, "local") /\ dying'[u] = ref[t]["local"]
    BY <1>f, <1>0
  <2>3. \A u \in Tids : dying'[u] # NoToken => ~Live(dying[u])'
    <3> SUFFICES ASSUME NEW u \in Tids, dying'[u] # NoToken
                 PROVE  ~Live(dying[u])'
      OBVIOUS
    <3>1. dying'[u] \in Tokens
      BY <1>1 DEF TypeOK
    <3>2. \A k \in Tokens : k = dying'[u] => ~Live(k)'
      BY <2>2, <1>g DEF IInv, DyingInv
    <3> QED BY <3>1, <3>2 DEF Live
  <2>4. \A u, v \in Tids : dying'[u] # NoToken /\ dying'[u] = dying'[v] => u = v
    <3>1. LastOwner(t, "local") => Live(ref[t]["local"])
      BY <1>0 DEF LastOwner, Live
    <3> QED BY <3>1, <2>2 DEF IInv, DyingInv
  <2>5. \A u \in Tids : dying'[u] # NoToken <=>
          pc'[u] \in {"d_lock", "d_find", "d_end"}
           \/ (pc'[u] = "selflock" /\ ref'[u]["local"] = NoToken)
    BY <1>f, <1>0 DEF IInv, DyingInv, Names, LastOwner
  <2>6. \A u \in Tids : pc'[u] = "d_end" => registry'[tokTid'[dying'[u]]] # dying'[u]
    BY <1>f DEF IInv, DyingInv, CancelDrop
  <2> QED BY <2>3, <2>4, <2>5, <2>6 DEF DyingInv
<1>4. OwnerInv'
  BY NoTokenAssumption, NoThreadAssumption DEF IInv, CancelDrop, Release, Return, Assign, LastOwner, TypeOK, OwnerInv, DyingInv, CallInv, RegistryNeverStale, Free, Live, Names
<1>5. RegistryNeverStale'
  BY <1>g DEF IInv, RegistryNeverStale, TypeOK, CancelDrop
<1>6. RegistryFindsClaimed'
  BY NoTokenAssumption, NoThreadAssumption DEF IInv, CancelDrop, Release, Return, Assign, LastOwner, TypeOK, RegistryFindsClaimed, RegistryNeverStale, DyingInv, OwnerInv, CallInv, MutexInv, Critical, Free, Live, Names
<1>7. CallInv'
  BY NoTokenAssumption, NoThreadAssumption DEF IInv, CancelDrop, Release, Return, Assign, LastOwner, TypeOK, RegistryFindsClaimed, RegistryNeverStale, DyingInv, CallInv, OwnerInv, MutexInv, Critical, Free, Live, Names
<1>8. DebtInv'
  BY NoTokenAssumption, NoThreadAssumption DEF IInv, CancelDrop, Release, Return, Assign, LastOwner, TypeOK, DebtInv, CallInv, OwnerInv, RegistryFindsClaimed, DyingInv, Live, Free, Names
<1> QED BY <1>1, <1>2, <1>3, <1>4, <1>5, <1>6, <1>7, <1>8 DEF IInv

(* A cancellation point keeps IInv. *)
LEMMA SyncYield_Inv ==
  ASSUME IInv, NEW t \in Tids, SyncYield(t)
  PROVE IInv'
<1>0. /\ dying[t] = NoToken /\ ref[t]["local"] = NoToken /\ ref[t]["stored"] = NoToken
      /\ ref[t]["tls"] \in Tokens
  <2>1. pc[t] = "sync"
    BY DEF SyncYield
  <2>2. dying[t] = NoToken /\ ref[t]["local"] = NoToken /\ ref[t]["stored"] = NoToken
          /\ ref[t]["tls"] # NoToken
    BY <2>1 DEF IInv, DyingInv, CallInv
  <2> QED BY <2>2 DEF IInv, TypeOK, Names
<1>p. /\ \E q \in {"query", "idle"} : pc' = [pc EXCEPT ![t] = q]
      /\ \E c \in Calls : call' = [call EXCEPT ![t] = c]
      /\ \E i \in Tids : arg' = [arg EXCEPT ![t] = i]
  <2>1. call[t] \in Calls /\ arg[t] \in Tids
          /\ call = [call EXCEPT ![t] = call[t]] /\ arg = [arg EXCEPT ![t] = arg[t]]
    BY DEF IInv, TypeOK
  <2> QED BY <2>1 DEF SyncYield, Passes, Goto, Return, Calls
<1>1. TypeOK'
  <2>1. owed' \in [Tids -> Debts] /\ continue' \in [Tokens -> BOOLEAN]
    BY DEF IInv, TypeOK, SyncYield, Passes, TestAndSet, Debts
  <2>2. \A u \in Tids : pc'[u] \in {"off", "idle"} =>
          ref[u]["local"] = NoToken /\ ref[u]["stored"] = NoToken /\ dying[u] = NoToken
    BY <1>0, <1>p DEF IInv, TypeOK
  <2> QED BY <2>1, <2>2, <1>p DEF IInv, TypeOK, SyncYield, Phases
<1>2. MutexInv'
  BY NoTokenAssumption, NoThreadAssumption DEF IInv, SyncYield, Passes, TestAndSet, Goto, Return, TypeOK, MutexInv, Critical, Names
<1>3. DyingInv'
  <2>1. \A u \in Tids : pc'[u] = pc[u] \/ (u = t /\ pc'[u] \in {"query", "idle"})
    BY <1>p DEF IInv, TypeOK
  <2>2. pc[t] = "sync" /\ UNCHANGED <<ref, dying, registry, tokTid>>
    BY DEF SyncYield
  <2> QED BY <1>0, <2>1, <2>2 DEF IInv, DyingInv, Live
<1>4. OwnerInv'
  BY NoTokenAssumption, NoThreadAssumption DEF IInv, SyncYield, Passes, TestAndSet, Goto, Return, TypeOK, OwnerInv, DyingInv, CallInv, RegistryNeverStale, Free, Live, Names
<1>5. RegistryNeverStale'
  BY RegistryStable DEF IInv, SyncYield
<1>6. RegistryFindsClaimed'
  BY NoTokenAssumption, NoThreadAssumption DEF IInv, SyncYield, Passes, TestAndSet, Goto, Return, TypeOK, RegistryFindsClaimed, RegistryNeverStale, DyingInv, OwnerInv, CallInv, MutexInv, Critical, Free, Live, Names
<1>7. CallInv'
  BY NoTokenAssumption, NoThreadAssumption DEF IInv, SyncYield, Passes, TestAndSet, Goto, Return, TypeOK, RegistryFindsClaimed, RegistryNeverStale, DyingInv, CallInv, OwnerInv, MutexInv, Critical, Free, Live, Names
<1>8. DebtInv'
  BY NoTokenAssumption, NoThreadAssumption DEF IInv, SyncYield, Passes, TestAndSet, Goto, Return, TypeOK, DebtInv, CallInv, OwnerInv, RegistryFindsClaimed, DyingInv, Live, Free, Names
<1> QED BY <1>1, <1>2, <1>3, <1>4, <1>5, <1>6, <1>7, <1>8 DEF IInv

(* The device query keeps IInv. *)
LEMMA SyncQuery_Inv ==
  ASSUME IInv, NEW t \in Tids, SyncQuery(t)
  PROVE IInv'
<1>0. dying[t] = NoToken /\ ref[t]["local"] = NoToken /\ ref[t]["stored"] = NoToken
  BY DEF IInv, SyncQuery, DyingInv, CallInv
<1>p. /\ \E q \in {"sync", "idle"} : pc' = [pc EXCEPT ![t] = q]
      /\ \E c \in Calls : call' = [call EXCEPT ![t] = c]
      /\ \E i \in Tids : arg' = [arg EXCEPT ![t] = i]
  <2>1. call[t] \in Calls /\ arg[t] \in Tids
          /\ call = [call EXCEPT ![t] = call[t]] /\ arg = [arg EXCEPT ![t] = arg[t]]
    BY DEF IInv, TypeOK
  <2> QED BY <2>1 DEF SyncQuery, Goto, Return, Calls
<1>1. TypeOK'
  BY <1>0, <1>p DEF IInv, TypeOK, SyncQuery, Phases
<1>2. MutexInv'
  BY NoTokenAssumption, NoThreadAssumption DEF IInv, SyncQuery, Goto, Return, TypeOK, MutexInv, Critical, Names
<1>3. DyingInv'
  <2>1. \A u \in Tids : pc'[u] = pc[u] \/ (u = t /\ pc'[u] \in {"sync", "idle"})
    BY <1>p DEF IInv, TypeOK
  <2>2. pc[t] = "query" /\ UNCHANGED <<ref, dying, registry, tokTid>>
    BY DEF SyncQuery
  <2> QED BY <1>0, <2>1, <2>2 DEF IInv, DyingInv, Live
<1>4. OwnerInv'
  BY NoTokenAssumption, NoThreadAssumption DEF IInv, SyncQuery, Goto, Return, TypeOK, OwnerInv, DyingInv, CallInv, RegistryNeverStale, Free, Live, Names
<1>5. RegistryNeverStale'
  BY RegistryStable DEF IInv, SyncQuery
<1>6. RegistryFindsClaimed'
  BY NoTokenAssumption, NoThreadAssumption DEF IInv, SyncQuery, Goto, Return, TypeOK, RegistryFindsClaimed, RegistryNeverStale, DyingInv, OwnerInv, CallInv, MutexInv, Critical, Free, Live, Names
<1>7. CallInv'
  BY NoTokenAssumption, NoThreadAssumption DEF IInv, SyncQuery, Goto, Return, TypeOK, RegistryFindsClaimed, RegistryNeverStale, DyingInv, CallInv, OwnerInv, MutexInv, Critical, Free, Live, Names
<1>8. DebtInv'
  BY NoTokenAssumption, NoThreadAssumption DEF IInv, SyncQuery, Goto, Return, TypeOK, DebtInv, CallInv, OwnerInv, RegistryFindsClaimed, DyingInv, Live, Free, Names
<1> QED BY <1>1, <1>2, <1>3, <1>4, <1>5, <1>6, <1>7, <1>8 DEF IInv

(* Taking the mutex in the deleter keeps IInv. *)
LEMMA DelLock_Inv ==
  ASSUME IInv, NEW t \in Tids, DelLock(t)
  PROVE IInv'
<1>1. TypeOK'
  BY NoTokenAssumption, NoThreadAssumption DEF IInv, DelLock, Goto, TypeOK, CallInv, DyingInv, Names, Phases, Calls, Debts
<1>2. MutexInv'
  BY NoTokenAssumption, NoThreadAssumption DEF IInv, DelLock, Goto, TypeOK, MutexInv, Critical, Names
<1>3. DyingInv'
  BY NoTokenAssumption, NoThreadAssumption DEF IInv, DelLock, Goto, TypeOK, MutexInv, DyingInv, CallInv, OwnerInv, RegistryNeverStale, Critical, Live, Free, Names
<1>4. OwnerInv'
  BY NoTokenAssumption, NoThreadAssumption DEF IInv, DelLock, Goto, TypeOK, OwnerInv, DyingInv, CallInv, RegistryNeverStale, Free, Live, Names
<1>5. RegistryNeverStale'
  BY RegistryStable DEF IInv, DelLock
<1>6. RegistryFindsClaimed'
  BY NoTokenAssumption, NoThreadAssumption DEF IInv, DelLock, Goto, TypeOK, RegistryFindsClaimed, RegistryNeverStale, DyingInv, OwnerInv, CallInv, MutexInv, Critical, Free, Live, Names
<1>7. CallInv'
  BY NoTokenAssumption, NoThreadAssumption DEF IInv, DelLock, Goto, TypeOK, RegistryFindsClaimed, RegistryNeverStale, DyingInv, CallInv, OwnerInv, MutexInv, Critical, Free, Live, Names
<1>8. DebtInv'
  BY NoTokenAssumption, NoThreadAssumption DEF IInv, DelLock, Goto, TypeOK, DebtInv, CallInv, OwnerInv, RegistryFindsClaimed, DyingInv, Live, Free, Names
<1> QED BY <1>1, <1>2, <1>3, <1>4, <1>5, <1>6, <1>7, <1>8 DEF IInv

(* The lookup in the deleter keeps IInv. *)
LEMMA DelFind_Inv ==
  ASSUME IInv, NEW t \in Tids, DelFind(t)
  PROVE IInv'
<1>0. /\ pc[t] = "d_find" /\ dying[t] \in Tokens /\ mutex = t
      /\ ref[t]["local"] = NoToken /\ ref[t]["stored"] = NoToken
      /\ tokTid[dying[t]] \in Tids
      /\ \A i \in Tids : Lock(registry[i]) \in Tokens \cup {NoToken}
  <2>1. pc[t] = "d_find"
    BY DEF DelFind
  <2>2. dying[t] # NoToken
    BY <2>1 DEF IInv, DyingInv
  <2>3. dying[t] \in Tokens
    BY <2>2 DEF IInv, TypeOK
  <2>4. ~Free(dying[t])
    BY DEF Free
  <2>5. \A i \in Tids : Lock(registry[i]) \in Tokens \cup {NoToken}
    BY DEF IInv, TypeOK, Lock
  <2>6. tokTid[dying[t]] \in Tids
    BY <2>3, <2>4 DEF IInv, OwnerInv
  <2>7. ref[t]["local"] = NoToken /\ ref[t]["stored"] = NoToken /\ mutex = t
    BY <2>1 DEF IInv, CallInv, MutexInv, Critical
  <2> QED BY <2>1, <2>3, <2>5, <2>6, <2>7
<1>1. TypeOK'
  <2>1. /\ pc' \in [Tids -> Phases]
        /\ ref' \in [Tids -> [Names -> Tokens \cup {NoToken}]]
        /\ registry' \in [Tids -> Tokens \cup {NoToken}]
    BY <1>0 DEF IInv, TypeOK, DelFind, Assign, Goto, Names, Phases, EraseEntry
  <2>2. \A u \in Tids : pc'[u] \in {"off", "idle"} =>
          ref'[u]["local"] = NoToken /\ ref'[u]["stored"] = NoToken /\ dying[u] = NoToken
    BY <1>0 DEF IInv, TypeOK, DelFind, Assign, Goto
  <2> QED BY <2>1, <2>2 DEF IInv, TypeOK, DelFind, Goto
<1>2. MutexInv'
  BY NoTokenAssumption, NoThreadAssumption DEF IInv, DelFind, Assign, Goto, Lock, EraseEntry, TypeOK, MutexInv, Critical, Names
<1>3. DyingInv'
  BY NoTokenAssumption, NoThreadAssumption DEF IInv, DelFind, Assign, Goto, Lock, EraseEntry, TypeOK, MutexInv, DyingInv, CallInv, OwnerInv, RegistryNeverStale, Critical, Live, Free, Names
<1>4. OwnerInv'
  BY NoTokenAssumption, NoThreadAssumption DEF IInv, DelFind, Assign, Goto, Lock, EraseEntry, TypeOK, OwnerInv, DyingInv, CallInv, RegistryNeverStale, Free, Live, Names
<1>5. RegistryNeverStale'
  <2>1. \A k \in Tokens : Free(k)' <=> Free(k)
    <3>1. \A u \in Tids, m \in Names :
            ref'[u][m] = IF u = t /\ m = "stored" THEN Lock(registry[tokTid[dying[t]]])
                         ELSE ref[u][m]
      BY DEF IInv, TypeOK, DelFind, Assign, Names
    <3>2. \A k \in Tokens : Live(k)' <=> Live(k)
      BY <3>1, <1>0, NoTokenAssumption DEF Live, Lock, Names
    <3> QED BY <3>2 DEF Free, DelFind
  <2>2. \A i \in Tids : registry'[i] = registry[i] \/ registry'[i] = NoToken
    BY DEF IInv, TypeOK, DelFind
  <2> QED BY <2>1, <2>2 DEF IInv, RegistryNeverStale, DelFind, TypeOK
<1>6. RegistryFindsClaimed'
  BY NoTokenAssumption, NoThreadAssumption DEF IInv, DelFind, Assign, Goto, Lock, EraseEntry, TypeOK, RegistryFindsClaimed, RegistryNeverStale, DyingInv, OwnerInv, CallInv, MutexInv, Critical, Free, Live, Names
<1>7. CallInv'
  BY NoTokenAssumption, NoThreadAssumption DEF IInv, DelFind, Assign, Goto, Lock, EraseEntry, TypeOK, RegistryFindsClaimed, RegistryNeverStale, DyingInv, CallInv, OwnerInv, MutexInv, Critical, Free, Live, Names
<1>8. DebtInv'
  BY NoTokenAssumption, NoThreadAssumption DEF IInv, DelFind, Assign, Goto, Lock, EraseEntry, TypeOK, DebtInv, CallInv, OwnerInv, RegistryFindsClaimed, DyingInv, Live, Free, Names
<1> QED BY <1>1, <1>2, <1>3, <1>4, <1>5, <1>6, <1>7, <1>8 DEF IInv

(* The end of the deleter keeps IInv. *)
LEMMA DelEnd_Inv ==
  ASSUME IInv, NEW t \in Tids, DelEnd(t)
  PROVE IInv'
<1>0. /\ pc[t] = "d_end" /\ dying[t] \in Tokens /\ mutex = t
      /\ ref[t]["local"] = NoToken /\ ~Live(dying[t])
      /\ \A i \in Tids : registry[i] # dying[t]
  <2>1. pc[t] = "d_end"
    BY DEF DelEnd
  <2>2. dying[t] # NoToken
    BY <2>1 DEF IInv, DyingInv
  <2>3. dying[t] \in Tokens
    BY <2>2 DEF IInv, TypeOK
  <2>4. \A i \in Tids : registry[i] # dying[t]
    <3> SUFFICES ASSUME NEW i \in Tids, registry[i] = dying[t] PROVE FALSE
      OBVIOUS
    <3>1. registry[tokTid[dying[t]]] # dying[t]
      BY <2>1 DEF IInv, DyingInv
    <3>2. tokTid[registry[i]] = i
      BY <2>2 DEF IInv, RegistryNeverStale
    <3> QED BY <3>1, <3>2
  <2> QED BY <2>1, <2>2, <2>3, <2>4 DEF IInv, DyingInv, CallInv, MutexInv, Critical
<1>s. CASE LastOwner(t, "stored")
  <2>1. /\ pc' = [pc EXCEPT ![t] = "selflock"]
        /\ UNCHANGED <<call, arg, ref, dying, registry, mutex, claimed, continue,
                       tokTid, aim, owed>>
    BY <1>s DEF DelEnd, Goto
  <2>2. TypeOK'
    BY <2>1 DEF IInv, TypeOK, Phases
  <2>3. \A u \in Tids : pc'[u] = IF u = t THEN "selflock" ELSE pc[u]
    BY <2>1 DEF IInv, TypeOK
  <2>4. MutexInv' /\ CallInv'
    BY <2>1, <2>3, <1>0 DEF IInv, MutexInv, CallInv, Critical
  <2>5. DyingInv'
    BY <2>1, <2>3, <1>0, NoTokenAssumption DEF IInv, DyingInv, Live
  <2>6. OwnerInv' /\ RegistryNeverStale'
    BY <2>1 DEF IInv, OwnerInv, RegistryNeverStale, Free, Live
  <2>7. RegistryFindsClaimed'
    BY <2>1 DEF IInv, RegistryFindsClaimed
  <2>8. DebtInv'
    BY <2>1, <2>3, <1>0 DEF IInv, DebtInv
  <2> QED BY <2>2, <2>4, <2>5, <2>6, <2>7, <2>8 DEF IInv
<1>n. CASE ~LastOwner(t, "stored")
  <2>0. /\ ref' = [ref EXCEPT ![t]["stored"] = NoToken]
        /\ dying' = [dying EXCEPT ![t] = NoToken]
        /\ claimed' = [claimed EXCEPT ![dying[t]] = FALSE]
        /\ continue' = [continue EXCEPT ![dying[t]] = TRUE]
        /\ tokTid' = [tokTid EXCEPT ![dying[t]] = NoThread]
        /\ mutex' = NoThread
        /\ call' = [call EXCEPT ![t] = "none"] /\ arg' = [arg EXCEPT ![t] = t]
        /\ UNCHANGED <<registry, aim, owed>>
        /\ \E p \in {"off", "idle"} : pc' = [pc EXCEPT ![t] = p]
    BY <1>n DEF DelEnd, Assign, Delete, Return
  <2>1. TypeOK'
    <3>1. /\ pc' \in [Tids -> Phases] /\ call' \in [Tids -> Calls] /\ arg' \in [Tids -> Tids]
          /\ ref' \in [Tids -> [Names -> Tokens \cup {NoToken}]]
          /\ dying' \in [Tids -> Tokens \cup {NoToken}]
      BY <2>0 DEF IInv, TypeOK, Phases, Calls, Names
    <3>2. /\ claimed' \in [Tokens -> BOOLEAN] /\ continue' \in [Tokens -> BOOLEAN]
          /\ tokTid' \in [Tokens -> Tids \cup {NoThread}]
      BY <2>0, <1>0 DEF IInv, TypeOK
    <3>3. \A u \in Tids : pc'[u] \in {"off", "idle"} =>
            ref'[u]["local"] = NoToken /\ ref'[u]["stored"] = NoToken /\ dying'[u] = NoToken
      BY <2>0, <1>0 DEF IInv, TypeOK, Names
    <3> QED BY <3>1, <3>2, <3>3, <2>0 DEF IInv, TypeOK
  <2>r. \A u \in Tids, m \in Names :
          ref'[u][m] = IF u = t /\ m = "stored" THEN NoToken ELSE ref[u][m]
    BY <2>0 DEF IInv, TypeOK, Names
  <2>p. /\ \A u \in Tids : IF u = t THEN pc'[u] \in {"off", "idle"} ELSE pc'[u] = pc[u]
        /\ \A u \in Tids : dying'[u] = IF u = t THEN NoToken ELSE dying[u]
        /\ \A j \in Tokens : j # dying[t] => /\ tokTid'[j] = tokTid[j]
                                           /\ claimed'[j] = claimed[j]
                                           /\ continue'[j] = continue[j]
    BY <2>0, <1>0 DEF IInv, TypeOK
  <2>l. \A j \in Tokens : Live(j)' <=> Live(j)
    <3>1. \A j \in Tokens : Live(j)' => Live(j)
      BY <2>r, NoTokenAssumption DEF Live
    <3>2. \A j \in Tokens : Live(j) => Live(j)'
      <4> SUFFICES ASSUME NEW j \in Tokens, Live(j) PROVE Live(j)'
        OBVIOUS
      <4>1. PICK u \in Tids, m \in Names : ref[u][m] = j /\ ~(u = t /\ m = "stored")
        BY <1>n, NoTokenAssumption DEF Live, LastOwner
      <4>2. ref'[u][m] = j
        BY <4>1, <2>r
      <4> QED BY <4>2 DEF Live
    <3> QED BY <3>1, <3>2
  <2>d. \A u \in Tids : u # t => dying[u] # dying[t]
    BY <1>0, NoTokenAssumption DEF IInv, DyingInv
  <2>f. \A j \in Tokens : ~Free(j)' <=> ~Free(j) /\ j # dying[t]
    <3>1. \A j \in Tokens : (\E u \in Tids : dying'[u] = j) <=>
            (\E u \in Tids : dying[u] = j) /\ j # dying[t]
      BY <2>p, <2>d, NoTokenAssumption
    <3> QED BY <3>1, <2>l, <1>0 DEF Free
  <2>2. MutexInv'
    BY <2>0, <2>p, <1>0, NoThreadAssumption DEF IInv, MutexInv, Critical
  <2>3. DyingInv'
    <3>1. \A u \in Tids : dying'[u] # NoToken => ~Live(dying[u])'
      <4> SUFFICES ASSUME NEW u \in Tids, dying'[u] # NoToken PROVE ~Live(dying[u])'
        OBVIOUS
      <4>1. dying'[u] = dying[u] /\ dying[u] \in Tokens /\ ~Live(dying[u])
        BY <2>p DEF IInv, TypeOK, DyingInv
      <4>2. \A j \in Tokens : j = dying[u] => ~Live(j)'
        BY <4>1, <2>l
      <4> QED BY <4>1, <4>2 DEF Live
    <3>2. \A u \in Tids : pc'[u] # "d_end"
      BY <2>p, <1>0 DEF IInv, MutexInv, Critical
    <3>3. \A u \in Tids : u # t => ref'[u]["local"] = ref[u]["local"]
      BY <2>r DEF Names
    <3> QED BY <3>1, <3>2, <3>3, <2>p, <1>0 DEF IInv, DyingInv
  <2>u. \A u \in Tids : \A m \in {"tls", "held", "local"} :
          /\ ref'[u][m] = ref[u][m]
          /\ ref[u][m] \in Tokens \cup {NoToken}
          /\ ref[u][m] # dying[t]
    BY <2>r, <1>0 DEF IInv, TypeOK, Names, Live
  <2>4. OwnerInv'
    BY <2>f, <2>u, <2>p DEF IInv, OwnerInv
  <2>5. RegistryNeverStale'
    BY <2>f, <2>0, <2>p, <1>0 DEF IInv, RegistryNeverStale, TypeOK
  <2>6. RegistryFindsClaimed'
    BY <2>u, <2>p, <2>0 DEF IInv, RegistryFindsClaimed
  <2>7. CallInv'
    <3>1. \A u \in Tids : ref'[u]["stored"] = IF u = t THEN NoToken ELSE ref[u]["stored"]
      BY <2>r DEF Names
    <3>2. \A u \in Tids : u # t => pc[u] \notin {"g_find", "g_make", "g_claim"}
      BY <1>0 DEF IInv, MutexInv, Critical
    <3>3. pc'[t] = "off" => ref[t]["tls"] = NoToken
      BY <1>0, <1>n DEF IInv, CallInv, DelEnd, Return, TypeOK
    <3> QED BY <3>1, <3>2, <3>3, <2>u, <2>p, <2>0, <1>0 DEF IInv, CallInv
  <2>8. DebtInv'
    BY <2>u, <2>p, <2>0, <1>0 DEF IInv, DebtInv, TypeOK
  <2> QED BY <2>1, <2>2, <2>3, <2>4, <2>5, <2>6, <2>7, <2>8 DEF IInv
<1> QED BY <1>s, <1>n

-----------------------------------------------------------------------------
(* The initial states satisfy IInv. *)
LEMMA Init_Inv == Init => IInv
<1> SUFFICES ASSUME Init PROVE IInv
  OBVIOUS
<1> USE NoTokenAssumption, NoThreadAssumption DEF Init, NoRefs, Names
<1>1. TypeOK
  BY DEF TypeOK, Phases, Calls, Debts
<1>2. MutexInv
  <2>1. \A t \in Tids : mutex # t /\ pc[t] = "off"
    OBVIOUS
  <2> HIDE DEF Init, NoRefs, Names
  <2> QED BY <2>1 DEF MutexInv, Critical
<1>3. DyingInv
  BY DEF DyingInv
<1>4. OwnerInv
  BY DEF OwnerInv, Free, Live
<1>5. RegistryNeverStale /\ RegistryFindsClaimed
  BY DEF RegistryNeverStale, RegistryFindsClaimed
<1>6. CallInv /\ DebtInv
  BY DEF CallInv, DebtInv
<1> QED BY <1>1, <1>2, <1>3, <1>4, <1>5, <1>6 DEF IInv

(* So does a stuttering step. *)
LEMMA Stutter_Inv == IInv /\ UNCHANGED vars => IInv'
<1> SUFFICES ASSUME IInv, UNCHANGED vars PROVE IInv'
  OBVIOUS
<1> USE DEF IInv, vars
<1>1. TypeOK' /\ MutexInv'
  BY DEF TypeOK, MutexInv
<1>2. DyingInv'
  BY DEF DyingInv, Live
<1>3. OwnerInv' /\ RegistryNeverStale'
  BY DEF OwnerInv, RegistryNeverStale, Free, Live
<1>4. RegistryFindsClaimed' /\ CallInv' /\ DebtInv'
  BY DEF RegistryFindsClaimed, CallInv, DebtInv
<1> QED BY <1>1, <1>2, <1>3, <1>4

(* IInv is inductive. *)
LEMMA Next_Inv == IInv /\ [Next]_vars => IInv'
<1> SUFFICES ASSUME IInv, [Next]_vars PROVE IInv'
  OBVIOUS
<1>1. CASE UNCHANGED vars
  BY <1>1, Stutter_Inv
<1>2. ASSUME NEW t \in Tids,
             Start(t) \/ Synchronize(t) \/ HeldCancel(t) \/ DropHeld(t) \/ Exit(t)
      PROVE  IInv'
  BY <1>2, Start_Inv, Synchronize_Inv, HeldCancel_Inv, DropHeld_Inv, Exit_Inv
<1>3. ASSUME NEW t \in Tids, NEW i \in Tids, Cancel(t, i) \/ GetToken(t, i)
      PROVE  IInv'
  BY <1>3, Cancel_Inv, GetToken_Inv
<1>4. ASSUME NEW t \in Tids, Step(t)
      PROVE  IInv'
  BY <1>4, GetLock_Inv, GetFind_Inv, GetMake_Inv, GetClaim_Inv, CancelFound_Inv,
     CancelDrop_Inv, SyncYield_Inv, SyncQuery_Inv, DelLock_Inv, DelFind_Inv,
     DelEnd_Inv DEF Step
<1> QED BY <1>1, <1>2, <1>3, <1>4 DEF Next

(* The mutex, the weak pointers and the deleter keep every fact of IInv.     *)
THEOREM Invariant == Spec => []IInv
<1> QED BY Init_Inv, Next_Inv, PTL DEF Spec

(* Type correctness, for any number of threads and any amount of storage.    *)
THEOREM TypeCorrect == Spec => []TypeOK
<1>1. IInv => TypeOK
  BY DEF IInv
<1> QED BY <1>1, Invariant, PTL

(* The token a running thread uses is the one cancel(thread_id) finds in the *)
(* registry (get_token_impl, registry_gc_t).                                 *)
THEOREM RegistryCorrect == Spec => [](RegistryFindsClaimed /\ RegistryNeverStale)
<1>1. IInv => RegistryFindsClaimed /\ RegistryNeverStale
  BY DEF IInv
<1> QED BY <1>1, Invariant, PTL

(* Every action moves one thread. *)
LEMMA PcFrame ==
  ASSUME NEW t \in Tids,
         \/ Start(t) \/ Synchronize(t) \/ HeldCancel(t) \/ DropHeld(t) \/ Exit(t)
         \/ Step(t) \/ \E i \in Tids : Cancel(t, i) \/ GetToken(t, i)
  PROVE  \E q : pc' = [pc EXCEPT ![t] = q] \/ pc' = pc
<1>1. ASSUME Start(t) \/ Synchronize(t) \/ HeldCancel(t) PROVE \E q : pc' = [pc EXCEPT ![t] = q] \/ pc' = pc
  BY <1>1 DEF Start, Synchronize, Enter, HeldCancel, Goto
<1>2. ASSUME DropHeld(t) \/ Exit(t) \/ CancelDrop(t) PROVE \E q : pc' = [pc EXCEPT ![t] = q] \/ pc' = pc
  BY <1>2 DEF DropHeld, Exit, CancelDrop, Release, Return
<1>3. ASSUME \E i \in Tids : Cancel(t, i) \/ GetToken(t, i) PROVE \E q : pc' = [pc EXCEPT ![t] = q] \/ pc' = pc
  BY <1>3 DEF Cancel, GetToken, Enter
<1>4. ASSUME GetLock(t) \/ GetFind(t) \/ GetMake(t) \/ GetClaim(t) PROVE \E q : pc' = [pc EXCEPT ![t] = q] \/ pc' = pc
  BY <1>4 DEF GetLock, GetFind, GetMake, GetClaim, Goto, Return
<1>5. ASSUME CancelFound(t) \/ SyncYield(t) \/ SyncQuery(t) PROVE \E q : pc' = [pc EXCEPT ![t] = q] \/ pc' = pc
  BY <1>5 DEF CancelFound, SyncYield, Passes, SyncQuery, Goto, Return
<1>6. ASSUME DelLock(t) \/ DelFind(t) \/ DelEnd(t) PROVE \E q : pc' = [pc EXCEPT ![t] = q] \/ pc' = pc
  BY <1>6 DEF DelLock, DelFind, DelEnd, Goto, Return
<1> QED BY <1>1, <1>2, <1>3, <1>4, <1>5, <1>6 DEF Step

(* A cancel of a thread that has its token, once returned, makes the         *)
(* thread's next cancellation point fail (cancel, yield_no_throw_impl).      *)
THEOREM CancelCorrect == Spec => CancelNotMissed
<1>1. IInv /\ [Next]_vars =>
        [\A t \in Tids : pc[t] = "sync" /\ pc'[t] = "query" => owed[t] # "owed"]_vars
  <2> SUFFICES ASSUME IInv, Next, NEW t \in Tids, pc[t] = "sync", pc'[t] = "query"
               PROVE  owed[t] # "owed"
    OBVIOUS
  <2>1. SyncYield(t)
    <3>1. PICK u \in Tids : \/ Start(u) \/ Synchronize(u) \/ HeldCancel(u)
                            \/ DropHeld(u) \/ Exit(u) \/ Step(u)
                            \/ \E i \in Tids : Cancel(u, i) \/ GetToken(u, i)
      BY DEF Next
    <3>2. u = t
      BY <3>1, PcFrame DEF IInv, TypeOK
    <3>3. pc[t] # "sync" => ~SyncYield(t)
      BY DEF SyncYield
    <3> QED BY <3>1, <3>2 DEF Start, Synchronize, HeldCancel, DropHeld, Exit, Step,
              Cancel, GetToken, Enter, GetLock, GetFind, GetMake, GetClaim,
              CancelFound, CancelDrop, SyncQuery, DelLock, DelFind, DelEnd
  <2> QED BY <2>1 DEF IInv, TypeOK, DebtInv, SyncYield, Passes, Goto, Return
<1> QED BY <1>1, Invariant, PTL DEF Spec, CancelNotMissed

(* A thread's own token changes when it is claimed and when the thread ends. *)
LEMMA TlsFrame ==
  ASSUME IInv, Next, NEW t \in Tids, ref'[t]["tls"] # ref[t]["tls"]
  PROVE  (GetClaim(t) /\ call[t] = "sync") \/ Exit(t)
<1>1. PICK u \in Tids : \/ Start(u) \/ Synchronize(u) \/ HeldCancel(u)
                        \/ DropHeld(u) \/ Exit(u) \/ Step(u)
                        \/ \E i \in Tids : Cancel(u, i) \/ GetToken(u, i)
  BY DEF Next
<1>2. CASE ref' = ref
  BY <1>2
<1>3. CASE DropHeld(u) \/ CancelDrop(u) \/ GetFind(u) \/ GetMake(u) \/ DelFind(u) \/ DelEnd(u)
  <2>1. \E m \in {"held", "local", "stored"} : \E k :
          ref' = [ref EXCEPT ![u][m] = k] \/ ref' = ref
    BY <1>3 DEF DropHeld, CancelDrop, Release, GetFind, GetMake, DelFind, DelEnd, Assign
  <2> QED BY <2>1 DEF IInv, TypeOK, Names
<1>4. CASE Exit(u)
  <2>1. ref' = [ref EXCEPT ![u]["tls"] = NoToken]
    BY <1>4 DEF Exit, Release, Assign
  <2>2. u = t
    BY <2>1 DEF IInv, TypeOK
  <2> QED BY <2>2, <1>4
<1>5. CASE GetClaim(u)
  <2>1. u = t
    BY <1>5 DEF IInv, TypeOK, GetClaim, MoveOut
  <2>2. CASE call[t] = "sync"
    BY <1>5, <2>1, <2>2
  <2>3. CASE call[t] = "keep"
    BY <1>5, <2>1, <2>3 DEF IInv, TypeOK, Names, GetClaim, MoveOut
  <2>4. CASE call[t] \notin {"sync", "keep"}
    BY <1>5, <2>1, <2>4 DEF GetClaim
  <2> QED BY <2>2, <2>3, <2>4
<1>6. Start(u) \/ Synchronize(u) \/ HeldCancel(u) \/ GetLock(u) \/ CancelFound(u)
        \/ SyncYield(u) \/ SyncQuery(u) \/ DelLock(u)
        \/ (\E i \in Tids : Cancel(u, i) \/ GetToken(u, i)) => ref' = ref
  BY DEF Start, Synchronize, HeldCancel, GetLock, CancelFound, SyncYield, SyncQuery,
         DelLock, Cancel, GetToken
<1> QED BY <1>1, <1>2, <1>3, <1>4, <1>5, <1>6 DEF Step

(* A thread never takes over a token an earlier thread claimed               *)
(* (the test of claimed_ in get_token_impl).                                 *)
THEOREM ClaimCorrect == Spec => ClaimedOnce
<1>1. IInv /\ [Next]_vars =>
        [\A t \in Tids : ref[t]["tls"] = NoToken /\ ref'[t]["tls"] # NoToken
                            => ~claimed[ref'[t]["tls"]]]_vars
  <2> SUFFICES ASSUME IInv, Next, NEW t \in Tids, ref[t]["tls"] = NoToken,
                      ref'[t]["tls"] # NoToken
               PROVE  ~claimed[ref'[t]["tls"]]
    OBVIOUS
  <2>1. GetClaim(t) /\ call[t] = "sync"
    <3>1. ~Exit(t)
      BY DEF Exit, Release, Assign, IInv, TypeOK, Names
    <3> QED BY <3>1, TlsFrame
  <2>2. ref'[t]["tls"] = ref[t]["local"] /\ pc[t] = "g_claim"
    BY <2>1 DEF IInv, TypeOK, Names, GetClaim, MoveOut
  <2> QED BY <2>1, <2>2 DEF IInv, CallInv
<1> QED BY <1>1, Invariant, PTL DEF Spec, ClaimedOnce

(* The thread does not enter, leave or move inside synchronize. *)
Unmoved(t) == \/ pc'[t] = pc[t]
              \/ /\ pc[t] \notin {"sync", "query"}
                 /\ pc'[t] \notin {"sync", "query"}

(* The flag of a token, seen by the threads that have it, changes only at    *)
(* cancellations and cancellation points.                                    *)
LEMMA Unseen ==
  ASSUME IInv, \A t \in Tids : ref'[t]["tls"] = ref[t]["tls"],
         \A k \in Tokens : Live(k) => continue'[k] = continue[k],
         \A t \in Tids : Unmoved(t)
  PROVE  UNCHANGED <<Attached, Cancelled, Calling, Passed>>
<1>1. \A t \in Tids : ref[t]["tls"] # NoToken =>
        ref[t]["tls"] \in Tokens /\ Live(ref[t]["tls"])
  BY DEF IInv, TypeOK, Live, Names
<1>2. Attached' = Attached
  BY DEF Attached
<1>3. Cancelled' = Cancelled
  BY <1>1, <1>2 DEF Cancelled, Attached
<1>4. Calling' = Calling /\ Passed' = Passed
  BY DEF Calling, Passed, Unmoved
<1> QED BY <1>2, <1>3, <1>4

(* A cancel through any shared pointer is a cancel of the one thread whose   *)
(* token it is, or of nobody.                                                *)
LEMMA CancelMaps ==
  ASSUME IInv, NEW k \in Tokens, UNCHANGED ref,
         continue' = [continue EXCEPT ![k] = FALSE],
         \A t \in Tids : Unmoved(t)
  PROVE  \/ \E u \in Tids : Abs!Cancel(u)
         \/ UNCHANGED <<Attached, Cancelled, Calling, Passed>>
<1>1. Attached' = Attached /\ Calling' = Calling /\ Passed' = Passed
  BY DEF Attached, Calling, Passed, Unmoved
<1>2. CASE \E u \in Tids : ref[u]["tls"] = k
  <2>1. PICK u \in Tids : ref[u]["tls"] = k
    BY <1>2
  <2>2. \A t \in Tids : ref[t]["tls"] = k => t = u
    BY <2>1, NoTokenAssumption DEF IInv, OwnerInv
  <2>3. u \in Attached
    BY <2>1, NoTokenAssumption DEF Attached
  <2>4. Cancelled' = Cancelled \cup {u}
    BY <2>1, <2>2, <2>3, <1>1 DEF Cancelled, Attached, IInv, TypeOK, Names
  <2> QED BY <2>3, <2>4, <1>1 DEF Abs!Cancel
<1>3. CASE ~\E u \in Tids : ref[u]["tls"] = k
  BY <1>1, <1>3 DEF Cancelled, Attached, IInv, TypeOK, Names
<1> QED BY <1>2, <1>3

(* Which actions show: a cancel, a claim, a cancellation point, the end of a *)
(* query, the end of a thread. Every other step is invisible.                *)
LEMMA StepMaps == IInv /\ [Next]_vars => [Abs!Next]_(Abs!vars)
<1> SUFFICES ASSUME IInv, [Next]_vars
             PROVE  (\E u \in Tids : \/ Abs!Attach(u) \/ Abs!Begin(u) \/ Abs!Cancel(u)
                                      \/ Abs!Pass(u) \/ Abs!Interrupt(u) \/ Abs!Again(u)
                                      \/ Abs!Leave(u) \/ Abs!Detach(u))
                    \/ UNCHANGED <<Attached, Cancelled, Calling, Passed>>
  BY DEF Abs!Next, Abs!vars
<1>1. CASE UNCHANGED vars
  BY <1>1 DEF vars, Attached, Cancelled, Calling, Passed
<1> SUFFICES ASSUME NEW t \in Tids,
                    \/ Start(t) \/ Synchronize(t) \/ HeldCancel(t) \/ DropHeld(t)
                    \/ Exit(t) \/ Step(t)
                    \/ \E i \in Tids : Cancel(t, i) \/ GetToken(t, i)
             PROVE  (\E u \in Tids : \/ Abs!Attach(u) \/ Abs!Begin(u) \/ Abs!Cancel(u)
                                      \/ Abs!Pass(u) \/ Abs!Interrupt(u) \/ Abs!Again(u)
                                      \/ Abs!Leave(u) \/ Abs!Detach(u))
                    \/ UNCHANGED <<Attached, Cancelled, Calling, Passed>>
  BY <1>1 DEF Next
<1>t. \A u \in Tids : /\ ref[u]["tls"] \in Tokens \cup {NoToken}
                     /\ ref[u]["held"] \in Tokens \cup {NoToken}
                     /\ ref[u]["local"] \in Tokens \cup {NoToken}
  BY DEF IInv, TypeOK, Names
<1>12. CASE Synchronize(t) /\ ref[t]["tls"] # NoToken
  <2>1. UNCHANGED <<ref, continue>> /\ pc[t] = "idle" /\ pc' = [pc EXCEPT ![t] = "sync"]
    BY <1>12 DEF Synchronize, Enter
  <2>2. Attached' = Attached /\ Cancelled' = Cancelled /\ t \in Attached
    BY <1>12, <2>1 DEF Attached, Cancelled
  <2>3. t \notin Calling /\ Calling' = Calling \cup {t} /\ Passed' = Passed
    BY <2>1 DEF Calling, Passed, IInv, TypeOK
  <2> QED BY <2>2, <2>3 DEF Abs!Begin
<1>2. CASE \/ Start(t) \/ (Synchronize(t) /\ ref[t]["tls"] = NoToken)
           \/ GetLock(t) \/ DelLock(t)
           \/ \E i \in Tids : Cancel(t, i) \/ GetToken(t, i)
  <2>1. UNCHANGED <<ref, continue>>
    BY <1>2 DEF Start, Synchronize, GetLock, DelLock, Cancel, GetToken
  <2>2. pc[t] \notin {"sync", "query"} /\ \E q : q \notin {"sync", "query"} /\ pc' = [pc EXCEPT ![t] = q]
    BY <1>2 DEF Start, Synchronize, GetLock, DelLock, Cancel, GetToken, Enter, Goto
  <2>3. \A u \in Tids : Unmoved(u)
    BY <2>2 DEF IInv, TypeOK, Unmoved
  <2> QED BY <2>1, <2>3, Unseen
<1>3. CASE DropHeld(t) \/ CancelDrop(t)
  <2>1. UNCHANGED continue
    BY <1>3 DEF DropHeld, CancelDrop
  <2>2. pc[t] \notin {"sync", "query"} /\ \E q : q \notin {"sync", "query"} /\ pc' = [pc EXCEPT ![t] = q]
    BY <1>3 DEF DropHeld, CancelDrop, Release, Return
  <2>3. \A u \in Tids : Unmoved(u)
    BY <2>2 DEF IInv, TypeOK, Unmoved
  <2>4. \A u \in Tids : ref'[u]["tls"] = ref[u]["tls"]
    <3>1. \E m \in {"held", "local"} : ref' = [ref EXCEPT ![t][m] = NoToken]
      BY <1>3 DEF DropHeld, CancelDrop, Release, Assign
    <3>2. PICK m \in {"held", "local"} : ref' = [ref EXCEPT ![t][m] = NoToken]
      BY <3>1
    <3> QED BY <3>2 DEF IInv, TypeOK, Names
  <2> QED BY <2>1, <2>3, <2>4, Unseen
<1>4. CASE GetFind(t) \/ GetMake(t) \/ DelFind(t) \/ DelEnd(t)
  <2>1. \A k \in Tokens : Live(k) => continue'[k] = continue[k]
    <3>1. CASE GetFind(t) \/ DelFind(t)
      BY <3>1 DEF GetFind, DelFind
    <3>2. CASE GetMake(t)
      <4>1. continue' = continue \/ \E k \in Tokens : Free(k) /\ continue' = [continue EXCEPT ![k] = TRUE]
        BY <3>2 DEF GetMake
      <4> QED BY <4>1 DEF IInv, TypeOK, Free
    <3>3. CASE DelEnd(t)
      <4>1. continue' = continue \/ continue' = [continue EXCEPT ![dying[t]] = TRUE]
        BY <3>3 DEF DelEnd, Delete
      <4>2. pc[t] = "d_end"
        BY <3>3 DEF DelEnd
      <4>3. ~Live(dying[t])
        BY <4>2 DEF IInv, DyingInv
      <4> QED BY <4>1, <4>3 DEF IInv, TypeOK
    <3> QED BY <1>4, <3>1, <3>2, <3>3
  <2>2. pc[t] \notin {"sync", "query"} /\ \E q : q \notin {"sync", "query"} /\ pc' = [pc EXCEPT ![t] = q]
    BY <1>4 DEF GetFind, GetMake, DelFind, DelEnd, Goto, Return
  <2>3. \A u \in Tids : Unmoved(u)
    BY <2>2 DEF IInv, TypeOK, Unmoved
  <2>4. \A u \in Tids : ref'[u]["tls"] = ref[u]["tls"]
    <3>1. \E m \in {"local", "stored"} : \E k :
            ref' = [ref EXCEPT ![t][m] = k] \/ ref' = ref
      BY <1>4 DEF GetFind, GetMake, DelFind, DelEnd, Assign
    <3>2. CASE ref' = ref
      BY <3>2
    <3>3. CASE ref' # ref
      <4>1. PICK m \in {"local", "stored"} : \E k : ref' = [ref EXCEPT ![t][m] = k]
        BY <3>1, <3>3
      <4> QED BY <4>1 DEF IInv, TypeOK, Names
    <3> QED BY <3>2, <3>3
  <2> QED BY <2>1, <2>3, <2>4, Unseen
<1>5. CASE HeldCancel(t)
  BY <1>5, <1>t, CancelMaps DEF HeldCancel, Unmoved
<1>6. CASE CancelFound(t)
  <2>1. pc[t] = "cancel" /\ pc' = [pc EXCEPT ![t] = "drop"]
    BY <1>6 DEF CancelFound, Goto
  <2>2. \A u \in Tids : Unmoved(u)
    BY <2>1 DEF IInv, TypeOK, Unmoved
  <2>3. ref[t]["local"] \in Tokens
    BY <2>1, <1>t DEF IInv, CallInv
  <2> QED BY <1>6, <2>2, <2>3, CancelMaps DEF CancelFound
<1>7. CASE GetClaim(t) /\ call[t] = "sync"
  <2> DEFINE k == ref[t]["local"]
  <2>1. /\ pc[t] = "g_claim" /\ pc' = [pc EXCEPT ![t] = "sync"] /\ UNCHANGED continue
        /\ ref' = [ref EXCEPT ![t]["tls"] = k, ![t]["local"] = NoToken]
    BY <1>7 DEF GetClaim, MoveOut, Goto
  <2>2. k \in Tokens /\ ref[t]["tls"] = NoToken
    BY <2>1, <1>7, <1>t DEF IInv, CallInv
  <2>3. \A u \in Tids : ref'[u]["tls"] = IF u = t THEN k ELSE ref[u]["tls"]
    BY <2>1 DEF IInv, TypeOK, Names
  <2>4. Attached' = Attached \cup {t} /\ t \notin Attached
    BY <2>2, <2>3, NoTokenAssumption DEF Attached
  <2>5. Calling' = Calling \cup {t} /\ Passed' = Passed
    BY <2>1 DEF Calling, Passed, IInv, TypeOK
  <2>6. Cancelled' \in {Cancelled, Cancelled \cup {t}}
    <3>1. t \notin Cancelled
      BY <2>4 DEF Cancelled
    <3>2. \A u \in Tids : u # t => (u \in Cancelled' <=> u \in Cancelled)
      BY <2>1, <2>3, <2>4 DEF Cancelled
    <3>3. Cancelled \subseteq Tids /\ Cancelled' \subseteq Tids
      BY <2>4 DEF Cancelled, Attached
    <3> QED BY <3>1, <3>2, <3>3
  <2> QED BY <2>4, <2>5, <2>6 DEF Abs!Attach
<1>8. CASE GetClaim(t) /\ call[t] # "sync"
  <2>1. pc[t] = "g_claim" /\ \E q \in {"idle", "cancel"} : pc' = [pc EXCEPT ![t] = q]
    BY <1>8 DEF GetClaim, Goto, Return
  <2>2. \A u \in Tids : Unmoved(u)
    BY <2>1 DEF IInv, TypeOK, Unmoved
  <2>3. \A u \in Tids : ref'[u]["tls"] = ref[u]["tls"]
    <3>1. CASE call[t] = "keep"
      <4>1. ref' = [ref EXCEPT ![t]["held"] = ref[t]["local"], ![t]["local"] = NoToken]
        BY <1>8, <3>1 DEF GetClaim, MoveOut
      <4> QED BY <4>1 DEF IInv, TypeOK, Names
    <3>2. CASE call[t] # "keep"
      BY <1>8, <3>2 DEF GetClaim
    <3> QED BY <3>1, <3>2
  <2> QED BY <1>8, <2>2, <2>3, Unseen DEF GetClaim
<1>9. CASE Exit(t)
  <2>1. pc[t] = "idle" /\ UNCHANGED continue /\ ref' = [ref EXCEPT ![t]["tls"] = NoToken]
        /\ \E q \in {"d_lock", "off"} : pc' = [pc EXCEPT ![t] = q]
    BY <1>9 DEF Exit, Release, Return, Assign
  <2>2. \A u \in Tids : ref'[u]["tls"] = IF u = t THEN NoToken ELSE ref[u]["tls"]
    BY <2>1 DEF IInv, TypeOK, Names
  <2>3. Calling' = Calling /\ Passed' = Passed /\ t \notin Calling
    BY <2>1 DEF Calling, Passed, IInv, TypeOK
  <2>4. Attached' = Attached \ {t} /\ Cancelled' = Cancelled \ {t}
    BY <2>1, <2>2 DEF Attached, Cancelled
  <2>5. CASE t \in Attached
    BY <2>3, <2>4, <2>5 DEF Abs!Detach
  <2>6. CASE t \notin Attached
    BY <2>3, <2>4, <2>6 DEF Cancelled
  <2> QED BY <2>5, <2>6
<1>10. CASE SyncYield(t)
  <2> DEFINE k == ref[t]["tls"]
  <2>1. pc[t] = "sync" /\ UNCHANGED ref /\ continue' = [continue EXCEPT ![k] = TRUE]
        /\ pc' = [pc EXCEPT ![t] = IF continue[k] THEN "query" ELSE "idle"]
    BY <1>10 DEF SyncYield, Passes, TestAndSet, Goto, Return
  <2>2. k \in Tokens
    BY <2>1, <1>t DEF IInv, CallInv
  <2>3. t \in Attached /\ Attached' = Attached
    BY <2>1, <2>2, NoTokenAssumption DEF Attached
  <2>4. \A u \in Tids : ref[u]["tls"] = k => u = t
    BY <2>2, NoTokenAssumption DEF IInv, OwnerInv
  <2>5. \A u \in Attached : u # t => continue'[ref[u]["tls"]] = continue[ref[u]["tls"]]
    BY <2>1, <2>4, <1>t DEF Attached, IInv, TypeOK
  <2>6. continue'[k] = TRUE
    BY <2>1, <2>2 DEF IInv, TypeOK
  <2>7. Cancelled' = Cancelled \ {t}
    BY <2>1, <2>3, <2>5, <2>6 DEF Cancelled
  <2>8. /\ t \in Calling \ Passed
        /\ Passed' = IF continue[k] THEN Passed \cup {t} ELSE Passed
        /\ Calling' = IF continue[k] THEN Calling ELSE Calling \ {t}
    BY <2>1 DEF Calling, Passed, IInv, TypeOK
  <2>9. continue[k] <=> t \notin Cancelled
    BY <2>3 DEF Cancelled
  <2> QED BY <2>3, <2>7, <2>8, <2>9 DEF Abs!Pass, Abs!Interrupt
<1>11. CASE SyncQuery(t)
  <2>1. pc[t] = "query" /\ UNCHANGED <<ref, continue>>
        /\ \E q \in {"sync", "idle"} : pc' = [pc EXCEPT ![t] = q]
    BY <1>11 DEF SyncQuery, Goto, Return
  <2>2. Attached' = Attached /\ Cancelled' = Cancelled
    BY <2>1 DEF Attached, Cancelled
  <2>3. t \in Passed /\ Passed' = Passed \ {t}
        /\ Calling' \in {Calling, Calling \ {t}}
    BY <2>1 DEF Calling, Passed, IInv, TypeOK
  <2> QED BY <2>2, <2>3 DEF Abs!Leave, Abs!Again
<1> QED BY <1>2, <1>3, <1>4, <1>5, <1>6, <1>7, <1>8, <1>9, <1>10, <1>11, <1>12 DEF Step

(* The tokens, the registry and the shared pointers implement one            *)
(* cancellation flag per thread, for any number of threads.                  *)
THEOREM Refines == Spec => AbsSpec
<1>1. Init => Abs!Init
  BY NoTokenAssumption DEF Init, NoRefs, Names, Abs!Init, Attached, Cancelled, Calling, Passed
<1> QED BY <1>1, StepMaps, Invariant, PTL DEF Spec, AbsSpec, Abs!Spec
=============================================================================
