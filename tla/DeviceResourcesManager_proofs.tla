-------------------- MODULE DeviceResourcesManager_proofs --------------------
(***************************************************************************)
(* DeviceResourcesManager for any threads, devices and parameters: every   *)
(* device is built from the same parameters, and round-robin sharing. The  *)
(* inductive invariant adds that the numbers of threads are 1 to counter,  *)
(* each drawn once, and that a handle's stream is the slot of its number.  *)
(***************************************************************************)
EXTENDS DeviceResourcesManager, FiniteSetTheorems, TLAPS

Numbers ==
  /\ IsFiniteSet(Numbered)
  /\ counter = Cardinality(Numbered)
  /\ \A t \in Threads : id[t] <= counter
  /\ \A t, u \in Threads : t # u /\ id[t] # 0 => id[t] # id[u]
  /\ \A j \in 1..counter : \E t \in Threads : id[t] = j

Slots ==
  \A t \in Threads, d \in Devices : handle[t][d] # None =>
    /\ handle[t][d].stream = None => components[d].streams = None
    /\ handle[t][d].stream # None =>
         /\ id[t] # 0
         /\ components[d].streams \in Nat \ {0}
         /\ handle[t][d].stream = Slot(id[t], components[d].streams)

(* A device that is being built has no components yet, and what it is being  *)
(* built from stays.                                                         *)
Building == building # None =>
  /\ finalized
  /\ components[building.device] = None
  /\ building.upstream # None => WantsPool /\ building.upstream = "cuda"

IInv == TypeOK /\ BuiltFromParams /\ Numbers /\ Slots /\ Building

LEMMA SlotType ==
  ASSUME NEW i \in Nat, NEW n \in Nat \ {0}
  PROVE  Slot(i, n) \in Nat /\ Slot(i, n) < n
  BY DEF Slot

(* Two different numbers that share a slot are not both within one round.    *)
LEMMA SlotRound ==
  ASSUME NEW i \in Nat, NEW j \in Nat, NEW n \in Nat \ {0},
         1 <= i, i < j, Slot(i, n) = Slot(j, n)
  PROVE  j > n
<1> SUFFICES ASSUME j <= n PROVE FALSE
  OBVIOUS
<1>1. i % n = i
  BY SMT
<1>2. CASE j < n
  <2>1. j % n = j
    BY <1>2, SMT
  <2> QED BY <1>1, <2>1 DEF Slot
<1>3. CASE j = n
  <2>1. j % n = 0
    BY <1>3, SMT
  <2> QED BY <1>1, <2>1 DEF Slot
<1> QED BY <1>2, <1>3

LEMMA InitIInv == Init => IInv
<1> SUFFICES ASSUME Init PROVE IInv
  OBVIOUS
<1>1. params \in ParamsType
  BY DEF Init, ParamsType, Optional, MaxSizes
<1>2. TypeOK
  BY <1>1 DEF Init, TypeOK, Optional, RmmResources, UserResources
<1>3. Numbered = {}
  BY DEF Init, Numbered
<1>4. Numbers
  BY <1>3, FS_EmptySet DEF Init, Numbers
<1>5. BuiltFromParams /\ Slots /\ Building
  BY DEF Init, BuiltFromParams, Slots, Building
<1> QED BY <1>2, <1>4, <1>5 DEF IInv

-----------------------------------------------------------------------------
(* The setters change nothing but the parameters, and those only before any  *)
(* device is built.                                                          *)
LEMMA SettersKeep ==
  ASSUME IInv, Unlocked, params' \in ParamsType, finalized => params' = params,
         setting' \in [Threads -> {<<>>} \cup Pending],
         UNCHANGED <<finalized, shared>>
  PROVE  IInv'
<1>1. TypeOK'
  BY DEF IInv, TypeOK, shared
<1>2. BuiltFromParams'
  BY DEF IInv, BuiltFromParams, shared
<1>3. Numbers' /\ Slots' /\ Building'
  BY DEF IInv, Numbers, Slots, Numbered, Building, Unlocked, shared
<1> QED BY <1>1, <1>2, <1>3 DEF IInv

LEMMA SetKeeps ==
  ASSUME TypeOK, NEW field, NEW value, Set(field, value),
         [params EXCEPT ![field] = value] \in ParamsType
  PROVE  params' \in ParamsType /\ (finalized => params' = params)
  BY DEF Set, Frozen, TypeOK

LEMMA SetterStep ==
  ASSUME IInv, NEW t \in Setters,
         SetStreams(t) \/ SetPools(t) \/ SetLimit(t) \/ SetWorkspace(t)
           \/ SetInit(t) \/ SetMax(t)
  PROVE  IInv'
<1>1. params \in ParamsType /\ TypeOK /\ t \in Threads
  BY ThreadsAssumption DEF IInv, TypeOK
<1>2. setting \in [Threads -> {<<>>} \cup Pending]
  BY DEF IInv, TypeOK
<1>3. CASE SetStreams(t)
  <2>1. PICK n \in Optional(StreamCounts) : Set("streams", n)
    BY <1>3 DEF SetStreams
  <2>2. [params EXCEPT !["streams"] = n] \in ParamsType
    BY <1>1 DEF ParamsType
  <2>3. Unlocked /\ UNCHANGED <<finalized, setting, shared>>
    BY <1>3 DEF SetStreams
  <2> QED BY <1>1, <1>2, <2>1, <2>2, <2>3, SetKeeps, SettersKeep
<1>4. CASE SetPools(t)
  <2>1. PICK shape \in PoolShapes : Set("pools", shape)
    BY <1>4 DEF SetPools
  <2>2. [params EXCEPT !["pools"] = shape] \in ParamsType
    BY <1>1 DEF ParamsType
  <2>3. Unlocked /\ UNCHANGED <<finalized, setting, shared>>
    BY <1>4 DEF SetPools
  <2> QED BY <1>1, <1>2, <2>1, <2>2, <2>3, SetKeeps, SettersKeep
<1>5. CASE SetLimit(t)
  <2>1. PICK n \in Sizes : Set("limit", n)
    BY <1>5 DEF SetLimit
  <2>2. [params EXCEPT !["limit"] = n] \in ParamsType
    BY <1>1 DEF ParamsType, Optional
  <2>3. Unlocked /\ UNCHANGED <<finalized, setting, shared>>
    BY <1>5 DEF SetLimit
  <2> QED BY <1>1, <1>2, <2>1, <2>2, <2>3, SetKeeps, SettersKeep
<1>6. CASE SetWorkspace(t)
  <2>1. PICK d \in Devices, mr \in Resources : Set("mrs", [params.mrs EXCEPT ![d] = mr])
    BY <1>6 DEF SetWorkspace
  <2>2. [params.mrs EXCEPT ![d] = mr] \in [Devices -> Optional(Resources)]
    BY <1>1 DEF ParamsType, Optional
  <2>3. [params EXCEPT !["mrs"] = [params.mrs EXCEPT ![d] = mr]] \in ParamsType
    BY <1>1, <2>2 DEF ParamsType
  <2>4. Unlocked /\ UNCHANGED <<finalized, setting, shared>>
    BY <1>6 DEF SetWorkspace
  <2> QED BY <1>1, <1>2, <2>1, <2>3, <2>4, SetKeeps, SettersKeep
<1>7. CASE SetInit(t)
  <2>1. PICK n \in Optional(Sizes) : Set("init", n)
    BY <1>7 DEF SetInit
  <2>2. [params EXCEPT !["init"] = n] \in ParamsType
    BY <1>1 DEF ParamsType
  <2>3. Unlocked /\ UNCHANGED <<finalized, shared>> /\ setting' \in [Threads -> {<<>>} \cup Pending]
    BY <1>1, <1>2, <1>7 DEF SetInit
  <2> QED BY <1>1, <2>1, <2>2, <2>3, SetKeeps, SettersKeep
<1>8. CASE SetMax(t)
  <2>1. PICK n \in MaxSizes : Set("max", n)
    <3>1. CASE setting[t] # <<>> /\ Set("max", setting[t][1])
      <4>1. setting[t] \in Pending
        BY <1>1, <1>2, <3>1
      <4>2. setting[t][1] \in MaxSizes
        BY <4>1 DEF Pending
      <4> QED BY <3>1, <4>2
    <3> QED BY <1>8, <3>1 DEF SetMax
  <2>2. [params EXCEPT !["max"] = n] \in ParamsType
    BY <1>1 DEF ParamsType
  <2>3. Unlocked /\ UNCHANGED <<finalized, shared>> /\ setting' \in [Threads -> {<<>>} \cup Pending]
    BY <1>1, <1>2, <1>8 DEF SetMax
  <2> QED BY <1>1, <2>1, <2>2, <2>3, SetKeeps, SettersKeep
<1> QED BY <1>3, <1>4, <1>5, <1>6, <1>7, <1>8

-----------------------------------------------------------------------------
(* The components that a build makes.                                        *)
LEMMA BuildFacts ==
  ASSUME IInv, building # None
  PROVE  LET d == building.device
             c == Build(d, building.upstream)
         IN  /\ building.thread \in Threads /\ d \in Devices
             /\ c \in ComponentsType
             /\ c.streams = params.streams
             /\ c.pools = IF params.pools[2] = 0 THEN 0 ELSE params.pools[1]
             /\ c.memory # None => params.max # 0 /\ c.memory = <<params.init, params.max>>
             /\ c.mr = params.mrs[d]
             /\ building.upstream # None => c.memory # None
<1> DEFINE d == building.device
           u == building.upstream
           c == Build(d, u)
<1>1. params \in ParamsType /\ building \in BuildType
  BY DEF IInv, TypeOK, Optional
<1>2. building.thread \in Threads /\ d \in Devices
  BY <1>1 DEF BuildType
<1>3. u # None => params.max # 0
  BY DEF IInv, Building, WantsPool
<1>4. (IF params.pools[2] = 0 THEN 0 ELSE params.pools[1]) \in Nat
  <2>1. params.pools \in Nat \X Nat
    BY <1>1, CountsAssumption DEF ParamsType
  <2> QED BY <2>1
<1>5. /\ <<params.init, params.max>> \in Optional(Sizes) \X MaxSizes
      /\ params.mrs[d] \in Optional(Resources) /\ params.streams \in Optional(StreamCounts)
  BY <1>1, <1>2 DEF ParamsType
<1> DEFINE m == IF u = None THEN None ELSE <<params.init, params.max>>
<1>6. m \in Optional(Optional(Sizes) \X MaxSizes) /\ (u # None => m # None)
  BY <1>5, NoneIsNoPair DEF Optional
<1>7. c = [streams |-> params.streams,
           pools |-> IF params.pools[2] = 0 THEN 0 ELSE params.pools[1],
           memory |-> m, mr |-> params.mrs[d], limit |-> None]
  BY DEF Build
<1> HIDE DEF m, c, u, d
<1>8. c \in ComponentsType
  BY <1>4, <1>5, <1>6, <1>7 DEF ComponentsType
<1>9. m # None => params.max # 0 /\ m = <<params.init, params.max>>
  BY <1>3 DEF m
<1> QED BY <1>2, <1>6, <1>7, <1>8, <1>9 DEF c, u, d

(* A number that is drawn is new; a number that was drawn stays.             *)
LEMMA DrawKeeps ==
  ASSUME IInv, NEW t \in Threads, NEW c, DrawId(t, c)
  PROVE  /\ counter' \in Nat /\ id' \in [Threads -> Nat]
         /\ Numbers'
         /\ \A u \in Threads : id[u] # 0 => id'[u] = id[u]
         /\ ~(c.streams = None /\ c.pools = 0) => id'[t] = ThreadId(t) /\ id'[t] # 0
<1>1. /\ counter \in Nat /\ id \in [Threads -> Nat]
      /\ Numbers
  BY DEF IInv, TypeOK
<1>2. CASE UNCHANGED <<counter, id>> /\ c.streams = None /\ c.pools = 0
  BY <1>1, <1>2 DEF Numbers, Numbered
<1>3. CASE id[t] # 0 /\ ~(c.streams = None /\ c.pools = 0)
  <2>1. ThreadId(t) = id[t] /\ id[t] <= counter
    BY <1>1, <1>3 DEF ThreadId, Numbers
  <2>2. id' = id /\ counter' = counter
    BY <1>1, <1>3, <2>1 DEF DrawId
  <2> QED BY <1>1, <1>3, <2>1, <2>2 DEF Numbers, Numbered
<1>4. CASE id[t] = 0 /\ ~(c.streams = None /\ c.pools = 0)
  <2>1. /\ ThreadId(t) = counter + 1
        /\ id' = [id EXCEPT ![t] = counter + 1]
        /\ counter' = counter + 1
    BY <1>1, <1>4 DEF ThreadId, DrawId
  <2>2. counter' \in Nat /\ id' \in [Threads -> Nat] /\ id'[t] = counter + 1 /\ id'[t] # 0
    BY <1>1, <2>1
  <2>3. Numbered' = Numbered \cup {t} /\ t \notin Numbered
    BY <1>1, <1>4, <2>1, <2>2 DEF Numbered
  <2>4. IsFiniteSet(Numbered') /\ counter' = Cardinality(Numbered')
    BY <1>1, <2>1, <2>3, FS_AddElement DEF Numbers
  <2>5. \A u \in Threads : id'[u] <= counter'
    BY <1>1, <2>1 DEF Numbers
  <2>6. ASSUME NEW u \in Threads, NEW v \in Threads, u # v, id'[u] # 0
        PROVE  id'[u] # id'[v]
    <3>1. \A w \in Threads : id[w] <= counter /\ id[w] \in Nat
      BY <1>1 DEF Numbers
    <3>2. CASE u = t
      <4>1. id'[u] = counter + 1 /\ id'[v] = id[v]
        BY <1>1, <2>1, <2>6, <3>2
      <4> QED BY <1>1, <3>1, <4>1
    <3>3. CASE v = t
      <4>1. id'[v] = counter + 1 /\ id'[u] = id[u]
        BY <1>1, <2>1, <2>6, <3>3
      <4> QED BY <1>1, <3>1, <4>1
    <3>4. CASE u # t /\ v # t
      <4>1. id'[u] = id[u] /\ id'[v] = id[v]
        BY <1>1, <2>1, <3>4
      <4> QED BY <1>1, <2>6, <4>1 DEF Numbers
    <3> QED BY <3>2, <3>3, <3>4
  <2>7. \A u \in Threads : id[u] # 0 => id'[u] = id[u]
    BY <1>1, <1>4, <2>1
  <2>8. ASSUME NEW j \in 1..counter' PROVE \E u \in Threads : id'[u] = j
    <3>1. CASE j = counter + 1
      BY <2>2, <3>1
    <3>2. CASE j \in 1..counter
      <4>1. PICK u \in Threads : id[u] = j
        BY <1>1, <3>2 DEF Numbers
      <4> QED BY <2>7, <3>2, <4>1
    <3> QED BY <1>1, <2>1, <3>1, <3>2
  <2> QED BY <2>1, <2>2, <2>4, <2>5, <2>6, <2>7, <2>8 DEF Numbers
<1> QED BY <1>2, <1>3, <1>4 DEF DrawId

(* The step that gives a handle out, with the components found or built.     *)
LEMMA GiveStep ==
  ASSUME IInv, NEW t \in Threads, NEW d \in Devices, NEW c \in ComponentsType,
         handle[t][d] = None,
         components' = [components EXCEPT ![d] = c],
         components[d] # None => components[d] = c,
         Give(t, d, c),
         finalized' = TRUE, UNCHANGED <<params, setting>>,
         building' \in Optional(BuildType),
         current' \in [Devices -> RmmResources],
         BuiltFromParams', Building'
  PROVE  IInv'
<1>2. /\ TypeOK
      /\ components \in [Devices -> Optional(ComponentsType)]
      /\ handle \in [Threads -> [Devices -> Optional(HandleType)]]
      /\ id \in [Threads -> Nat]
  BY DEF IInv, TypeOK
<1>1. /\ params' \in ParamsType /\ finalized' \in BOOLEAN
      /\ setting' \in [Threads -> {<<>>} \cup Pending]
  BY <1>2 DEF TypeOK
<1>4. CASE \/ UNCHANGED <<counter, id, handle>>
           \/ DrawId(t, c) /\ UNCHANGED handle
           \/ DrawId(t, c) /\ handle' = [handle EXCEPT ![t][d] = Resource(t, c)]
  <2>1. /\ components' \in [Devices -> Optional(ComponentsType)]
        /\ BuiltFromParams'
        /\ \A e \in Devices : components[e] # None => components'[e] = components[e]
    BY <1>2 DEF Optional
  <2>2. c \in ComponentsType /\ c # None /\ components'[d] = c
    BY <1>2, NoneIsNoRecord
  <2>3. /\ counter' \in Nat /\ id' \in [Threads -> Nat]
        /\ Numbers'
        /\ \A u \in Threads : id[u] # 0 => id'[u] = id[u]
    <3>1. CASE UNCHANGED <<counter, id>>
      BY <1>2, <3>1 DEF IInv, TypeOK, Numbers, Numbered
    <3>2. CASE DrawId(t, c)
      BY <3>2, DrawKeeps
    <3> QED BY <1>4, <3>1, <3>2
  (* Handles given out before are as they were. *)
  <2>4. ASSUME NEW u \in Threads, NEW e \in Devices,
               handle'[u][e] = handle[u][e], handle[u][e] # None
        PROVE  /\ components'[e] # None /\ components'[e] = components[e]
               /\ handle[u][e].stream = None => components'[e].streams = None
               /\ handle[u][e].stream # None =>
                    id'[u] # 0 /\ handle[u][e].stream = Slot(id'[u], components'[e].streams)
    <3>1. components[e] # None /\ components'[e] = components[e]
      BY <1>2, <2>1, <2>4 DEF TypeOK
    <3>2. /\ handle[u][e].stream = None => components[e].streams = None
          /\ handle[u][e].stream # None =>
               id[u] # 0 /\ handle[u][e].stream = Slot(id[u], components[e].streams)
      BY <2>4 DEF IInv, Slots
    <3> QED BY <2>3, <3>1, <3>2
  <2>5. ASSUME \A u \in Threads, e \in Devices : handle'[u][e] = handle[u][e],
               handle' = handle
        PROVE  IInv'
    <3>1. TypeOK'
      BY <1>1, <1>2, <1>4, <2>1, <2>3, <2>4, <2>5 DEF TypeOK
    <3>2. Slots'
      BY <2>4, <2>5 DEF IInv, Slots
    <3> QED BY <2>1, <2>3, <3>1, <3>2 DEF IInv
  <2>6. ASSUME DrawId(t, c), handle' = [handle EXCEPT ![t][d] = Resource(t, c)]
        PROVE  IInv'
    <3> DEFINE h == Resource(t, c)
    <3>1. ~(c.streams = None /\ c.pools = 0) => id'[t] = ThreadId(t) /\ id'[t] # 0
      BY <2>6, DrawKeeps
    <3>2. /\ c.streams \in Optional(StreamCounts) /\ c.pools \in Nat
          /\ c.mr \in Optional(Resources) /\ c.limit = None
      BY <2>2 DEF ComponentsType
    <3>3. h.stream # None =>
            /\ c.streams \in Nat \ {0} /\ id'[t] # 0
            /\ h.stream = Slot(id'[t], c.streams)
            /\ h.stream \in Nat /\ h.stream < c.streams
      <4>1. CASE c.streams = None
        BY <4>1 DEF Resource
      <4>2. CASE c.streams # None
        <5>1. c.streams \in Nat \ {0}
          BY <3>2, <4>2, CountsAssumption DEF Optional
        <5>2. id'[t] = ThreadId(t) /\ id'[t] # 0 /\ id'[t] \in Nat
          BY <2>3, <3>1, <4>2
        <5>3. h.stream = Slot(id'[t], c.streams)
          BY <4>2, <5>2 DEF Resource
        <5> HIDE DEF h
        <5> QED BY <5>1, <5>2, <5>3, SlotType
      <4> QED BY <4>1, <4>2
    <3>s. h.stream = None => c.streams = None
      <4> HIDE DEF h
      <4> SUFFICES ASSUME c.streams # None PROVE h.stream # None
        OBVIOUS
      <4>1. c.streams \in Nat \ {0}
        BY <3>2, CountsAssumption DEF Optional
      <4>t. ThreadId(t) \in Nat
        <5>1. counter \in Nat /\ id[t] \in Nat
          BY <1>2 DEF TypeOK
        <5> QED BY <5>1 DEF ThreadId
      <4>2. h.stream = Slot(ThreadId(t), c.streams)
        BY DEF h, Resource
      <4> QED BY <4>1, <4>t, <4>2, SlotType, NoneAssumption
    <3>4. h.pool # None => h.pool \in Nat /\ h.pool < c.pools
      <4>1. CASE c.pools = 0
        BY <4>1 DEF Resource
      <4>2. CASE c.pools # 0
        <5>1. c.pools \in Nat \ {0}
          BY <3>2, <4>2
        <5>2. id'[t] = ThreadId(t) /\ id'[t] \in Nat
          BY <2>3, <3>1, <4>2
        <5>3. h.pool = Slot(id'[t], c.pools)
          BY <4>2, <5>2 DEF Resource
        <5> HIDE DEF h
        <5> QED BY <5>1, <5>2, <5>3, SlotType
      <4> QED BY <4>1, <4>2
    <3>5. h \in HandleType
      <4>1. h = [stream |-> h.stream, pool |-> h.pool, mr |-> c.mr, limit |-> None]
        BY <3>2 DEF Resource
      <4>2. h.stream \in Optional(Nat) /\ h.pool \in Optional(Nat)
        BY <3>3, <3>4 DEF Optional
      <4> HIDE DEF h
      <4> QED BY <3>2, <4>1, <4>2 DEF HandleType
    <3>6. /\ handle' \in [Threads -> [Devices -> Optional(HandleType)]]
          /\ handle'[t][d] = h
          /\ \A u \in Threads, e \in Devices :
               u # t \/ e # d => handle'[u][e] = handle[u][e]
      <4> HIDE DEF h
      <4>1. handle' = [handle EXCEPT ![t][d] = h]
        BY <2>6 DEF h
      <4> QED BY <1>2, <3>5, <4>1 DEF Optional
    <3> HIDE DEF h
    <3>7. ASSUME NEW u \in Threads, NEW e \in Devices, handle'[u][e] # None
          PROVE  /\ components'[e] # None
                 /\ handle'[u][e].stream = None => components'[e].streams = None
                 /\ handle'[u][e].stream # None =>
                      /\ handle'[u][e].stream < components'[e].streams
                      /\ id'[u] # 0
                      /\ components'[e].streams \in Nat \ {0}
                      /\ handle'[u][e].stream = Slot(id'[u], components'[e].streams)
                 /\ handle'[u][e].pool # None => handle'[u][e].pool < components'[e].pools
      <4>1. CASE u = t /\ e = d
        BY <2>2, <3>3, <3>s, <3>4, <3>6, <4>1
      <4>2. CASE u # t \/ e # d
        <5>1. handle'[u][e] = handle[u][e] /\ handle[u][e] # None
          BY <3>6, <3>7, <4>2
        <5> QED BY <1>2, <2>4, <5>1 DEF IInv, TypeOK, Slots
      <4> QED BY <4>1, <4>2
    <3>8. TypeOK'
      BY <1>1, <1>2, <1>4, <2>1, <2>3, <3>6, <3>7 DEF TypeOK
    <3>9. Slots'
      BY <3>7 DEF Slots
    <3> QED BY <2>1, <2>3, <3>8, <3>9 DEF IInv
  <2> QED BY <1>4, <2>5, <2>6
<1> QED BY <1>4 DEF Give

LEMMA GetStep ==
  ASSUME IInv, NEW t \in Threads, NEW d \in Devices, GetDeviceResources(t, d)
  PROVE  IInv'
<1> DEFINE c == components[d]
<1>1. /\ components \in [Devices -> Optional(ComponentsType)] /\ c \in ComponentsType
      /\ building \in Optional(BuildType) /\ current \in [Devices -> RmmResources]
  BY DEF GetDeviceResources, IInv, TypeOK, Optional
<1>2. /\ Unlocked /\ handle[t][d] = None /\ finalized' = TRUE /\ Give(t, d, c)
      /\ UNCHANGED <<params, setting, components, building, current>>
  BY DEF GetDeviceResources
<1>3. BuiltFromParams'
  BY <1>2 DEF IInv, BuiltFromParams
<1>4. Building'
  BY <1>2 DEF Building, Unlocked
<1>5. components' = [components EXCEPT ![d] = c]
  BY <1>1, <1>2
<1> HIDE DEF c
<1> QED BY <1>1, <1>2, <1>3, <1>4, <1>5, GiveStep DEF c

LEMMA StartStep ==
  ASSUME IInv, NEW t \in Threads, NEW d \in Devices, StartBuild(t, d)
  PROVE  IInv'
<1>1. /\ components[d] = None /\ finalized' = TRUE
      /\ building' = [thread |-> t, device |-> d, upstream |-> Upstream(d)]
      /\ UNCHANGED <<params, setting, components, handle, counter, id, current>>
  BY DEF StartBuild
<1>2. /\ Upstream(d) \in Optional(RmmResources)
      /\ Upstream(d) # None => WantsPool /\ Upstream(d) = "cuda"
  <2>1. current[d] \in RmmResources
    BY DEF IInv, TypeOK
  <2> QED BY <2>1 DEF Upstream, PoolAllowed, Optional
<1>3. building' \in BuildType
  BY <1>1, <1>2 DEF BuildType
<1>4. TypeOK'
  BY <1>1, <1>3 DEF IInv, TypeOK, Optional
<1>5. BuiltFromParams' /\ Numbers' /\ Slots'
  BY <1>1 DEF IInv, BuiltFromParams, Numbers, Numbered, Slots
<1>6. Building'
  BY <1>1, <1>2 DEF Building, WantsPool
<1> QED BY <1>4, <1>5, <1>6 DEF IInv

LEMMA EndStep ==
  ASSUME IInv, EndBuild
  PROVE  IInv'
<1> DEFINE t == building.thread
           d == building.device
           c == Build(d, building.upstream)
<1>1. building # None
  BY DEF EndBuild, Unlocked
<1>2. /\ components' = [components EXCEPT ![d] = c]
      /\ current' = IF building.upstream = None THEN current ELSE [current EXCEPT ![d] = "pool"]
      /\ Give(t, d, c) /\ building' = None
      /\ UNCHANGED <<params, finalized, setting>>
  BY DEF EndBuild
<1>3. /\ t \in Threads /\ d \in Devices /\ c \in ComponentsType
      /\ c.streams = params.streams
      /\ c.pools = IF params.pools[2] = 0 THEN 0 ELSE params.pools[1]
      /\ c.memory # None => params.max # 0 /\ c.memory = <<params.init, params.max>>
      /\ c.mr = params.mrs[d]
  BY <1>1, BuildFacts
<1>4. components[d] = None /\ finalized' = TRUE
  BY <1>1, <1>2 DEF IInv, Building
<1> HIDE DEF t, d, c
<1>5. handle[t][d] = None
  BY <1>3, <1>4 DEF IInv, TypeOK
<1>6. current' \in [Devices -> RmmResources]
  BY <1>2, <1>3 DEF IInv, TypeOK, RmmResources
<1>7. Building' /\ building' \in Optional(BuildType)
  BY <1>2 DEF Building, Optional
<1>8. components \in [Devices -> Optional(ComponentsType)]
  BY DEF IInv, TypeOK
<1>9. BuiltFromParams'
  <2> SUFFICES ASSUME NEW e \in Devices, components'[e] # None
               PROVE  /\ components'[e].streams = params.streams
                      /\ components'[e].pools = IF params.pools[2] = 0 THEN 0 ELSE params.pools[1]
                      /\ components'[e].memory # None =>
                           params.max # 0 /\ components'[e].memory = <<params.init, params.max>>
                      /\ components'[e].mr = params.mrs[e]
    BY <1>2, <1>4 DEF BuiltFromParams
  <2>1. CASE e = d
    BY <1>2, <1>3, <1>8, <2>1
  <2>2. CASE e # d
    BY <1>2, <1>8, <2>2 DEF IInv, BuiltFromParams
  <2> QED BY <2>1, <2>2
<1> QED BY <1>2, <1>3, <1>4, <1>5, <1>6, <1>7, <1>9, GiveStep

LEMMA NextIInv == IInv /\ [Next]_vars => IInv'
<1> SUFFICES ASSUME IInv, [Next]_vars PROVE IInv'
  OBVIOUS
<1>1. ASSUME NEW t \in Setters,
             SetStreams(t) \/ SetPools(t) \/ SetLimit(t) \/ SetWorkspace(t)
               \/ SetInit(t) \/ SetMax(t)
      PROVE  IInv'
  BY <1>1, SetterStep
<1>2. ASSUME NEW t \in Threads, NEW d \in Devices, GetDeviceResources(t, d)
      PROVE  IInv'
  BY <1>2, GetStep
<1>3. ASSUME NEW d \in Devices, UserResource(d)
      PROVE  IInv'
  <2>1. TypeOK'
    BY <1>3 DEF UserResource, IInv, TypeOK, RmmResources
  <2>2. BuiltFromParams' /\ Numbers' /\ Slots' /\ Building'
    BY <1>3 DEF UserResource, IInv, BuiltFromParams, Numbers, Numbered, Slots, Building, WantsPool
  <2> QED BY <2>1, <2>2 DEF IInv
<1>4. CASE UNCHANGED vars
  <2>1. TypeOK'
    BY <1>4 DEF vars, IInv, TypeOK
  <2>2. BuiltFromParams' /\ Numbers' /\ Slots' /\ Building'
    BY <1>4 DEF vars, IInv, BuiltFromParams, Numbers, Numbered, Slots, Building, WantsPool
  <2> QED BY <2>1, <2>2 DEF IInv
<1>5. ASSUME NEW t \in Threads, NEW d \in Devices, StartBuild(t, d)
      PROVE  IInv'
  BY <1>5, StartStep
<1>6. CASE FailBuild
  <2>1. TypeOK'
    BY <1>6 DEF FailBuild, IInv, TypeOK, Optional
  <2>2. BuiltFromParams' /\ Numbers' /\ Slots' /\ Building'
    BY <1>6 DEF FailBuild, IInv, BuiltFromParams, Numbers, Numbered, Slots, Building
  <2> QED BY <2>1, <2>2 DEF IInv
<1>7. CASE EndBuild
  BY <1>7, EndStep
<1> QED BY <1>1, <1>2, <1>3, <1>4, <1>5, <1>6, <1>7 DEF Next

-----------------------------------------------------------------------------
(* Round-robin. *)

LEMMA SharingFromSlots == IInv => SharedOnlyWhenScarce
<1> SUFFICES ASSUME IInv, NEW t \in Threads, NEW u \in Threads, NEW d \in Devices,
                    t # u, handle[t][d] # None, handle[u][d] # None,
                    handle[t][d].stream # None,
                    handle[t][d].stream = handle[u][d].stream
             PROVE  Cardinality(Numbered) > components[d].streams
  BY DEF SharedOnlyWhenScarce
<1> DEFINE n == components[d].streams
<1>1. /\ n \in Nat \ {0}
      /\ id[t] # 0 /\ id[u] # 0
      /\ Slot(id[t], n) = Slot(id[u], n)
  BY DEF IInv, Slots
<1>2. /\ id[t] \in Nat /\ id[u] \in Nat /\ counter \in Nat
      /\ id[t] <= counter /\ id[u] <= counter
      /\ id[t] # id[u]
      /\ counter = Cardinality(Numbered)
  BY <1>1 DEF IInv, TypeOK, Numbers
<1> HIDE DEF n
<1>3. CASE id[t] < id[u]
  <2>1. id[u] > n
    BY <1>1, <1>2, <1>3, SlotRound
  <2> QED BY <1>1, <1>2, <2>1 DEF n
<1>4. CASE id[u] < id[t]
  <2>1. id[t] > n
    BY <1>1, <1>2, <1>4, SlotRound
  <2> QED BY <1>1, <1>2, <2>1 DEF n
<1> QED BY <1>2, <1>3, <1>4

(* The threads of two streams: shifting the numbers of the one leads to      *)
(* numbers of the other, but for a number of the first round.                *)
LEMMA ModUnique ==
  ASSUME NEW n \in Nat \ {0}, NEW a \in Int, NEW q \in Int, NEW r \in 0..(n - 1),
         a = n * q + r
  PROVE  a % n = r
<1>1. /\ a % n \in 0..(n - 1) /\ a \div n \in Int
      /\ a = n * (a \div n) + (a % n)
  BY SMT
<1> DEFINE p == a \div n
           m == a % n
<1> HIDE DEF p, m
<1>2. p \in Int /\ m \in 0..(n - 1) /\ a = n * p + m
  BY <1>1 DEF p, m
<1>3. n * (q - p) = m - r
  BY <1>2, SMT
<1>4. q - p = 0
  <2>1. ~(q - p >= 1)
    <3>1. q - p >= 1 => n * (q - p) >= n
      BY <1>2, SMT
    <3> QED BY <1>2, <1>3, <3>1, SMT
  <2>2. ~(q - p <= -1)
    <3>1. q - p <= -1 => n * (q - p) <= -n
      BY <1>2, SMT
    <3> QED BY <1>2, <1>3, <3>1, SMT
  <2> QED BY <1>2, <2>1, <2>2, SMT
<1>5. m = r
  BY <1>2, <1>3, <1>4, SMT
<1> QED BY <1>5 DEF m

LEMMA ShiftSlot ==
  ASSUME NEW n \in Nat \ {0}, NEW s \in 0..(n - 1), NEW x \in 0..(n - 1),
         NEW i \in Nat, Slot(i, n) = s
  PROVE  LET k == IF x <= s THEN s - x ELSE (s - x) + n
         IN  k \in 0..(n - 1) /\ (i - k) % n = x
<1> DEFINE q == i \div n
<1>1. q \in Int /\ i = n * q + s
  BY SMT DEF Slot
<1> HIDE DEF q
<1>2. CASE x <= s
  <2>1. i - (s - x) = n * q + x /\ i - (s - x) \in Int
    BY <1>1, SMT
  <2> QED BY <1>1, <1>2, <2>1, ModUnique
<1>3. CASE ~(x <= s)
  <2>1. /\ i - ((s - x) + n) = n * (q - 1) + x
        /\ i - ((s - x) + n) \in Int /\ q - 1 \in Int
    BY <1>1, SMT
  <2>2. (i - ((s - x) + n)) % n = x
    BY <2>1, ModUnique
  <2> QED BY <1>3, <2>2
<1> QED BY <1>2, <1>3

LEMMA LoadsSpread ==
  ASSUME IInv, NEW d \in Devices,
         components[d] # None, components[d].streams # None,
         \A t \in Numbered : handle[t][d] # None,
         NEW s \in 0..components[d].streams - 1,
         NEW x \in 0..components[d].streams - 1
  PROVE  Cardinality(Users(d, s)) <= Cardinality(Users(d, x)) + 1
<1> DEFINE n == components[d].streams
           k == IF x <= s THEN s - x ELSE (s - x) + n
           Late == {t \in Users(d, s) : id[t] > n}
           First == {t \in Users(d, s) : id[t] <= n}
<1>1. n \in Nat \ {0}
  BY CountsAssumption DEF IInv, TypeOK, ComponentsType, Optional
<1>2. /\ id \in [Threads -> Nat] /\ counter \in Nat /\ IsFiniteSet(Numbered)
      /\ \A t \in Threads : id[t] <= counter
      /\ \A t, u \in Threads : t # u /\ id[t] # 0 => id[t] # id[u]
      /\ \A j \in 1..counter : \E t \in Threads : id[t] = j
  BY DEF IInv, TypeOK, Numbers
<1>3. None \notin Nat
  BY NoneAssumption
<1> HIDE DEF n
<1>4. \A y \in 0..(n - 1) :
        Users(d, y) = {t \in Numbered : Slot(id[t], n) = y}
  <2> SUFFICES ASSUME NEW y \in 0..(n - 1), NEW t \in Threads
               PROVE  (handle[t][d] # None /\ handle[t][d].stream = y)
                        <=> (t \in Numbered /\ Slot(id[t], n) = y)
    BY DEF Users, Numbered
  <2>1. y # None
    BY <1>1, <1>3
  <2>2. handle[t][d] # None =>
          /\ handle[t][d].stream # None
          /\ id[t] # 0 /\ handle[t][d].stream = Slot(id[t], n)
    BY DEF IInv, Slots, n
  <2> QED BY <2>1, <2>2 DEF Numbered
<1>5. /\ s \in 0..(n - 1) /\ x \in 0..(n - 1)
      /\ Users(d, s) = {t \in Numbered : Slot(id[t], n) = s}
      /\ Users(d, x) = {t \in Numbered : Slot(id[t], n) = x}
  BY <1>4 DEF n
<1>6. IsFiniteSet(Users(d, s)) /\ IsFiniteSet(Users(d, x))
  BY <1>2, <1>5, FS_Subset
<1>7. k \in 0..(n - 1) /\ k \in Int
  BY <1>1, <1>5
<1> HIDE DEF k
(* Past the first round every number has one k below it. *)
<1>8. ASSUME NEW t \in Late
      PROVE  \E u \in Users(d, x) : id[u] = id[t] - k
  <2>1. t \in Threads /\ id[t] \in Nat /\ id[t] > n /\ id[t] <= counter /\ Slot(id[t], n) = s
    BY <1>2, <1>5 DEF Numbered
  <2>2. (id[t] - k) % n = x
    BY <1>1, <1>5, <2>1, ShiftSlot DEF k
  <2>3. id[t] - k \in 1..counter
    BY <1>1, <1>2, <1>7, <2>1
  <2>4. PICK u \in Threads : id[u] = id[t] - k
    BY <1>2, <2>3
  <2>5. u \in Users(d, x)
    BY <1>5, <2>2, <2>3, <2>4 DEF Numbered, Slot
  <2> QED BY <2>4, <2>5
<1>9. Cardinality(Late) <= Cardinality(Users(d, x))
  <2> DEFINE f == [t \in Late |-> CHOOSE u \in Users(d, x) : id[u] = id[t] - k]
  <2>1. \A t \in Late : f[t] \in Users(d, x) /\ id[f[t]] = id[t] - k
    BY <1>8
  <2>2. \A t, v \in Late : f[t] = f[v] => t = v
    <3> SUFFICES ASSUME NEW t \in Late, NEW v \in Late, f[t] = f[v] PROVE t = v
      OBVIOUS
    <3>1. id[t] - k = id[v] - k
      BY <2>1
    <3>2. /\ t \in Threads /\ v \in Threads /\ id[t] \in Nat /\ id[v] \in Nat
          /\ id[t] # 0
      BY <1>2, <1>5 DEF Numbered
    <3> QED BY <1>2, <1>7, <3>1, <3>2
  <2>3. f \in [Late -> Users(d, x)]
    BY <2>1
  <2> HIDE DEF f, Late
  <2>4. f \in Injection(Late, Users(d, x))
    BY <2>2, <2>3 DEF Injection, IsInjective
  <2> QED BY <1>6, <2>4, FS_Injection
(* In the first round the slot comes once. *)
<1>10. \A t, u \in First : t = u
  <2> SUFFICES ASSUME NEW t \in First, NEW u \in First, t # u PROVE FALSE
    OBVIOUS
  <2>1. /\ t \in Threads /\ u \in Threads /\ id[t] \in Nat /\ id[u] \in Nat
        /\ id[t] # 0 /\ id[u] # 0 /\ id[t] # id[u] /\ id[t] <= n /\ id[u] <= n
        /\ Slot(id[t], n) = Slot(id[u], n)
    BY <1>2, <1>5 DEF Numbered
  <2>2. ~(id[t] < id[u])
    <3> SUFFICES ASSUME id[t] < id[u] PROVE FALSE
      OBVIOUS
    <3>1. id[u] > n
      BY <1>1, <2>1, SlotRound
    <3> QED BY <1>1, <2>1, <3>1
  <2>3. ~(id[u] < id[t])
    <3> SUFFICES ASSUME id[u] < id[t] PROVE FALSE
      OBVIOUS
    <3>1. id[t] > n
      BY <1>1, <2>1, SlotRound
    <3> QED BY <1>1, <2>1, <3>1
  <2> QED BY <2>1, <2>2, <2>3
<1>11. IsFiniteSet(First) /\ Cardinality(First) <= 1
  <2>1. CASE First = {}
    BY <2>1, FS_EmptySet
  <2>2. CASE First # {}
    <3> HIDE DEF First
    <3>1. PICK t \in First : TRUE
      BY <2>2
    <3>2. First = {t}
      BY <1>10, <3>1
    <3>3. IsFiniteSet(First) /\ Cardinality(First) = 1
      BY <3>2, FS_Singleton, Zenon
    <3> QED BY <3>3
  <2> QED BY <2>1, <2>2
<1>12. Cardinality(Users(d, s)) <= Cardinality(Late) + Cardinality(First)
  <2>1. Users(d, s) = Late \cup First
    BY <1>1, <1>2, <1>5 DEF Numbered
  <2>2. IsFiniteSet(Late)
    BY <1>6, FS_Subset
  <2>3. Late \cap First = {}
    BY <1>1, <1>2, <1>5 DEF Numbered
  <2> HIDE DEF Late, First
  <2>4. /\ Cardinality(Late \cup First) = Cardinality(Late) + Cardinality(First)
                                            - Cardinality(Late \cap First)
        /\ Cardinality(Late \cap First) = 0
    BY <1>11, <2>2, <2>3, FS_Union, FS_EmptySet
  <2>5. Cardinality(Late) \in Nat /\ Cardinality(First) \in Nat
    BY <1>11, <2>2, FS_CardinalityType
  <2> QED BY <2>1, <2>4, <2>5
<1>13. /\ Cardinality(Late) \in Nat /\ Cardinality(First) \in Nat
       /\ Cardinality(Users(d, s)) \in Nat /\ Cardinality(Users(d, x)) \in Nat
  <2>1. IsFiniteSet(Late)
    BY <1>6, FS_Subset
  <2> QED BY <1>6, <1>11, <2>1, FS_CardinalityType
<1> HIDE DEF Late, First
<1> QED BY <1>9, <1>11, <1>12, <1>13

-----------------------------------------------------------------------------
THEOREM Invariant == Spec => []IInv
<1> QED BY InitIInv, NextIInv, PTL DEF Spec

(* Types, and streams and pools that exist, for any threads and devices.     *)
THEOREM TypeCorrect == Spec => []TypeOK
<1>1. IInv => TypeOK
  BY DEF IInv
<1> QED BY <1>1, Invariant, PTL

(* All devices are built from the parameters that the setters left behind.   *)
THEOREM BuiltCorrect == Spec => []BuiltFromParams
<1>1. IInv => BuiltFromParams
  BY DEF IInv
<1> QED BY <1>1, Invariant, PTL

(* Threads share a stream only when there are more of them than streams.     *)
THEOREM SharingCorrect == Spec => []SharedOnlyWhenScarce
<1>1. IInv => SharedOnlyWhenScarce
  BY SharingFromSlots
<1> QED BY <1>1, Invariant, PTL

(* The streams of a device that every numbered thread has a handle on differ *)
(* by at most one in how many threads use them.                              *)
THEOREM SpreadCorrect == Spec => []StreamsSpread
<1>1. IInv => SharedOnlyWhenScarce
  BY SharingFromSlots
<1>2. IInv => StreamsSpread
  <2> SUFFICES ASSUME IInv, NEW d \in Devices,
                      components[d] # None, components[d].streams # None,
                      \A t \in Numbered : handle[t][d] # None,
                      NEW s \in 0..components[d].streams - 1,
                      NEW x \in 0..components[d].streams - 1
               PROVE  Cardinality(Users(d, s)) <= Cardinality(Users(d, x)) + 1
    BY <1>1 DEF StreamsSpread
  <2> QED BY LoadsSpread
<1> QED BY <1>2, Invariant, PTL

(* RMM's resource becomes the manager's pool once, as the components own it, *)
(* and in the place of another resource of the application only when that    *)
(* one was set while the pool was being made.                                *)
THEOREM PoolCorrect == Spec => PoolPlaced
<1> DEFINE P == \A d \in Devices : current[d] # "pool" /\ current'[d] = "pool" =>
       /\ components[d] = None
       /\ components'[d] # None /\ components'[d].memory # None
       /\ current[d] = "other" => Overtaken(d)
<1>1. IInv /\ [Next]_vars => [P]_vars
  <2> SUFFICES ASSUME IInv, Next, NEW e \in Devices,
                      current[e] # "pool", current'[e] = "pool"
               PROVE  /\ components[e] = None
                      /\ components'[e] # None /\ components'[e].memory # None
                      /\ current[e] = "other" => Overtaken(e)
    BY DEF vars
  <2>1. current \in [Devices -> RmmResources]
        /\ components \in [Devices -> Optional(ComponentsType)]
    BY DEF IInv, TypeOK
  <2>2. ~\E t \in Setters : SetStreams(t) \/ SetPools(t) \/ SetLimit(t)
                              \/ SetWorkspace(t) \/ SetInit(t) \/ SetMax(t)
    BY DEF SetStreams, SetPools, SetLimit, SetWorkspace, SetInit, SetMax, shared
  <2>3. ~\E t \in Threads, d \in Devices : GetDeviceResources(t, d) \/ StartBuild(t, d)
    BY DEF GetDeviceResources, StartBuild
  <2>4. ~FailBuild /\ ~\E d \in Devices : UserResource(d)
    BY <2>1 DEF FailBuild, UserResource, UserResources
  <2>5. EndBuild
    BY <2>2, <2>3, <2>4 DEF Next
  <2> DEFINE d == building.device
             c == Build(d, building.upstream)
  <2>6. /\ building # None
        /\ components' = [components EXCEPT ![d] = c]
        /\ current' = IF building.upstream = None THEN current ELSE [current EXCEPT ![d] = "pool"]
    BY <2>5 DEF EndBuild, Unlocked
  <2>7. building.upstream # None /\ d = e
    BY <2>1, <2>6
  <2>8. components[e] = None /\ building.upstream = "cuda"
    BY <2>6, <2>7 DEF IInv, Building
  <2>9. c \in ComponentsType /\ c.memory # None
    BY <2>6, <2>7, BuildFacts
  <2>10. components'[e] = c /\ c # None
    <3> HIDE DEF c, d
    <3> QED BY <2>1, <2>6, <2>7, <2>9, NoneIsNoRecord
  <2> HIDE DEF c
  <2> QED BY <2>6, <2>7, <2>8, <2>9, <2>10 DEF Overtaken
<1> QED BY <1>1, Invariant, PTL DEF Spec, PoolPlaced
=============================================================================
