----------------------- MODULE DeviceResourcesManager -----------------------
(***************************************************************************)
(* core/device_resources_manager.hpp: the singleton that gives every host  *)
(* thread a device_resources object per device. Streams, stream pools and  *)
(* memory pool of a device are built once, by whichever thread asks first, *)
(* from parameters that the setters change until then; threads share them  *)
(* round-robin by a number that each draws when it first needs one.        *)
(*                                                                         *)
(* The setters and the slow path of get_device_resources hold the manager's*)
(* mutex from end to end. The application sets RMM's resources without it: *)
(* a build is taken in two steps, up to the look at RMM's current resource *)
(* and from its replacement on. Everything else under the mutex is one     *)
(* step. The fast path reads a variable of its own thread. RMM and CUDA    *)
(* are external; whatever they allocate may fail with an exception.        *)
(***************************************************************************)
EXTENDS Integers, FiniteSets

CONSTANTS
  Threads,       \* host threads
  Setters,       \* those that call the setters
  Devices,       \* CUDA devices
  StreamCounts,  \* the numbers of streams an application asks for
  PoolShapes,    \* pairs: the number of stream pools, the streams of each
  Sizes,         \* sizes of memory pools, and limits
  Resources,     \* memory resources of the application
  None           \* std::nullopt, or a null pointer

ASSUME ThreadsAssumption == Setters \subseteq Threads
ASSUME CountsAssumption == StreamCounts \subseteq Nat \ {0} /\ PoolShapes \subseteq Nat \X Nat
ASSUME SizesAssumption == Sizes \subseteq Nat \ {0}
ASSUME NoneAssumption == None \notin Nat /\ None \notin Resources

VARIABLES
  params,      \* params_
  finalized,   \* params_finalized_
  components,  \* per_device_components_
  handle,      \* thread_resources of every thread
  counter,     \* thread_counter
  id,          \* the thread_local id of a thread; 0 until it is drawn
  setting,     \* the max_mem of a thread that is between the two halves of
               \* set_mem_pool; empty elsewhere
  building,    \* the build in progress, whose thread holds the mutex, or None
  current      \* RMM's current resource of a device

vars == <<params, finalized, components, handle, counter, id, setting, building, current>>
shared == <<components, handle, counter, id, building, current>>

(* RMM's resource is a cuda_memory_resource, the initial one or one of the   *)
(* application; another resource of the application; or the manager's pool.  *)
UserResources == {"cuda", "other"}
RmmResources == UserResources \cup {"pool"}

Optional(S) == S \cup {None}
MaxSizes == Optional(Sizes \cup {0})   \* 0 asks for no memory pool
Pending == {<<max>> : max \in MaxSizes}

Init ==
  /\ params = [streams |-> None, pools |-> <<0, 16>>, init |-> None, max |-> 0,
               limit |-> None, mrs |-> [d \in Devices |-> None]]
  /\ finalized = FALSE
  /\ components = [d \in Devices |-> None]
  /\ handle = [t \in Threads |-> [d \in Devices |-> None]]
  /\ counter = 0
  /\ id = [t \in Threads |-> 0]
  /\ setting = [t \in Threads |-> <<>>]
  /\ building = None
  /\ current = [d \in Devices |-> "cuda"]

-----------------------------------------------------------------------------
(* The setters. Once the parameters are final they only log a warning.       *)

Unlocked == building = None

Unchecked == FALSE
Frozen == finalized

Set(field, value) ==
  params' = IF Frozen THEN params ELSE [params EXCEPT ![field] = value]

SetStreams(t) ==
  /\ Unlocked /\ setting[t] = <<>>
  /\ \E n \in Optional(StreamCounts) : Set("streams", n)
  /\ UNCHANGED <<finalized, setting, shared>>

SetPools(t) ==
  /\ Unlocked /\ setting[t] = <<>>
  /\ \E shape \in PoolShapes : Set("pools", shape)
  /\ UNCHANGED <<finalized, setting, shared>>

SetLimit(t) ==
  /\ Unlocked /\ setting[t] = <<>>
  /\ \E n \in Sizes : Set("limit", n)
  /\ UNCHANGED <<finalized, setting, shared>>

SetWorkspace(t) ==
  /\ Unlocked /\ setting[t] = <<>>
  /\ \E d \in Devices, mr \in Resources : Set("mrs", [params.mrs EXCEPT ![d] = mr])
  /\ UNCHANGED <<finalized, setting, shared>>

(* set_mem_pool takes the lock twice, for each of its arguments; the two     *)
(* other setters are its halves.                                             *)
SetInit(t) ==
  /\ Unlocked /\ setting[t] = <<>>
  /\ \E init \in Optional(Sizes) : Set("init", init)
  /\ \E m \in {<<>>} \cup Pending : setting' = [setting EXCEPT ![t] = m]
  /\ UNCHANGED <<finalized, shared>>

SetMax(t) ==
  /\ Unlocked
  /\ \/ setting[t] # <<>> /\ Set("max", setting[t][1])
     \/ setting[t] = <<>> /\ \E max \in MaxSizes : Set("max", max)
  /\ setting' = [setting EXCEPT ![t] = <<>>]
  /\ UNCHANGED <<finalized, shared>>

-----------------------------------------------------------------------------
(* get_device_resources. *)

(* The memory pool wraps a cuda_memory_resource, and nothing else.           *)
AnyResource(d) == TRUE
PoolAllowed(d) == current[d] = "cuda"
WantsPool == params.max # 0
Upstream(d) == IF WantsPool /\ PoolAllowed(d) THEN current[d] ELSE None

Build(d, upstream) ==
  [streams |-> params.streams,
   pools   |-> IF params.pools[2] = 0 THEN 0 ELSE params.pools[1],
   memory  |-> IF upstream = None THEN None ELSE <<params.init, params.max>>,
   mr      |-> params.mrs[d],
   limit   |-> None]

(* get_thread_id() % count.                                                  *)
OneBased(i, n) == 1 + (i % n)
Slot(i, n) == i % n

FreshId(t) == counter + 1
ThreadId(t) == IF id[t] = 0 THEN counter + 1 ELSE id[t]

Resource(t, c) ==
  [stream |-> IF c.streams = None THEN None ELSE Slot(ThreadId(t), c.streams),
   pool   |-> IF c.pools = 0 THEN None ELSE Slot(ThreadId(t), c.pools),
   mr     |-> c.mr,
   limit  |-> IF c.mr = None THEN None ELSE c.limit]

(* The thread numbers itself when a stream or a pool is first chosen for it. *)
DrawId(t, c) ==
  IF c.streams = None /\ c.pools = 0
    THEN UNCHANGED <<counter, id>>
    ELSE /\ id' = [id EXCEPT ![t] = ThreadId(t)]
         /\ counter' = IF ThreadId(t) > counter THEN ThreadId(t) ELSE counter

(* The handle of the thread. device_setter may throw, before the number is   *)
(* drawn, and the constructor of device_resources after it.                  *)
Give(t, d, c) ==
  \/ UNCHANGED <<counter, id, handle>>
  \/ DrawId(t, c) /\ UNCHANGED handle
  \/ DrawId(t, c) /\ handle' = [handle EXCEPT ![t][d] = Resource(t, c)]

GetDeviceResources(t, d) ==
  /\ Unlocked /\ setting[t] = <<>>
  /\ handle[t][d] = None /\ components[d] # None
  /\ finalized' = TRUE
  /\ Give(t, d, components[d])
  /\ UNCHANGED <<params, setting, components, building, current>>

(* The first to ask builds the components: streams and stream pools, then    *)
(* the memory pool over what is RMM's resource now ...                       *)
StartBuild(t, d) ==
  /\ Unlocked /\ setting[t] = <<>>
  /\ handle[t][d] = None /\ components[d] = None
  /\ finalized' = TRUE
  /\ building' = [thread |-> t, device |-> d, upstream |-> Upstream(d)]
  /\ UNCHANGED <<params, setting, components, handle, counter, id, current>>

(* ... any of which may throw ...                                            *)
FailBuild ==
  /\ ~Unlocked
  /\ building' = None
  /\ UNCHANGED <<params, finalized, setting, components, handle, counter, id, current>>

(* ... and makes the pool RMM's resource, whatever that is by now.           *)
EndBuild ==
  /\ ~Unlocked
  /\ LET t == building.thread
         d == building.device
         c == Build(d, building.upstream)
     IN  /\ components' = [components EXCEPT ![d] = c]
         /\ current' = IF building.upstream = None THEN current ELSE [current EXCEPT ![d] = "pool"]
         /\ Give(t, d, c)
  /\ building' = None
  /\ UNCHANGED <<params, finalized, setting>>

(* The application sets RMM's resource of a device itself, without the mutex.*)
UserResource(d) ==
  /\ \E r \in UserResources : current' = [current EXCEPT ![d] = r]
  /\ UNCHANGED <<params, finalized, setting, components, handle, counter, id, building>>

-----------------------------------------------------------------------------
Next ==
  \/ \E t \in Setters : \/ SetStreams(t) \/ SetPools(t) \/ SetLimit(t)
                         \/ SetWorkspace(t) \/ SetInit(t) \/ SetMax(t)
  \/ \E t \in Threads, d \in Devices : GetDeviceResources(t, d) \/ StartBuild(t, d)
  \/ FailBuild \/ EndBuild
  \/ \E d \in Devices : UserResource(d)

Spec == Init /\ [][Next]_vars

-----------------------------------------------------------------------------
(* Properties. *)

ParamsType ==
  [streams : Optional(StreamCounts), pools : PoolShapes \cup {<<0, 16>>},
   init : Optional(Sizes), max : MaxSizes, limit : Optional(Sizes),
   mrs : [Devices -> Optional(Resources)]]
ComponentsType ==
  [streams : Optional(StreamCounts), pools : Nat,
   memory : Optional(Optional(Sizes) \X MaxSizes),
   mr : Optional(Resources), limit : {None}]
HandleType ==
  [stream : Optional(Nat), pool : Optional(Nat),
   mr : Optional(Resources), limit : {None}]

BuildType ==
  [thread : Threads, device : Devices, upstream : Optional(RmmResources)]

ASSUME NoneIsNoRecord == None \notin ComponentsType
ASSUME NoneIsNoPair == None \notin Optional(Sizes) \X MaxSizes

(* Type invariant; a stream or pool that a thread has been given exists.     *)
TypeOK ==
  /\ params \in ParamsType
  /\ finalized \in BOOLEAN
  /\ components \in [Devices -> Optional(ComponentsType)]
  /\ handle \in [Threads -> [Devices -> Optional(HandleType)]]
  /\ counter \in Nat
  /\ id \in [Threads -> Nat]
  /\ setting \in [Threads -> {<<>>} \cup Pending]
  /\ building \in Optional(BuildType)
  /\ current \in [Devices -> RmmResources]
  /\ \A t \in Threads, d \in Devices : handle[t][d] # None =>
       /\ components[d] # None
       /\ handle[t][d].stream # None => handle[t][d].stream < components[d].streams
       /\ handle[t][d].pool # None => handle[t][d].pool < components[d].pools

(* Devices are built at different times, by different threads, after builds  *)
(* that failed, and with half of a set_mem_pool still to come: all of them   *)
(* are built from the same parameters, those that the setters left behind.   *)
BuiltFromParams ==
  \A d \in Devices : components[d] # None =>
    /\ finalized
    /\ components[d].streams = params.streams
    /\ components[d].pools = IF params.pools[2] = 0 THEN 0 ELSE params.pools[1]
    /\ components[d].memory # None => params.max # 0 /\ components[d].memory = <<params.init, params.max>>
    /\ components[d].mr = params.mrs[d]

(* Round-robin: two threads have the same stream of a device only if more    *)
(* threads have drawn a number than there are streams.                       *)
Numbered == {t \in Threads : id[t] # 0}
SharedOnlyWhenScarce ==
  \A t, u \in Threads, d \in Devices :
    /\ t # u
    /\ handle[t][d] # None /\ handle[u][d] # None
    /\ handle[t][d].stream # None
    /\ handle[t][d].stream = handle[u][d].stream
    => Cardinality(Numbered) > components[d].streams

(* So, and once every thread that has drawn a number holds a handle on a     *)
(* device, its streams are shared as evenly as they can be.                  *)
Users(d, s) == {t \in Threads : handle[t][d] # None /\ handle[t][d].stream = s}
StreamsSpread ==
  /\ SharedOnlyWhenScarce
  /\ \A d \in Devices :
       /\ components[d] # None /\ components[d].streams # None
       /\ \A t \in Numbered : handle[t][d] # None
       => LET Load(s) == Cardinality(Users(d, s))
              Streams == 0..components[d].streams - 1
          IN \A s, x \in Streams : Load(s) <= Load(x) + 1

(* RMM's resource of a device becomes the manager's pool at most once, and   *)
(* then the components of the device own that pool: builds that fail leave   *)
(* none behind. A resource that the application has set, and that is no      *)
(* cuda_memory_resource, gives way to the pool only if it was set after the  *)
(* build had found a cuda_memory_resource to put the pool over.              *)
Overtaken(d) == building # None /\ building.device = d /\ building.upstream = "cuda"
PoolPlaced ==
  [][\A d \in Devices : current[d] # "pool" /\ current'[d] = "pool" =>
       /\ components[d] = None
       /\ components'[d] # None /\ components'[d].memory # None
       /\ current[d] = "other" => Overtaken(d)]_vars
=============================================================================
