# hipRaft in TLA+

This directory specifies the concurrent and protocol-like parts of hipRaft in
TLA+, model-checks them with TLC on small instances, and proves the most
important properties with TLAPS for every value of the constants. All paths
below are relative to the repository (`src/`); `raft/` stands for
`cpp/include/raft/`.

Contents: [1 Inventory](#1-inventory), [2 Plan](#2-plan),
[3 Modules](#3-the-modules), [4 Runs](#4-runs), [5 Fairness](#5-fairness),
[6 Proofs](#6-proofs), [7 Findings](#7-findings),
[8 Limits](#8-what-is-not-modelled).

## 1 Inventory

hipRaft is a header-only C++ library of GPU primitives, with a thin layer of
host code that owns streams, handles, memory pools and communicators, and
Python packages on top. Most of its volume is data-parallel numerical kernels:
one launch, no state kept between calls, correctness a matter of floating-point
arithmetic. The state that survives a call, and that several threads, ranks or
GPU threads share, sits in the components of this table.

| Component | State | Operations | Hard behaviour | Correct when |
|---|---|---|---|---|
| **Cancellation tokens** `raft/core/interruptible.hpp` | global registry `thread::id -> weak_ptr`, its mutex; per token `continue_`, `claimed_`; a thread-local `shared_ptr` | `synchronize`, `yield`, `yield_no_throw`, `get_token`, `get_token(id)`, `cancel(id)`, `token->cancel()`, the deleter `registry_gc_t` | tokens die on whichever thread drops the last owner, without the mutex; ids and addresses are reused; `cancel` sets the flag outside the lock | a thread's token is the one the registry gives for its id; a cancel is neither missed nor delivered twice; no thread blocks on itself |
| **Point-to-point** `raft/comms/detail/std_comms.hpp`, `ucp_helper.hpp` | `next_request_id_`, `free_requests_`, `requests_in_flight_`, request objects, the vector and the clock of `waitall` | `isend`, `irecv`, `waitall`, ucp callbacks, `progress` | ids are recycled, completions come from any progress call, timeouts race late completions, invalid ids abandon requests | one owner per request and id; a normal `waitall` means the operations are over; it always ends |
| **Collectives** `std_comms.hpp`, `comms/detail/util.hpp` | one-way queue of calls on a stream, `nccl_comm_`, the thread's cancellation flag | `allreduce`, `bcast`, `reduce`, `allgather(v)`, `gather(v)`, `reducescatter`, `device_sendrecv`, `barrier`, `sync_stream`, `comm_split` | ranks wait for each other on the device while the host polls; aborts and asynchronous errors | a successful wait has met its peers; every cancelled or failed wait ends |
| **Label merging** `raft/label/detail/merge_labels.cuh` | the shared table `R`, the flag `m` | `propagate_label_kernel`, the host's loop, `reassign_label_kernel` | GPU threads lower shared entries with minima they computed from stale reads | labels end as the smallest of their class; the loop ends |
| **Minimum spanning forest** `raft/sparse/solver/mst_solver.cuh`, `detail/mst_solver_inl.cuh`, `detail/mst_kernels.cuh` | altered weights, `color_index`, `color`, `next_color`, `min_edge_color`, `new_mst_edge`, `mst_edge`, the edges found so far and their count | rounds of kernels: `alteration`, `min_edge_per_vertex`, `min_edge_per_supervertex`, `check_termination`, `label_prop`, `append_src_dst_pair` | GPU threads read entries that others are rewriting; noise must separate equal weights without swapping others; a limit stops it halfway, earlier colors may be passed | each edge once, colors are the trees, the output is (part of) a minimum spanning forest, the loops end |
| **Device resources manager** `raft/core/device_resources_manager.hpp` | parameters, `params_finalized_`, per-device components, per-thread handles, thread numbers, RMM's current resource | the setters, `get_device_resources` | a setter races the first getter; a build fails halfway; lazily drawn numbers | all devices built from one set of parameters; streams shared evenly; RMM's resource replaced once, by a pool that is kept |
| **Selection of the k best** `raft/matrix/detail/select_k-inl.cuh`, `select_radix.cuh`, `select_warpsort.cuh` | counters, a histogram and two buffers per row in global memory; queues in registers, shared memory of the tree merge | `radix_topk` (kernels of several blocks or one), `select_k_` of four kinds of queues, the sort of the result | blocks meet in an atomic counter, the last to arrive goes on alone; candidates that do not fit are read again; one barrier in a round of the merge; keys refused against a bound that lags | the k best elements, each once, sorted if asked for; every kernel ends |
| **Brute-force neighbours** `raft/neighbors/detail/knn_brute_force.cuh`, `raft/spatial/knn/detail/fused_l2_knn-inl.cuh` | streams of the pool, partial results, a mutex per row of tiles, lists in shared memory | `brute_force_knn_impl`, `tiled_brute_force_knn`, `knn_merge_parts`, `fusedL2kNN` | blocks spin on a mutex and hand lists over through the output while others wait for a place on the device; streams fork and join | the nearest of all parts, with their distances; no list is lost; every kernel ends |
| Resource handle `raft/core/resources.hpp`, `raft/core/resource/*` | vectors of factories and resources | `add_resource_factory`, `get_resource`, `has_resource_factory`, copies that share cells | lazy creation; documented as not thread-safe | a resource is made once and by the factory set last |
| Stream pool `raft/core/resource/cuda_stream_pool.hpp` and its users | streams, one sync event per handle | `get_next_usable_stream`, `wait_stream_pool_on_stream`, `sync_stream_pool` | fork and join of kernels over streams, pools shared between handles | what a kernel reads was written before it, whatever streams they run on |
| Multi-GPU handle `device_resources_snmg.hpp` | a handle per device, the current device | `set_current_device_to_rank`, `get_device_resources_for_rank` | the current device is hidden per-thread state | each call runs on its rank's device |
| MPI communicator `raft/comms/detail/mpi_comms.hpp` | the request map of `std_comms` over MPI requests | as above | as above | as above |
| Dask cluster `python/raft-dask` | per-worker session state, NCCL unique id, endpoints | `Comms.init`, `destroy`, `inject_comms_on_handle` | workers that join late, sessions torn down while in use | a session's workers agree on its id and ranks |
| GPU cache `raft/cache`, `raft/util/cache.cuh` | set-associative table with timestamps | `GetCacheIdx`, `AssignCacheIdx`, `StoreVecs` | GPU threads compete for the slots of a set | a key has one slot; a slot returned holds its key's vector |
| Linear assignment `raft/solver` | covers, dual variables, assignments | phases of the Hungarian method | many GPU threads extend one alternating path | an optimal assignment |
| Everything else (k-means, linkage, approximate neighbours, distances, linear algebra, sparse, random, stats, spectral, `mdspan`, utilities, Cython, loaders, build) | none between calls, or forwarding only | | numerical |

How they interact: every wait on a stream goes through
`interruptible::synchronize`, except the waits of a communicator, which poll
the stream themselves and use `interruptible::yield_no_throw` as their
cancellation point (`util.hpp:110`). Communicators are injected into a handle
(`resource/comms.hpp`) by the builders (`comms/std_comms.hpp`) that raft-dask
calls. The resources manager builds handles whose streams and pools are shared
between threads. Python's SIGINT handler cancels the token of the thread that
runs a primitive. Label merging, MST and linkage serve the clustering code.
Brute-force search takes its streams from a handle's pool and, outside the fused
kernel, the nearest of each tile from `matrix::select_k`; the inverted-file
indexes select with it too.

The `hazards` of `PROJECT.json` list, line by line, what in this code a test
would hardly reach, with the property that covers each, or the reason why none
does.

## 2 Plan

Order: the parts every user of the library runs through come first
(cancellation, communicators), then the host's shared state, then parallel
algorithms on the GPU.

| Step | Module | Abstract specification | Theorems | State |
|---|---|---|---|---|
| 1 | `Interruptible` | `CancelFlag`: one flag per thread | invariants, two action properties, refinement | done |
| 2 | `StdComms` | | ids, handles, owners, `waitall`, tags, timeouts | done |
| 3 | `NcclSync` | | arrival, barrier | done |
| 4 | `MergeLabels` | the closure of the masked edges, as operators | invariance of classes, partial correctness | done |
| 5 | `DeviceResourcesManager` | | one set of parameters, sharing, spreading, the place of the pool | done |
| 6 | `MstSolver` | the minimum spanning forest, by cuts: no lighter edges join the ends of a chosen one | edges once, colors are trees, a minimum spanning forest | done |
| 7 | `SelectK`, of `Selection`, `RadixSelect` and `WarpSelect` | the k best of a set, as operators | the tree merge hands every piece over; the warps select the k best | done |
| 8 | `BruteForceKnn` over `FusedL2Knn`: streams as queues of work, CTAs with a mutex | the nearest of all parts, as operators | types and residency, one owner of each place of the output, the nearest of all parts | done |
| 9 | `VectorCache` | a partial function from keys to slots | one slot per key | left |
| 10 | `DaskComms` over `NcclSync`'s rank set | a session that is up or down on every worker | agreement on id and ranks | left |
| 11 | `Resources`, `CommSplit`, MPI requests as a third transport of `StdComms` | | created once; new ranks agree with NCCL's | left |

Every module is written to be proved about: parameters are CONSTANTS with named
assumptions, one action per operation, recursion only as quantification,
recursive functions or folds. Steps 9 to 11 are what a continuation would take
up first; useful bounds there are two sets of two ways and three keys for 9, and
three workers, one of which joins late, for 10.

## 3 The modules

Each module is accompanied by `MC<Module>.tla` (definitions for TLC only),
`.cfg` files, and `<Module>_proofs.tla`. "history" marks variables that no
code has: they record what properties need and are never read by a guard.

### Interruptible, CancelFlag

A thread of the model is a `std::thread::id`; it may start, run calls, end and
start again (a new thread with the reused id). `pc` says where in the library it
is, `ref[t]` holds its shared pointers: the thread-local `s` (`tls`), a token
the program keeps (`held`), `thread_store` in `get_token_impl` (`local`) and
`stored` in the deleter (`stored`). A weak pointer is an address; locking it
gives the address only while some shared pointer owns it (`Live`, `Lock`).
Storage is reused as soon as its deleter is over (`Free`), so stale entries of
the registry would find another thread's token.

The critical sections of `get_token_impl` (`GetLock`, `GetFind`, `GetMake`,
`GetClaim`) and of `registry_gc_t::operator()` (`DelLock`, `DelFind`, `DelEnd`)
are split wherever another thread's lock-free drop of a shared pointer may
change what comes next. Releasing a pointer (`Release`) runs the deleter when it
was the last owner. Where the code would lock the mutex it holds, the thread
goes to `selflock` and stays there. `yield` and `yield_no_throw` are a
`synchronize` whose query answers at once. The flags are relaxed atomics on one
location each, for which interleaving is exact.

`CancelFlag` is the API's promise to a thread that has its token: a cancel is
remembered, the next cancellation point of that thread, and only that one,
fails. `Interruptible` implements it under the mapping `attached` (has a
`tls`), `cancelled` (its flag is cleared), `calling`, `passed`.

### StdComms

Each rank owns the ids and the request map of one communicator; an operation is
`<<rank, n>>`, the request object it allocates has the same name. `op` is the
operation as UCX (external) sees it. `isend` and `irecv` take any id of
`free_requests_` (an `unordered_set`, `begin()` may be any element) or a new
one, and either insert it or throw with the id lost. `waitall` collects the
requests in one step (nothing else touches that rank's map), then runs its loop
as in the code: `WaitHead` is the test of `while` and of the clock, `WaitVisit`
one round of the inner `for`, with the progress call, the status test, the
erase and the iterator. The clock is one bit, `late`: ten seconds have passed
since `start`. `Match` pairs a send and a receive by the 64-bit tag the code
computes, in UCX's order, `Fail` breaks one operation. Transport variants are
constants: ucp, ucxx polled, ucxx with a progress thread.

`High` is the weight of the highest bit of the tag's 32-bit word (2^31 in the
code): the shift by 31 bits is the product with `High`, the truncation the
remainder by `2 * High`, as in `build_message_tag`. A communicator is used by one thread per
rank.

### NcclSync

Every rank makes the calls of `Program` in order; `queued` counts them, `done`
counts what its stream has performed. `Needs` says whose part of a call a rank
cannot do without, for each of the library's collectives as they are composed
of NCCL calls (`allgatherv` a group of broadcasts, `gather(v)` sends to the
root, `device_sendrecv` a group, `barrier` an allreduce followed by
`sync_stream`). `Query`, `GetAsyncError`, `Yield` and `CommAbort` are the steps
of `nccl_sync_stream`; the loop goes on after an abort, as in the code.
External: NCCL errors appear as a state of the communicator (`Break`), an
aborted communicator empties its stream (`Kill`), and a call with an aborted
communicator may do anything the API leaves open (`Call`, `GetAsyncError` and
`CommAbort` are nondeterministic there).

The cancellation flag (`token`) is the abstract one of `CancelFlag`, seen from
the thread that polls: `Cancel` sets it, `Yield` takes it. This is what
`Interruptible` is proved to implement.

### MergeLabels

One GPU thread per point. A thread reads three entries of `R` with plain loads,
then executes two `atomicMin`. Because the loads race with other threads'
atomics, a load returns any value the entry has had since the kernel's launch
(`seen`), not only the current one. `EndPass` is the host's synchronisation,
flag test and relaunch; `Reassign` is the second kernel. Labels count from 1.
`Init` takes every labelling in `Labellings` and every mask allowed by the
function's documentation.

### MstSolver

`phase` is the kernel that runs. A kernel whose threads write only entries of
their own, or lower entries that nobody reads before the next launch, is one
action (`Alteration`, `MinEdgePerVertex`, `AddReverse`, and the pair
`min_pair_colors`, `update_colors` in `Propagate`). In the two others a thread
reads what another thread may be writing, and each thread takes its own steps:
`Pick` is a thread of `min_edge_per_supervertex`, which looks at the edge of
its neighbour, `FinalStep` one step of the walk in `final_color_indices`. A
read yields the entry as it was at launch (`old`) or as it is.

Weights are integers; altered weights are counted in units of `1/(2 * Unit)`,
in which half a gap times a random number is whole. `Unique` leaves out two
edges that get the same altered weight by chance. `given` and `result` are
histories: the colors that were passed, and how often the output has each
edge. `Component(x, E)` is the reference, by cuts: the vertices that no set
closed under the edges `E` and the given colors separates from `x`.

### Selection, RadixSelect, WarpSelect, SelectK

`Selection` has the request: one row (`row`), dense or of a CSR matrix, `k`,
the direction, and the output. The rows of a batch share nothing but the code.
Keys are numbers of `Width` bits, as `TwiddleIn` makes them of any type, and an
element is a key with its index.

`RadixSelect` follows `radix_topk`: `Launch` is the host's launch of the next
pass, `Start` a block's reads of the counter, `FilterAndHistogram` one element
of its loop (block `b` takes the elements `b`, `b + Blocks`, ...),
`MergeHistogram` the additions to the global histogram, `EndPass` the arrival at
`finished_block_cnt` and what the last block does alone (scan, `choose_bucket`,
the reset for the next pass, the fused last filter). The
places in `out` and in the buffers come from the counters, one atomic addition
at a time. `LastFilterOne` is an element of `last_filter_kernel`; the fused
last filter and the passes of the one-block kernel are one step each, because
one block moves from barrier to barrier. Whether a pass is buffered
(`Skips`) is the code's comparison of its candidates with `buf_len`.

`WarpSelect` follows `select_k_` and `block_kernel`: `LaunchParameters` is the
occupancy arithmetic over what the calculator may answer; `Add` one stride of a
warp, in one of three forms for the four kinds of queue (`distributed` and
`distributed_ext` differ in where the buffer lies); `Done`, `Sync`, `Store`,
`Load` the tree merge of `block_sort::done`, each subwarp on its own between
barriers; `EndBlock` goes to the next block or to the second launch. Bitonic
sorting is abstracted to `Best`, with ties decided by the index; which of two
equal keys is kept is never part of a property. In a subwarp, `arrived` counts
barriers passed: a barrier is open to those whose count everybody has reached.

`SelectK` is both behind `select_k`, and the sort of the result by its keys.

### FusedL2Knn, BruteForceKnn

`FusedL2Knn` is the kernel of `fusedL2ExpKnnImpl`. A CTA is a record of its
place in the kernel, the row of tiles and the tile it is at, and its lists.
`Dispatch` lets the device take a CTA as long as it has a place (`Slots`);
`Tile` computes a tile and merges it into the list, `Acquire`, `Write`,
`Release` are a producer's side of `rowEpilog_lambda`, `Take`, `Copy`, `Free`,
`Merge`, `Store` the consumer's. Each spin on the mutex is a guard. Distances
are numbers the instance gives; those of one row of tiles move together, so one
query stands for a row. A list is an array of `k` pairs, `Nothing` where it has
no neighbor, in registers as in the output. `Nearest` is what
`updateSortedWarpQ` and `rowEpilog_lambda` come to: the k nearest of whatever a
function stores, in order, a neighbor stored twice taken twice; `Joined` puts two
arrays side by side. `Better` are the columns of a tile that the threshold
`warpKTop`, the last of the list so far, lets pass.

`BruteForceKnn` is `brute_force_knn_impl`: the host queues work (`Prepare`,
`SearchPart`, `SyncStreamPool`) and the streams perform it in order, `queue`
being what each still has to do: the transposition of the queries, the wait for
the user's stream, the search of a part, the root of the distances, the merge of
the parts. Kernels of several streams are on the device together and compete for its
places. A search before the transposition would see other queries
(`prepared`). `Translate` adds what `knn_merge_parts` was given for a part, which
is `Unknown`, a number of which nothing is known, where the code reads beyond the array.

The search of a part is a fused kernel, or `tiled_brute_force_knn` tile by tile
over the columns of a part (`Cols`, at least `k`). `SelectTile` computes the
distances of a tile and selects its nearest into the part's output, `CopyTile` is
the `thrust::for_each` that copies them to their place in `temp_out_*`
(`temp`), `EndTiled` the selection from those, or nothing if one tile is all. The
copies run on the stream of the handle's thrust policy. The handle of a part is a
copy of the user's with the part's stream set, and a policy is made for the
stream its handle has at its first use: so if the user's handle has one
already (`cached`), it is copied along and the copies go to the user's stream
(`PolicyStream`). If that is the part's own, each copy comes between the two
selections (`CopyInOrder`); else the copies are work in another queue, which
nothing orders against the selections of that part (`CopyApart`). A part of fewer
than `k` elements has one tile, smaller than `Cols`; the last selection is then
called with fewer elements than `k`, against its invariant
(`select_k-inl.cuh:241`), and may leave anything (`EndTiled`). The queries are
one row of tiles (`tile_rows >= m`): another row would repeat the loop with the
same buffers on the same streams.

### DeviceResourcesManager

The setters and the slow path of `get_device_resources` run under one mutex and
are one action each, but for two. `set_mem_pool` locks twice (`SetInit`, with the
argument of the second half pending in `setting`, then `SetMax`). A build reads
RMM's current resource, constructs the pool over it, and only then makes the pool
RMM's resource; the application's `set_current_device_resource` takes no such
mutex. So a build is `StartBuild`, up to the `dynamic_cast` (its outcome is
`building.upstream`), and `EndBuild`, from the replacement on, or `FailBuild`;
whoever needs the mutex waits meanwhile (`Unlocked`). `UserResource` is the
application setting RMM's resource at any time, also during a build, either to
a `cuda_memory_resource` of its own ("cuda", which the cast cannot tell from the
initial one) or to something else. `GetDeviceResources` is the slow path for a
device that has its components; `Give` has its two places of failure, before the
thread's number is drawn and while the handle is constructed. The fast path (the
thread has its handle) changes nothing.

The documentation of `set_max_mem_pool_size` (503-507) and the warning at 182-184
say that a resource which has already been set is not overwritten. Of the code
only less is true, and `PoolPlaced` says how much: such a resource stays if it is
no `cuda_memory_resource` and was set before the build looked. One that is set
between look and replacement is lost, and one that is a `cuda_memory_resource`
becomes the pool's upstream. What the code does guarantee is that the pool
becomes RMM's resource at most once per device, and then belongs to components
that are kept: no build that failed leaves a pool behind.

## 4 Runs

| Run | Instance | What it shows |
|---|---|---|
| `interruptible` | 2 threads, one of which keeps tokens, 3 addresses; 0.36 M states | all invariants, both action properties, the refinement, and that a cancelled `synchronize` ends |
| `interruptible_selflock` | both threads keep tokens | violation: self-deadlock |
| `stdcomms_ucp` | 2 ranks over ucp with faults; rank 0 posts two operations, rank 1 one; arrays up to length 2, with repeated and unknown ids | ids, owners, completeness, honest timeouts, termination |
| `stdcomms_ucxx` | 3 ranks over ucxx, one with a progress thread | a normal return means delivery; messages come from the named rank |
| `nccl_sync` | 2 ranks; reduce, barrier, send-receive, broadcast with a final sync; rank 0 may be cancelled, rank 1 may fail | barrier, termination of every wait that is cancelled or has failed, and of an undisturbed program |
| `merge_labels` | 3 points, every pair of labellings and every mask | classes preserved, smallest labels, termination |
| `mst` | every graph of 4 vertices with weights 1 and 2, symmetrized or not, fresh colors or two vertices joined before, no limit or one round; 0.86 M states | edges once, colors are trees, chosen edges minimal, a minimum forest, termination |
| `mst_mixed_signs` | a cycle of 4 vertices with weights -1, 1, 2 | violation: noise swaps different weights |
| `device_manager` | 3 threads (one configures), 2 devices, 2 streams | one set of parameters, even spreading over streams, where the pool takes the place of RMM's resource; 2.4 M states |
| `select_k` | rows of up to six keys of 5 bits, dense and CSR, the empty one included, k from 1 to 3, both directions; radix with one block or two, warps with up to six subwarps and one launch or two; 0.2 M states | the k best, each once; every piece of the tree merge is handed over; termination |
| `brute_force_knn` | five inputs, k of 1 and 2, a device with places for four CTAs, pools of 0 to 2 streams, with and without a policy in the user's handle; 0.09 M states | one owner of the output, the nearest of all parts, termination |
| `brute_force_roots` | the same inputs with a metric that takes a root | violation: distances without their root |

Why the bounds are enough to be interesting.

- *Interruptible.* Three addresses let a thread own a token, an older claimed
  token of the same id be kept elsewhere, and a third be created meanwhile,
  with reuse of whichever is freed first. The self-deadlock needs two threads
  and two tokens. Only one thread keeps tokens in the passing run; with two,
  the same invariants hold (they are proved), and the state space grows past
  what a run should take. Symmetry is not used because the run checks liveness
  and a refinement.
- *StdComms.* Two operations on one rank are needed for a recycled id, for a
  request that completes while another is visited, for the iterator after an
  erase, and for a wait that fails at its second id. The third rank of
  `stdcomms_ucxx` is there to be confused with the first. `High = 8` keeps
  one bit for the tag and three for the rank, as 2^31 keeps one and thirty-one.
- *NcclSync.* Two ranks, four calls: one call without a wait before the barrier,
  so that the barrier has something to order; a group; a call where the root
  runs ahead of its peers. The same run has cancellation, failure and neither.
- *MergeLabels.* Three points give chains (a-b, b-c) whose merge needs a second
  pass, and every choice of stale reads; the run contains inputs whose minimum
  travels against the order of the threads. `MAX_LABEL` stands for the
  largest value of the type. Labellings are those in which a group is named
  after one of its points, as the documentation asks.
- *MstSolver.* Four vertices let two pairs merge in one round and the pairs in
  the next, and let a chain of three picked edges bring one color over more than
  one launch of `Propagate`. Two weights make ties that only the noise breaks, and
  gaps that it must not close. The random values are powers of two, so that all
  sums differ; two orders of them decide ties both ways.
- *DeviceResourcesManager.* Three threads over two streams make sharing both
  necessary and avoidable; two devices make the order of builds matter, and let the
  resource of one be set while the other is built. One memory pool size suffices,
  since only its being 0 makes a difference.
  Symmetry (devices, the threads that set nothing) is sound: the run checks
  invariants and one box property, and neither names a thread or a device.
- *SelectK.* Six keys of 5 bits in digits of 2, so the last digit is a short one;
  the buffers of 2 and 3 places make some passes of a row fit and others not,
  0 stands for rows too short for buffers. One row is of equal keys, one has the
  k-th key several times, and the two short ones are also CSR rows with no more
  than k elements. Warps of two lanes and capacities 1, 2 and 4 give
  subwarps of one lane, one per warp, and queues longer than a warp; six subwarps
  make a tree of three rounds in which a half is odd. `Instances` leaves out
  short rows in a launch of several blocks, because `calc_launch_parameter` has
  several only for long ones and the CSR kernel would read what nobody wrote
  (see 7), and for k = 1 blocks of six subwarps, to bound the run; the theorem
  has no such restriction.
- *BruteForceKnn.* Three tiles for two or more CTAs let one CTA take several
  tiles and two producers compete; three rows of tiles on a device of four
  places leave CTAs waiting while others spin; two parts on two streams put two
  kernels on the device, and in the fourth input either of them can fill it.
  The fifth has a part of one element, fewer than k. Tiles of three columns make two
  of the first input's five and an uneven last one. `Answered` leaves out what the
  code answers wrongly or does not define, see 7: roots and offsets with several
  parts, and in a tiled search parts of fewer than k elements and copies that are
  ordered by nothing. All of these are in the run, for the other properties; only
  `NearestFound` does not speak of them, nor does the theorem. `MCInit` gives the
  input of three rows one pool and no offset, and the fused kernel one policy, since
  they look at neither; of the inputs with several parts only the smallest has an
  offset. No part is empty (`KernelAssumption`): for one without columns the launch
  would ask for a grid of no CTAs. No k is beyond 1024 (`HostAssumption`), where
  `knn_merge_parts` throws.
- `CHECK_DEADLOCK FALSE` everywhere: threads may be done, waits may have failed,
  and the self-deadlocked thread stays where it is; progress is stated by the
  leads-to properties instead.

## 5 Fairness

- `Interruptible`: weak fairness of each thread's steps inside the library, that
  is, the operating system runs threads that are in a call. No thread has to
  call anything. A thread that waits for the mutex is not assumed to get it:
  weak fairness suffices because `CancelledSyncEnds` is about a thread that
  polls without a lock. The device query may answer "not ready" for ever.
- `StdComms`: a waiting thread is scheduled, the clock passes ten seconds, a
  progress thread runs. Nothing is assumed of peers or transport, so
  `WaitallEnds` covers messages that never come. It is checked over ucp; over
  ucxx without a progress thread `waitall` calls `progress` until it has
  progressed something, and that inner loop (`std_comms.hpp:285`) has no
  timeout.
- `NcclSync`: hosts are scheduled; NCCL performs a collective that *every* peer
  has queued (`Deliver`, weaker than what it may do, `Finish`); the kernels of
  an aborted communicator leave the stream (`Kill`). Nobody is assumed to
  notice a remote failure.
- `MergeLabels`: launched GPU threads run to their end, the host goes on.
- `MstSolver`: the host goes on, and launched GPU threads run to their end.
- `SelectK` and `BruteForceKnn`: weak fairness of the next step as a whole. That
  is the host going on and a launched kernel making progress somewhere, and no
  more: it is enough because nobody waits in a loop that changes the state.
  A spinning CTA is a guard that is not yet true. The device is assumed to take
  CTAs in the order of their numbers and kernels in the order of their launch
  (external): with any other order the first CTA of a row could wait for one
  that never gets a place, and `SearchEnds` would not hold.
- `DeviceResourcesManager` has no liveness property: no operation waits for
  another.

## 6 Proofs

TLAPS proves the following for every value of the constants that satisfies the
named assumptions (any number of threads, addresses, ranks, ids, points,
vertices, devices, programs, rows, block sizes, tiles). Each proofs module has the inductive invariant `IInv`, a
lemma per action that it is preserved, the theorem `Spec => []IInv`, and the
properties as corollaries.

- **Interruptible_proofs**: `TypeOK`, `RegistryFindsClaimed`,
  `RegistryNeverStale`, `CancelNotMissed`, `ClaimedOnce`, and the refinement
  `Spec => AbsSpec`. That the registry leads to a thread's token is not
  inductive: a deleter that has found its entry must erase the right one, and
  a thread between lookup and publication must not have been overtaken. `IInv`
  adds who is inside the mutex (`MutexInv`), that a token being deleted has no
  owner and one deleter (`DyingInv`), that tokens in use know their id
  (`OwnerInv`), and what each program point knows of the pointers it holds
  (`CallInv`). `DebtInv` relates the history of returned cancels to the flags.
  The refinement is a step simulation: claims, starts of calls, cancels,
  cancellation points, ends of queries and ends of threads are visible, every
  other step stutters (`Unseen`).
- **StdComms_proofs**: `TypeOK`, `IdsAccounted`, `HandlesStable`, `OwnedOnce`,
  `WaitallComplete`, over both transports. `IInv` adds that every request
  object in the map, the vector or the released set belongs to an operation
  already posted (so a new one differs from all), that no more ids are handed
  out than operations posted, and that an operation `waitall` no longer follows
  has been completed (`WaitInv`). `SourceFilters`, also over both
  transports: a rank that fits below the highest bit is what two equal tags have
  in common, whatever the bits of the user's tag do to the upper word
  (`HighBit`, `TagRank`), and a matched send and receive name each other
  (`PairInv`). `WaitallDelivers` over ucxx: an operation waited for leaves the
  vector only when it completed without an error, and stays completed
  (`DeliverInv`); over ucp the callbacks drop the status, which the theorem's
  hypothesis `Ucxx` says. `TimeoutHonest` over ucp: the clock has run out only
  when nothing was completed since it was last set (`TimeInv`); over ucxx
  progress on another operation than the one looked at need not restart it.
- **NcclSync_proofs**: `TypeOK`, `SyncedArrived`, `BarrierHolds`, for any
  program. What a host knows after a wait follows from what its stream knows:
  `Performed` says that whatever a stream has performed, the peers it needed
  had started; streams only go forward.
- **MergeLabels_proofs**: `TypeOK`, `MergesOnlyEquivalent`, `MergedToSmallest`,
  for any number of points and any input. The values a thread can read, and
  those it writes, stay in the class (`Equivalent`). A pass that set no flag
  wrote nothing, so its reads were exact (`QuietPass`); hence `R` agrees along
  every masked edge, is constant on a class, lies below its members and among
  them: it is the smallest.
- **MstSolver_proofs**: `TypeOK`, `EdgesOnce`, `ColorsAreTrees` and
  `SpanningForest`, for any number of vertices, any graphs and earlier colors;
  `ChosenMinimal` and `MinimumForest` when the weights of a graph have one sign
  (`OneSign`). Mixed signs therefore only harm the weight of the forest (finding 2),
  never that it is one. `IInv` has a part per kernel. `Picking`: whether a
  vertex keeps its edge is settled at launch, because of two ends that picked
  the same edge the one with the lower color keeps it and so looks alike early
  and late. `Propagating`: the ends of a chosen edge have one supervertex or
  offer their colors to each other, so that when no color changes a tree has
  one color (`FixpointColors`). `Finishing`: the least vertex of a tree is its
  own supervertex before and after, so a walk finds it in either version of the
  array. `MInv` is about the altered weights, and so holds with any noise: no
  two edges have the same one (`Distinct`), nothing leaves a color below its
  minimum, and each color's minimum was picked by a vertex of it; the vertices
  of one color are then a cut that no edge of less altered weight crosses. That noise
  keeps the order of different weights (`Ordered`) needs the gap to the next
  larger weight (`GapBound`), and with it one sign.
  `ForestCount`: each edge of a forest leaves one tree less, whatever the order
  in which they were added. From it (`Counted`) the host's number of edges never
  passes the bound it checks, so it never reports a failure, and a round
  that is not the last adds an edge, so as many rounds as vertices suffice; a
  round that finds nothing leaves no edge between two colors (`NothingFound`,
  `Spanning`). `Bottleneck`: in a smallest set of chosen edges that joins the ends
  of an edge none is heavier than that edge, which would otherwise be a lighter
  way round it.
  `NatLeast` and `SmallestSet` (a least element of any set of naturals, a
  smallest of any finite sets, from the well-foundedness of `<`) replace
  induction.
- **DeviceResourcesManager_proofs**: `TypeOK`, `BuiltFromParams`,
  `SharedOnlyWhenScarce`, `StreamsSpread`, `PoolPlaced`. `Building` says that the
  build in progress is of a device without components, from final parameters, and
  over nothing but a `cuda_memory_resource`; with it every replacement is the end of
  a build that found one. Numbers are drawn once and are exactly 1 to `counter` (`Numbers`), and a handle's stream is the
  slot of its thread's number (`Slots`); two different numbers in one slot are a
  whole round apart. Taking a fixed k from the numbers of one stream therefore
  leads to numbers of the other, except from the one number of the first round:
  the first stream has at most one user more (`LoadsSpread`).

- **SelectK_proofs**: `HandedOver`, for any row, capacity, warp and block size,
  also those `Instances` leaves out. `Round` numbers the barrier that ends a
  subwarp's stores. `TreeInv` says that no two subwarps are more than one round
  apart (`Barriers`), that the number of the round determines how many subwarps
  are left and where pieces lie (`Agreement`), that what was stored for a
  subwarp lies there until it has loaded it (`ForLoad`), and that this is so
  already while the receiver is a round behind (`ForLater`). Stores of
  alternate rounds go to the shifted and to the unshifted places; that these do
  not meet (`Halves`, `Places`) is why one barrier in a round is enough, which the
  comment at `select_warpsort.cuh:747-751` claims.

  With the warp queues (`algo = "warpsort"`) also `TypeOK`, and `KSmallest` for a
  row that is `Whole`: no shorter than k in a launch of several blocks, and without
  a key equal to `kDummy` (both of which the code needs, see 7). The radix kernels
  have no part in either theorem. `RankFacts` and `RankExists` say that counting
  what comes before an element numbers the elements of a finite set, so that
  `Best` and the order in which a queue is stored are facts about sets. A set
  *speaks* for an element (`Covered`) if it has it, or as many others that are
  no worse as can be selected; merging two sets (`CoverMore`), keeping the best of
  one (`CoverFirst`), selecting from what was selected (`CoverTrans`) and refusing a
  key by a bound that lags (`Passes`) lose no such claim. `WarpInv` is about sizes and phases: what each kind of buffer can hold,
  that a warp past `done` has read its part and emptied its buffers, and that with
  `distributed_ext` nobody stores into the shared memory of the merge while
  another still buffers there (`PhasesOK`). `GatheredIn(m)` follows a round from m
  subwarps to half as many: for each element that a warp has read some subwarp
  still in the tree speaks, by its queue or by a buffer; one of the upper half
  counts until its partner has loaded it (`InTree`). That rounds do not overlap
  further comes from `Barriers`. Once the first subwarp is at the end nothing
  changes its queue any more (`Finished`), and as every place of the row belongs to
  one lane at one time (`EveryPlace`), its queue speaks for all that the block was
  given (`EndGathered`). `TmpInv` carries that over to the second launch.
  `WarpAssumption` says of compiled capacities that those below a warp divide it,
  as powers of two do (`select_warpsort.cuh:171`).
- **BruteForceKnn_proofs**: `TypeOK`, `OneOwner` and `NearestFound`, for any
  inputs, device and number of streams. `IInv` relates the value of each mutex to
  the CTAs between acquiring and releasing it, and says that CTA 0 of a row
  only takes and the others only deliver, each for a row that exists. That the
  root is taken at most once per part (`TypeInv`) follows from counting those
  whose root is still queued; the places on the device are counted, too.

  `NearestFound` is about an array being *ranked* for a set of neighbors: at
  every place below the size of the set stands the one with that many nearer
  ones in the set, and elsewhere something that is not near (`Best`, `Blank`). What
  the code does with lists are then facts about sets: `NearestOf` (`Nearest` of any
  memory that has every candidate once is ranked), `NearestOfMany` (so is that
  of several lists for disjoint sets, for their union), `TileMerge` (what the
  threshold keeps out was not among the k nearest), `ShiftFacts` (translated ids).
  `KernelGood` is the invariant of a kernel on the device. A CTA's list is ranked
  for the columns of the tiles it has done. The producers that are past a row are
  those whose lists the first CTA has merged, the one whose list it has in hand,
  and the one whose list is in the output, and nobody is two of these (`RowOK`); its
  heap is ranked for its own columns and those of the first kind, as many as
  `processed` counts. With all of them merged the columns are all there are, and no column was taken twice,
  since tile `t` belongs to CTA `t % GridX` only (`SharesFacts`). `OrderInv` is
  about the queues: until the transposition has run, each begins with it or with
  a wait for it; a kernel runs only while its search is first in a queue; the merge
  is last, when the pool's queues are empty. `TiledTypes` counts the tiles and keeps
  copies of a part from being queued twice. `Tilings` is about a part whose tiled search is
  going on: its output is ranked for the tile selected last, every tile copied has
  its list in `temp`, and with the copies in order only the last may still be
  to come; `SelectionBest` then has the nearest of lists for disjoint sets once
  more. From all this, `FoundInv`: a part whose search is no longer queued has its
  nearest, and the result has all once the merge is done. It is an invariant of the inputs in `Answered` only, and `Answered`
  says nothing of time, so it is stable. That sums of sizes are numbers
  (`FirstFacts`) needs the recursive function `First` to exist, which
  `FirstIs` shows by least elements instead of an induction.

Assumptions: those named `...Assumption` in the modules (empty pointers are not
addresses, ranks fit in the tag word, the program consists of known calls,
labels are smaller than `MAX_LABEL`, graphs have both directions of an edge with
one weight, earlier colors point down to a vertex of that color, stream counts
are positive, compiled capacities cover every k and divide a warp if they are
less, blocks are whole warps, no part
of an index is empty and every distance is less than the greatest number, k at most
1024 in a brute-force search).

Proved without a run of their own, because other checked properties are
stronger or close: `RegistryNeverStale`, `HandlesStable`, `SyncedArrived`,
`SharedOnlyWhenScarce`.

Only model-checked: every liveness property (fairness and ENABLED are beyond
the prover), and `KSmallest` and `TypeOK` of `SelectK` for the radix kernels,
where the places that atomic counters give out must be matched with the
histogram of another pass.

## 7 Findings

Runs that TLC is expected to refute; each states what the repository says of
the program.

1. `NoSelfDeadlock` (`interruptible.hpp:211`). The deleter locks the registry,
   promotes the entry's weak pointer, and may thereby become the last owner of
   a newer token, whose deleter locks the same `std::mutex`. Two concurrent
   `get_token(id)` for one id suffice.
2. `MinimumForest` with weights of both signs (`mst_solver_inl.cuh:212`). The
   gap between -1 and 1 is computed as 0, which stands for "all weights equal";
   the noise is then too large for the other weights. "Preserves weights
   order", says the comment at 242.
3. `Rooted` (`knn_brute_force.cuh:428-440`). With several parts each part's
   distances lie in its piece of `all_D`, and the root is taken, once per part,
   of `res_D`, which the merge overwrites afterwards (490-495): squared
   distances are returned for a metric with a root.

Observed while reading, without a run.

- Cancellation: a cancel before the first use of a thread's token is lost,
  although "any current or next call" is promised (`interruptible.hpp:170`); an
  unclaimed token that outlives its thread interrupts the id's next owner (257).
- Communication: the shift of a tag happens in 32 bits and keeps its lowest bit
  (`ucp_helper.hpp:76`), while `core/comms.hpp:322` filters by tag; ucp
  callbacks drop their status, so that a failed operation counts as delivered
  (`ucp_helper.hpp:67`); after a successful abort the loop of
  `nccl_sync_stream` polls the aborted communicator and may report SUCCESS
  (`util.hpp:113`, against `core/comms.hpp:64-66`); operations stay posted after
  a timeout (`std_comms.hpp:347`); `comm_split` gives the new communicator the
  split's key as its rank (`std_comms.hpp:155-163`).
- Resources: the workspace limit is stored and never passed on
  (`device_resources_manager.hpp:250`); `set_mem_pool` may be torn by a
  concurrent getter (554).
- MST: two edges may get the same altered weight by chance
  (`mst_solver_inl.cuh:175`).
- Selection: `len_i` is ignored by the radix kernels for dense rows, which
  `ivf_flat_search-inl.cuh:238` and `ivf_pq_search.cuh:468` pass; the sort of
  the result looks at the lowest `sizeof(ValT) * 8` bits of what it is given
  (`select_k-inl.cuh:141`); in the warp queues a key equal to the dummy loses its
  index; a CSR row shorter than k in a launch of several blocks merges entries of
  `tmp` nobody wrote.
- Brute force: the copies of a tile go to the stream of the handle's thrust policy
  (`knn_brute_force.cuh:254`); if the user's handle has one when the search begins
  (any earlier primitive that asked for it), they run on the user's stream, before
  or after the selections of the part on its stream of the pool. The comment at
  485-487 counts on "fully serial execution". A tiled search of a part with
  fewer than k elements is filled with `lowest()` and -1 (139-147) and then
  written by a selection called against its invariant; with `global_id_offset` and
  several parts the merge reads past a vector of one translation.
- `get_pairwise_distance` in `stats/detail/batched/silhouette_score.cuh:136-151`
  allocates on a pool stream while the distances are computed on the handle's
  main stream.

## 8 What is not modelled

- Destruction order of statics at exit (registry, manager, memory pools).
- The numerical content of kernels and of collectives: of collectives data moved
  is not represented, only who waits for whom; distances are given numbers.
- In `SelectK`: vectorized loads, the chunks of a batch, `usePrevTopKs` (no
  caller sets it), the heuristic that chooses between radix and warps (both are
  checked on every row instead), the order in which a batch's rows are taken.
- In `BruteForceKnn`: the Haversine kernel and the inner-product variant of the
  distances, which share the control. The sparse search.
- In `MstSolver`, floating-point rounding, edges whose altered weights are equal
  by chance (the test for an invalid number of edges is there for them), and
  graphs without edges, which `solve` refuses.
- Memory allocation failures, except where the manager's control depends on
  them.
- `comm_split` and the MPI communicator; the construction of UCX endpoints.
- Several host threads that use one communicator or one handle: the library
  documents handles as not thread-safe.
- Everything in the last row of the inventory, for the reasons given in
  `PROJECT.json`.
