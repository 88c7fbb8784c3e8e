# A verification project for cann-on-gpu

cann-on-gpu re-implements the Ascend CANN runtime (`aclrt*`), the operator API (`aclnn*`) and the
collectives (`Hccl*`) on CUDA (`cuda/`) and on Metal (`metal/`), so that a program written for
Ascend links against it unchanged. This directory holds TLA+ models of its concurrent core, of what
its operator kernels read and write, and of how ranks work together; TLC configurations that check
them on small instances; and TLAPS proofs of the main theorems. Paths are relative to the
repository.

1. Inventory of the system
2. Modules, and how they correspond to the code
3. Runs: what is checked, on which bounds, and what it shows
4. Fairness
5. Proofs
6. Disagreements between code and documentation
7. What is not modelled
8. Plan

## 1. Inventory of the system

### CUDA back end

**Caching allocator** (`cuda/src/runtime.cu:11-59`, `struct CacheAlloc`). State: `freeList` (bucket
to free blocks), `live` (address to bucket), one mutex, a switch read from `ACL_NO_CACHE_ALLOC`.
Operations: `bucketOf`, `alloc` (`aclrtMalloc`), `free` (`aclrtFree`). It calls the driver
(`cudaMalloc`, `cudaFree`) with the mutex released, and every operator's workspace comes from it.
Hard: an allocation that misses takes the lock twice, so another thread's calls fall in between; the
blocks are never given back; the lists do not know about devices. Correct when a block has one
owner, none is lost, each is as large as asked for, and the footprint follows the demand.

**Two-phase executors** (`cuda/src/internal.h`, `cuda/src/meta.cu`, all of `cuda/src/ops/`).
`aclnnXxxGetWorkspaceSize` checks the tensors and allocates an `aclOpExecutor`, `aclnnXxx` runs and
deletes it, `aclDestroyAclOpExecutor` deletes one that is given up. State: the executor, its field
`owned` (tensors to delete with it), and eleven file-scope maps keyed by the executor's *address*
for what does not fit. Hard: an address comes back after a delete; an abandoned handle leaves its
entry; each phase has early returns. Correct when a run finds the entry its own first phase wrote,
nothing is deleted twice or while another call needs it, and every path frees what it allocated.

**Streams, events, copies** (`cuda/src/runtime.cu`). One CUDA call each; no state of their own.

**GroupedMatmul** (`cuda/src/ops/matmul.cu:870-960`). State: a function-local static vector of
streams shared by all calls. One GEMM per expert, round robin over the pool, between a fork event
and one join event per pool stream. Hard: the host never waits, so all ordering is by events; calls
of several threads meet on the same pool streams; the first call initialises the pool. Correct when
no GEMM runs before its input, nothing after the call runs before its GEMMs, no two GEMMs share a
workspace slice at a time, and a group that fails leaves no GEMM of its call behind.

**Ranktable rendezvous** (`cuda/src/hccl.cu:60-100`). State: the rank table, an identifier file,
which `tools/hccl-cluster-2node.sh` copies to the other node. Rank 0 writes it; the others poll it.
Hard: a file of an earlier run, a torn or short file, polls that give up before rank 0 writes.
Correct when the ranks that come up share one identifier, and each rank returns.

**Collective operators** (`cuda/src/ops/mc2_ext.cu`, `cuda/src/ops/moe.cu:374-398`). A local
product, a collective and a local tail on one stream per rank; NCCL pairs collectives by order.
Hard: a rank that fails leaves its peers waiting or pairs its next collective with their last.
Correct when every result is the whole sum, concatenation or exchange, or a rank has reported an
error before it.

**Mixture-of-experts routing** (`cuda/src/ops/moe.cu`). Gate, histogram, scan, scatter with atomic
counters, weighted combination, and the gradients, one kernel after the other, threads in any order.
Correct when an expert's entries are exactly its slots and the way back is the way there.

**Convolution algorithm cache** (`cuda/src/ops/conv.cu:76-118`). A map under a mutex released
between lookup and insertion; the first phase sizes a workspace by what it finds. Correct when the
second phase runs what the first one sized.

**Operator kernels** (`cuda/src/ops/*.cu`, several hundred entry points). Families: copies and
layout (`shape.cu`), windows and pooling (`pool_ext.cu`, `shape.cu`), indexing, scatters and
sampling (`index_ext.cu`, `shape.cu`), convolutions (`conv.cu`), reductions and scans (`reduce.cu`,
`sort.cu`, `softmax.cu`), normalisations (`norm_ext.cu`, `layernorm.cu`), losses (`loss.cu`),
element-wise operators and tensor lists (`elementwise.cu`, `compare.cu`, `foreach_ext.cu`,
`inplace_ext.cu`), attention (`attention.cu`, `mla.cu`). The state is the tensors; each entry point
checks shapes and types and picks one of several kernels. Hard: every operator has fast paths
(vectorised, tiled, one warp, one block, streaming) that must agree; strides and offsets; sizes that
are not a multiple of a tile; blocks that reuse shared memory; atomics on one cell. Correct when,
whatever the path, the output cells are the ones the operator's definition names.

**Matrix products and low-precision codes** (`matmul.cu`, `blas_ext.cu`, `quant.cu`, `cast.cu`,
`subfp.cuh`, `hif8.cuh`). Native and fallback paths of the same product share one workspace;
packing, block-scale swizzles, encoders, quantisers. Correct when the paths multiply the same
numbers, no path lays out more than was asked for, and a code is the nearest value.

**Tensor descriptors** (`cuda/src/meta.cu`, `cuda/src/internal.h`). Dims, strides, offset.

**Graph capture** (`aclmdlRICapture*`, `cuda/src/runtime.cu`). Forwards to CUDA; the obligation is
on the operators, which must not allocate while their stream is captured.

**Legacy operators** (`cuda/src/aclop.cu`). Both phases of one operator at once.

### Metal back end

**Streams, events, operators** (`metal/src/runtime.mm`, `metal/src/internal.h`, `metal/src/ops/`).
State of a stream: its command queue and `last`, the last command buffer committed. An operator is
one of three kinds: a kernel that is committed and not waited for; a loop on the host over shared
memory, after a drain of its stream; a kernel on the default queue that is waited for. Copies take
effect at once, events and `aclrtSynchronizeDevice` are no-ops. Hard: all three kinds touch the same
memory, and only the drain orders them.

**Graph capture** (`metal/src/capture.mm`). State: the tape of a stream (`capgraph`) and a graph
that is a tape. Recording clones the tensor descriptors; replay runs the tape's operators again.
Hard: operators without the hook, host copies, a second Begin and a replay may all come between
Begin and End; descriptors are destroyed and others made at their addresses.

**Context** (`metal/src/context.mm`). Pipeline cache and buffer registry under one mutex.

**Collectives, legacy operators, descriptors** (`metal/src/hccl.mm`, `metal/src/aclop.mm`,
`metal/src/meta.mm`). One rank, so a collective is a copy by the host; the others mirror the CUDA
files of the same names.

### Tools

**Decode graph** (`tools/decode_graph/`): one captured decoding step replayed with its inputs
rewritten. **Model container** (`tools/cann_graph.h`). Test drivers, comparison scripts, benchmarks.

`PROJECT.json` lists every component with its status, and under `hazards` what is hard to test, at
the line where it bites and with the properties that watch it.

## 2. Modules, and how they correspond to the code

`PROJECT.json` maps each definition to the lines it models. Every module names the code's own
functions and fields where it can. Definitions whose name starts with `Mutant` are plausible bugs:
replacing the definition after them by one must make a run fail.

| module | models | built on |
|---|---|---|
| `SizeClasses` | the bucket of a request in closed form, on words of `WordMod` values | |
| `BucketLoop` | `bucketOf` statement by statement | `SizeClasses` |
| `DeviceHeap` | abstract: what `aclrtMalloc`/`aclrtFree` promise | |
| `CacheAlloc` | `alloc` and `free` as concurrent steps; refines `DeviceHeap` | |
| `AllocFootprint` | `CacheAlloc` with the history of its peak demand | `CacheAlloc` |
| `Executors` | the two-phase protocol, side maps, `owned` | |
| `CudaStreams` | external: streams and events of the CUDA runtime | |
| `GroupedMatmul` | the host statements of the grouped matmul and the device | `CudaStreams` |
| `MetalStreams` | Metal streams, kinds of operators, capture and replay | |
| `Rendezvous` | the identifier file, the polls, the ranks | |
| `Collectives` | the operators that span ranks, stage by stage | `Rendezvous` |
| `MoeRouting` | the kernels of an MoE layer, thread by thread | |
| `ConvAlgorithms` | lookup, selection, insertion, execution by host threads | |
| `BlockReduction` | the block-wide reductions, warp by warp | |
| `ScatterKernels` | scatters whose threads meet in a cell, access by access | |
| `OperatorCalls` | one operator call in its two phases | |
| `TensorLayout` | descriptors and the arithmetic of flat indices | |
| `ShapeKernels`, `WindowKernels`, `IndexKernels` | copies, windows, indexing as index maps | `TensorLayout` |
| `ConvKernels` | convolutions as sets of links (input, weight, output) | `WindowKernels` |
| `ReduceKernels` | reductions, softmax, sorting, selection, scans | `TensorLayout` |
| `NormKernels`, `LossKernels` | normalisations; losses, and their gradients | `ReduceKernels` |
| `ElementKernels` | element-wise operators, broadcasting, tensor lists | `NormKernels` |
| `AttentionKernels` | every attention path, its gradient, paged and latent forms | `ElementKernels`, `LossKernels` |
| `MatmulKernels` | every path of a matrix product and its workspace, products with addends, `Einsum`'s plan | `LossKernels` |
| `CodecKernels` | codes, casts, quantisers | `MatmulKernels` |
| `BucketLoopProofs`, `CacheAllocProofs`, `ExecutorsProofs`, `GroupedMatmulProofs`, `MetalStreamsProofs`, `ClusterProofs`, `MoeProofs`, `KernelProofs` | theorems | the module named; `Rendezvous` through `Collectives`; `ConvAlgorithms`, `BlockReduction`, `ScatterKernels`, and index maps of `ShapeKernels`, `MatmulKernels`, `WindowKernels`, `IndexKernels` |
| `MCCopies`, `MCDense`, `MCRows`, `MCElements`, `MCAttention`, `MCMatmul` | the calls of each operator family on small tensors, and the definition each is checked against | the family's modules |
| `MCKernels` | composes the families, scatters, block reduction, MoE layer, algorithm cache, size-class loop | all of these |
| `MCCacheAlloc`, `MCExecutors` | small instances for TLC (`Collectives` needs none) | the module named |
| `MCStreams` | the streams of both back ends on a small instance, of which a behaviour runs one | `GroupedMatmul`, `MetalStreams` |

**`BucketLoop`**. `n`, `b` and `pc` are the parameter, the local and the place in the function;
`EnterSmall`, `ReturnAligned`, `ShiftLeft`, `ReturnPower` are its statements. Arithmetic is modulo
`WordMod`, so the align-up wraps as `size_t` does. A request within one granule of the top of the
word wraps to a bucket of 0 bytes: `CoversRequest` excludes exactly these, which no driver can
satisfy (`cudaMalloc` is asked for 0 bytes then).

**`CacheAlloc`**. A step of a thread is one critical section of `mu`, or one driver call, during
which other threads run. `Malloc` is the call; `TakeCached` and `Miss` the first critical section
(`pop_back` or unlock); `CudaMalloc`, `CudaMallocFails` the driver; `InsertLive` the second critical
section (`live[*p] = b`); `Free` the call, which `PutBack` or `NotLive` follows (the critical
section of `free`), and `CudaFree` the driver. `freeList`, `live` are the fields; `driver` is what
`cudaMalloc` has handed out and not taken back, with its device; `pc`, `size`, `ptr`, `ret` are the
locals of each thread; `held` is the program's side: what it was given and has not given back. A
bucket is a parameter with the one assumption that it is at least the request, which `BucketLoop`
establishes. The program frees what it holds and nothing else (no double free, no foreign pointer).

**`Executors`**. `heap` is the set of allocated addresses; *any* free address may be the next `new`
returns, so each reuse of an address happens. `stash` is the side maps; `pending` the handles the
program holds, each with the arguments it was given, the caller's tensors it uses and `owned`. There
is one action per shape of a first phase (nested executor made at once, with or without a temporary;
arguments stashed; views made; nothing kept), its failures, and one per shape of a second phase. The
operators of a shape are alike up to arithmetic, and `MapOf` says which map each uses. `lost` and
`last` are history. One thread runs the program: the maps take no lock, so two threads in them are a
data race with no defined outcome, and a call here is one step.

**`CudaStreams`, `GroupedMatmul`**. `CudaStreams` is external: FIFO queues, kernels that start and
finish, events whose wait refers to the latest record at the time of the *enqueueing* of the wait.
`GroupedMatmul` has one action per statement of the host code (`at` is the statement, `i` its loop
index), so the initialisation of the pool by two threads interleaves as in the code, and the device
runs concurrently. A null stream of a pool that is still being filled is the legacy stream. A GEMM
that fails to launch leaves its group out and the loop goes on, as in the code. A caller is a
program that produces the input on its own stream, calls, and reads the output on its own stream,
once per group list.

**`MetalStreams`**. Variables of the code: `data` (a descriptor's buffer), `mem`, `committed` and
`last` (a stream), `capturing`, `tape`, `graph`. An operator is `y = F(x)` where `F` changes its argument,
so that a missing, repeated or misordered operator leaves a different memory. Next to `mem` the
module keeps `want`, the memory the *program* expects when every call takes effect at once, and
`users`, `order` and `marks`, which say what the program may assume to be over or ordered before. A
call's guard `MayUse` or `HostMayUse` is the program's obligation to be free of races under the
rules it relies on (`Relies`); nothing in it looks at the implementation's queues. That the GPU
completes the command buffers of one queue in order is an assumption about Metal.

**`Rendezvous`, `Collectives`**. `idfile` is the identifier file of each node, whose bytes land
piece by piece (`WriteFile`) and which the launch script copies at any time (`CopyFile`); `at` is
where each process is in `HcclCommInitClusterInfo`. A stale file is there from the start, or not. A
poll takes an identifier only whole, as `fread`'s count is compared in the code. `Join` is NCCL,
external: it returns when every rank has come with the same identifier. One call of a collective
operator is one step of the host (`Call`), which enqueues the stages of its operator and may fail at
any of them, leaving out the later ones, as each `if (st == ACLNN_SUCCESS)` does; the device runs a
rank's stages in order, and a collective takes place when it is at the head of every stream,
whatever call it stands in. Tensors are bags of the terms summed into each block, so a term that is
missing, doubled or of another call shows.

**`MoeRouting`**. One action per thread of each kernel, in the order the stream runs the kernels:
`todo` holds the threads that have not started, so their order is free; the scatter's atomic
addition and its store are two steps. Values are symbolic (which row, which expert, which slot). The
gate's K passes over the scores are stated by what they leave: picks that differ, each best among
what the earlier ones left. The kernels count on `K <= E <= 256` (`used[256]`), which no first phase
checks: it is the program's obligation.

**`ConvAlgorithms`**. A step is a critical section of the cache's mutex, or the choice made between
them with the mutex released. What cuDNN prefers is any algorithm.

**`BlockReduction`, `ScatterKernels`**. The steps are accesses to shared cells: a warp stores its
partial, arrives at a barrier, reads; a scatter thread adds, stores, or reads and
compares-and-swaps. Barriers count the warps that arrived.

**`OperatorCalls` and the kernel modules**. A kernel with one thread per output cell is a function
of the tensors; a call is its two phases. For an operator X, `XAccepts` is what its first phase
requires and `X` (or `XRun`) what its kernel writes, addressed as the kernel does: by the same block
and thread counts, the same loop bounds, the same strides. Each MC module holds the calls made of
its family and, for each, the *definition* the result must agree with (`...Is`), written without the
kernel's decomposition: a sum over the window's coordinates against a loop over the flat index, a
softmax over the visible keys against the tiled pass. Fast and slow paths are separate operators
that must agree with the one definition. Where the code itself does otherwise than its comments say,
`...Is` follows the comment and `...Departs` names the calls whose result differs (section 6): the
`...Compute` properties say that a result is the definition's for *exactly* the other calls, so they
fail both when a call goes wrong that is not named and when a named one goes right. `OperatorCalls` takes the operators `Accepts` and `Result` as
constants, and a call that runs is compared with its definition in the step of its second phase
(the `...Compute` properties are action properties).

Numbers are exact. Integers stand for floats where only sums and products are made; quotients are
pairs or fractions; exponentials are powers of two in fixed point, so that a comparison of
exponentials is exact; a square root or a function of CUDA's library is kept as its argument. The
models therefore say nothing of rounding, and everything of which numbers are combined. Encoders are
the exception: there the nearest representable value is the specification, and `CodecKernels`
follows the code's arithmetic on scaled integers. Integer types have `IntBits` bits and wrap.

## 3. Runs

| run | states | what it shows |
|---|---|---|
| `cache_alloc` | 352 349 | two threads, three addresses, two sizes of different buckets, cache on with one device and off with two: every block has one owner, none is lost, each is large enough, the cache holds no more blocks of a bucket than were wanted at once, and every step is one of `DeviceHeap` |
| `executors` | 352 662 | collective, riding and plain operators together, and operators on tensors: handles kept, run or given up in any order while addresses come back |
| `streams` | 568 395 | CUDA: two threads at once on the pool; one thread that fills it, with lists that wrap around it and an empty group: inputs and outputs are ordered, slices exclusive, and once a caller's stream has drained its calls are over, failed ones too. Metal: kernels, host loops, copies, capture and replay mixed on two streams: memory ends as the program expects; `last` drains the stream |
| `cluster` | 299 600 | two ranks and a process the rank table does not list find each other, or not, and make every pair of calls of the nine operators with failures at any stage: one identifier, results whole or reported, nobody waits but for a rank that reported an error |
| `kernels` | 86 542 | every operator family against its definition; scatters, block reductions, the MoE layer and the algorithm cache with their threads interleaved; the size-class loop on every request, where no bucket is smaller than the request |
| `cache_devices` | violation | with two devices the cache hands out a block of the one that is not current |
| `executors_meshgrid` | violation | giving up a Meshgrid handle deletes the caller's tensors |
| `grouped_race` | violation | two first calls at once use streams not yet created |
| `metal_events` | violation | a program that relies on events reads too early |
| `block_race` | violation | a warp overwrites the result of a reduction another warp has not read |
| `hif8_overflow` | violation | finite numbers above the range are encoded as tiny ones |
| `conv_3d` | violation | a 3-d convolution runs an algorithm its workspace was not sized for |

**Bounds and why they are enough.**

- *Word size.* The ratio of limit and granule of the code (2^20, 2^21) is kept; every branch and
  both sides of every boundary, the wrap-around included, occur in 9 bits. The theorems below hold
  for any word size.
- *Allocator.* The races involve one block and the window between two critical sections; two threads
  meet in it. Two requests of one bucket and one of another show both reuse and misfiling. Three
  addresses let the driver hand an address out again and refuse, and let the count of one bucket be
  passed by one. `MaxUncached` bounds the blocks of a process without the cache, which would only
  repeat.
- *Executors.* Four or five addresses make every free address be reused by every kind of object
  while two calls are pending; two argument values tell whose arguments a run used. `MaxLost` bounds
  the history of leaks and nothing else. The first program holds one operator per shape of the
  protocol, and the others of a shape differ from it in the name of their map alone.
- *GroupedMatmul.* A pool of two streams has a first and a last one, three groups wrap around it,
  and two callers are what a cycle of waits or a shared stream needs. `GMM_NS` is larger in the
  code; no statement depends on it but the loops.
- *MetalStreams.* Two streams and two buffers are the least in which two accesses conflict across
  streams; two operator names bound what is in flight and unknown to be over; `MaxTape` bounds the
  recorded operators. Contents are counted modulo `NVals`; two values tell whether an operator that
  should have run once did.
- *Cluster.* `N = 2` ranks exercise pairing, failure of one and waiting of the other; an identifier
  of two pieces can be torn; `MaxPolls = 1` makes a poll succeed, retry and give up. Two calls per
  job are what mispairing needs: the second's collective of one rank meets the first's of the other.
  More calls only shift it.
- *Kernels.* Extents of 1 to 9 with tiles, warps and blocks scaled down to 2 to 4, so that every
  extent is below, at, above and not a multiple of each of them; strided, offset, broadcast and
  transposed operands; each flag of an operator both ways. Block sizes are parameters of the kernel
  operators, and no statement of the code depends on the constants except through them. The block
  sizes of the scale formats (16, 32, 128) are the code's own, since the layout depends on them.
- *Scatters* have up to four threads with a repeated row, a row out of range and a row nobody
  writes. *Block reduction*: three warps (one leads, one is fast, one slow) and two successive
  calls, since the race is between calls. *MoE*: two tokens, two of three experts each, so an expert
  has none, one or several entries. *Algorithm cache*: three host threads, two calls each, one of
  them 3-d.

Deadlock is checked except where the system stops by itself: `bucketOf` and operators return, and
the programs of `MCStreams` and `Collectives` end (or, with a failed rank, wait: that is what
`EachReturns` and `ReducedOrReported` are about).

**Properties worth knowing.** The allocator's `NothingLost` says that every block of the driver is
in a free list, with a caller, or in the hands of one thread: a leak or a block with two owners
breaks it in the window around `cudaMalloc`. `FootprintWithinPeak` is why a captured decoding step
stops calling `cudaMalloc` once warm. `EntryIsOwn` holds although abandoned entries stay in the
maps, because every first phase *overwrites* (`map[e] = ...`), never inserts if absent.
`FreedOnEveryPath` is an equality, so it finds leaks and frees too many alike; its one variable term
is the set of objects lost by the two leaks the code has. `SlicesExclusive` (grouped matmul) holds
for successive calls on one workspace because the fork event of a call is recorded after the joins
of the one before it. `DrainedIsOver` is what a program needs that frees `out` or the workspace once
it has waited for its stream, whatever status the call returned: the loop goes on after a group that
`gemm_rm` refuses, and the joins come in any case. `CoversRequest` is checked beside
`ComputesBucketOf`, since a loop and a closed form can be wrong in the same way. `LastDrains` is the invariant on which each `[s->last waitUntilCompleted]` of
`metal/src` relies. `ReducedOrReported` allows a failure on one rank to spoil results of *later*
calls on the others, since NCCL pairs by order, but never those before it and never without a
report. `WarpsAgree` holds of `blk_sum` and not of the two other helpers. In `MatmulsCompute`, that
no path lays out more than the workspace is checked together with what it computes, since the
fallback of a declined path reuses the workspace sized for both. `ConvolutionsCompute` compares the
sets of links of forward pass and gradients, so a gradient that visits one tap too many fails
although its value might agree.

## 4. Fairness

Two runs check liveness. `kernels`: weak fairness of the scatter grid (the threads of a launched
grid run to their end, so `GridsDrain`: a compare-and-swap that fails has been overtaken by another
thread that is then done) and of the size-class loop, sequential code (`Terminates`). `cluster`
assumes weak fairness of each process's own steps in the rendezvous, and of nothing else: the file
need not be written in full, nor copied, and the poll's limit is what makes `EachReturns` true. It
lets a process wait in NCCL for one that has returned an error, as rank 0 does for ranks that joined
through a stale file. No strong fairness is assumed: a compare-and-swap or a poll stays enabled
until it is made. The others are checked for safety alone, since nothing in that code promises that
a program goes on. That the waits of a grouped matmul cannot form a cycle is not a property of its
own: a wait binds to a record that is enqueued already, so it follows from the rules of CUDA's
streams whatever the code enqueues.

## 5. Proofs

`tlapm` checks every leaf.

**`BucketLoopProofs`**: `Invariance`, `BucketCovers`, `BucketWaste`, `LoopComputesClass`. For every
word size, limit and granule that satisfy the module's assumptions, the bucket covers the
request (but for one that wraps around) and its waste is bounded. The invariant of the loop is that `b` has not reached twice the
request, so that the next doubling stays within the word. `LoopComputesClass` (`ComputesBucketOf`)
says that the loop returns the closed form `BucketOf`, the least power of two that holds the request.
`b` is always some `Power[k]`, with `Power[k - 1]` below the request. `Power` is a recursive function:
that it exists is shown on a least exponent up to which it would not, and that the closed form finds
a power at all, on powers growing faster than their exponents.

**`CacheAllocProofs`**: for any sets of threads, sizes, addresses and devices, with the cache on or
off,

- `Invariance`: `Spec => []IInv`;
- `TypeCorrect`, `ExclusiveOwnership`, `NoBlockLost`, `RequestsFit`: the invariants `TypeOK`,
  `OneOwner`, `NothingLost`, `FitsRequest` that the run checks;
- `BooksAgree`: `LiveTracksCallers` and `FiledBySize`;
- `Implements`: `Spec => HeapSpec`, that the allocator implements `DeviceHeap`. The refinement maps
  program counters to "none", "malloc" and "free", `size` to what was asked for, and the blocks
  callers hold to the sizes the driver gave them, so that a grant of the heap is a block nobody
  holds, with room for the request, that keeps its size and its owner until it is given up.

No invariant of these is inductive alone. That a block has one owner needs that the two maps agree
(`LiveTracksCallers`, or `free` would file a block somebody still holds) and that lists hold what
their bucket says (`FiledBySize`, or a request would be served too small). `HandState` is what
connects them to the program counter: a thread has a block in hand exactly between the two steps
that hand it over, and between `cudaMalloc` and `live[*p] = b`, while no map mentions the block, its
size is the bucket of the thread's own request. `IInv` is the conjunction; each action has a lemma
that it preserves it, and under them are lemmas on the few operations of maps and sequences. The
assumptions are `BucketAssumption` (`Bucket(n) >= n`), `AddrAssumption` (the null pointer is no
address), `EnabledAssumption`, and that there is a device and a size. TLC evaluates them in every
run.

**`ExecutorsProofs`**: for every program and heap, whatever addresses `new` returns, and whatever
handles are given up but Meshgrid's (whose `owned` holds the caller's tensors, see section 6):

- `OwnEntries`: `EntryIsOwn` and `RunsWithOwnArgs`;
- `NothingShared`: `OwnersDisjoint`;
- `NothingLeaks`: `FreedOnEveryPath`;
- `TypeCorrect`: `TypeOK`.

Entries of abandoned handles are never read, so the invariant says nothing of them. What it adds to
the properties is `HandleOK` (the entry of a handle in the caller's hands names no address of the
handle itself, and names no other object when the operator does not delete any) and `LostApart`
(what is lost is nobody's). Two lemmas carry the proof: `Adds`, that a new handle whose objects come
from outside the heap keeps the invariant, and `Removes`, that a handle that goes keeps it when all
it needed is freed or lost; every action is an instance of one of them. The assumptions are
`AddrAssumption` and `ProgramsAssumption`.

**`MetalStreamsProofs`**: `WaitDrains`, `MSpec => []LastDrains`, for any numbers of streams, buffers
and recorded operators (the module's specification is `MSpec`). The invariant is that the last command buffer of a queue that is not empty
is the one in `last`, and, because replay commits what a tape holds, the type of tapes and graph.
`OrderHolds`: under `Relies = {}`, `MSpec => []ProgramOrder`, also for any contents and any program
that uses a buffer only in the order of a stream or after a wait. The hypothesis is the one of
`streams`; with "events" the statement is false, which `metal_events` shows. The invariant says
that each buffer in use is owned by one stream (`Apart`, `Kept`), that the commands in a queue use
only what their stream owns (`Touching`), and that running them one after the other takes the
buffers owned from what memory holds to what the program expects (`Arrives`, with the memory after
each command as a witness). A command of another stream, or the host, then cannot disturb them. When
a replay appends a whole tape, the witness is the sequence the replay itself defines. Two facts about
such a sequence, that it leaves other buffers alone (`Outside`) and depends on no others
(`Agreement`), and that it exists, are shown on a shortest prefix for which they would not hold
(`Least`). A tape's entries stay as they were called because they hold clones, no descriptors
(`Frozen`); `RefAssumption` says that the two are different things. Before the proof TLC checked this
invariant on the instance of `streams`.

**The footprint** (`CacheAllocProofs`, `FootprintBounded`: `FSpec => []FootprintWithinPeak`). The
proof counts blocks per bucket. The invariant is that the driver's blocks of a bucket together with
the threads that are about to call `cudaMalloc` for it are at most the recorded peak. It needs one
fact more about the moment a thread misses: the free list of its bucket is empty then, so every
block of the bucket is with a caller or in a thread's hands, which is what `Demand` counts. With the
cache off nothing is ever in a list, and the same holds. Finiteness of threads and addresses
(`FiniteAssumption`) is what cardinalities need.

**`GroupedMatmulProofs`**: for any number of callers, calls, groups and pool streams,

- `InputsArrive`: `InputsReady`;
- `SlicesApart`: `SlicesExclusive`;
- `OutputsArrive`: `OutputsReady`;
- `DrainedCallsAreOver`: `DrainedIsOver`.

All four under `FirstCallAlone`: in a program whose pool is empty at the start, one caller alone makes
calls. Without it the code races (`grouped_race`). The invariant follows the order of items in
queues. Each fork record stands behind the kernel that writes the call's input (`ForksBehind`), so
that the counter the device has reached tells which inputs are written (`ForksTell`); each GEMM in a
queue is on the stream of its slice, behind the wait for the fork of its call (`GemmsBehind`),
unless the input is written already. A wait is on each pool stream before the first GEMM is enqueued
(`ForksAwaited`). Two GEMMs of one slice are on one stream, which runs one at a time.

The way back needs three more parts (`OutputsInv`). *Tiles*: `off` is the sum of the groups gone
through (`RowsCounted`), the GEMMs placed so far split the rows before it among them (`CallTiled`),
and they still do once the kernel that reads `out` is placed (`ConsumesTiled`); no kernel of a later
call is placed yet (`Ahead`). *Joins*: a slot has as many join records as the caller has forks, but
for the one its call still owes (`JoinsCounted`); a join record stands behind every GEMM of its call
and of the ones before (`JoinsBehind`), so a counter that the device has reached says that none of
them is left (`JoinsTell`); the caller's stream has a wait for the join of every slot
(`JoinsAwaited`) ahead of the reader (`ConsumesBehind`). *Order*: the reader is ahead of the kernels
that write the inputs of later calls (`ConsumesFirst`), so that a GEMM of a later call, which waits
for its input, cannot run beside it. The statement says nothing of a call that failed (`st`), after
which the program does not read `out`.

**`ClusterProofs`**: `IdentifierWhole`, `OneId`, for any number of ranks and polls and however long
the identifier is. The invariant says that no file has content without a name (`FilesNamed`), that a
rank joins with a whole identifier (`JoinsWhole`), and that a rank is up only with every rank of the
table at the same one (`AllCame`). `PromisesKept`: `ReducedOrReported`, for any number of ranks, any
sequence of calls and any failures. What the streams hold is the stages of the calls made, in order
and without a gap, up to each call's last or to the one that failed (`StagesInOrder`). The ranks
pass the collective of a call together, unless a failure has spoilt it (`Together`): since the
streams are in order, the collectives at their heads are then of one call, although NCCL pairs them
by order alone. The first stage of each stream finds what it needs (`HeadsReady`): its own terms for
a collective, the sum for a bias, the promise for a norm. So each stage that runs leaves the promise
or what the next stage needs (`Delivers`, one lemma per stage). A combine reads the output of an
earlier dispatch, which is where the invariant needs `ReducedOrReported` itself. The sum over the
ranks is a fold; that it is the bag of all terms (`SumOfTerms`) is shown on a smallest set of ranks
for which it would not be.

**`MoeProofs`**: for any numbers of tokens, experts and picks, and any scores (`Sizes`: `1 <= K <=
E`, which the code leaves to the program, and scores that can be compared),

- `GateChooses`: `GatePicksBest`;
- `SlotsOwn`: `SlotsExclusive`;
- `WeightedCombination`: `ExpertsCombined`;
- `GradientsReturn`: `GradientsFollowRoutes`.

`GateInv` says what a token's picks are once its thread has run. Then the invariant follows the
counters (`WordsInv`): during the histogram a word holds how many of the threads that have gone
through picked its expert; during the scan, the sum of the words before it; during the scatter, the
expert's first slot plus the number drawn. Hence slots of an expert are drawn contiguously from its
first (`SlotsInv`), no two entries share one, and, being as many as there are slots, they are a
permutation: this is where the pigeonhole principle for finite sets comes in. The sums are bags over
the threads gone through so far (`WayBackInv`), so that each term is there once.

**`KernelProofs`**:

- `WorkspaceFits`: `ExecutesWhatItSized`, for any number of host threads with 2-d calls and at most
  one with 3-d calls (`One3d`; the run `conv_3d` shows that two are too many);
- `WholeBlock`: `WarpsAgree` of `blk_sum` (`Helpers = {"blk_sum"}`; `block_race` shows the others),
  for any number of warps and of calls. The invariant numbers the barriers a warp has arrived at: no
  two warps are more than one apart, and the number tells what is in each shared cell;
- `StoresSettle`: `OneWriterWins`, for any grid and any index list, duplicates included;
- `ExtremaReached`: a maximum or minimum scatter leaves the extremum of the old value and of all
  written ones. The invariant is that a cell only moves ahead: it reaches the value any thread has
  read, which makes a compare-and-swap that succeeds safe;
- `ScattersLoseNothing`: `ScattersCombine`, that every scatter which accumulates has taken in each
  source element of a cell once when the grid drains. The invariant is that a cell holds what the
  threads that have finished make of it. A compare-and-swap that succeeds finds the very value its
  product was computed from, so one more thread has then finished. That the fold over a set of threads does
  not depend on which comes last, nor on which function satisfies its recursive equation, is shown
  on a smallest set of threads for which it would.

The same module proves index maps of kernels whose threads do not meet, for tensors of any size.
Each takes a flat index apart into digits and puts other digits together, so that the lemmas they
share (`Digits`, `Split`, `ThreeDigits`) are about digits alone:

- `CopiesUndone`, `TurnsUndone`: flip, roll, channel shuffle and rotation lose and duplicate no
  element, for another call of the same kernel undoes them. `TurnsUndone` is about one to three
  quarter turns, the ones that reach the kernel: a rotation by a multiple of four takes another path,
  which does lose elements (section 6). A shuffle is taken to have as many
  channels as whole groups, which the code leaves to its caller;
- `Transposed`: bytes and packed nibbles, the latter for an even number of rows, which share bytes;
- `ScalesRead`, `ScalesNarrowed`: the library finds each row's and block's scale in the tiles
  `k_swizzle_scale` writes, within what was allocated, and a clamped scale is never zero. How the
  library reads its tiles is external (`TileRow`, `TileBlock`);
- `PaddingInside`, `PaddingGradientsLand`: `bfix` never leaves the plane. Its loop for reflection is
  a recursive function; the triangle wave satisfies its equation, and nothing else does, since each
  round brings the place inside or nearer. `padsrc`, which reflects once, agrees with it while the
  padding is narrower than the plane, and not beyond;
- `DiagonalsReturn`: diagonals of either sign stay within the matrix, and are what was put there;
- `BisectionCounts`: bisection of ascending integers finds the place that counting finds. The
  interval that holds the place satisfies the recursion, and by a least wrong interval is all that does.

**Model-checked only.**

- Liveness (`Terminates`, `GridsDrain`, `EachReturns`): fairness and `ENABLED` are
  outside the reach of the prover.
- The kernel operators as a whole (`ShapesCompute`, ..., `MatmulsCompute`): these properties compare
  each operator with its reference on listed calls, most by folds and sums over data. What is proved of
  them for every size is the theorems on index maps above, no more.

## 6. Disagreements between code and documentation

Each of these is a run that ends in a counterexample; `PROJECT.json` quotes the lines.

1. `cache_devices` (`cuda/src/runtime.cu:27`): the free lists are shared by all devices, so with two
   devices a cached block of the other one can come back, which `cudaMalloc` never gives.
2. `executors_meshgrid` (`cuda/src/ops/shape.cu:1080`): Meshgrid files the caller's tensors under
   `owned`, which `internal.h:76` describes as temporary views; giving up its handle deletes them.
3. `grouped_race` (`cuda/src/ops/matmul.cu:881`): the pool of streams is filled after the
   thread-safe construction that `matmul.cu:878` refers to.
4. `metal_events` (`metal/src/runtime.mm:111`): the comment that makes events no-ops (105-106)
   describes a synchronous model, while operators commit and return.
5. `block_race` (`cuda/src/ops/norm_ext.cu:872`, and `row_sum`, 1243): the reduction helpers
   described at 865 as giving a row's value lack the barrier that `blk_sum` has after the read.
6. `hif8_overflow` (`cuda/src/ops/hif8.cuh:33`): a value far above the threshold that line 7 sends
   to infinity becomes a tiny one.
7. `conv_3d` (`cuda/src/ops/conv.cu:402`): the second phase of a 3-d convolution looks its algorithm
   up again; line 149 says of the 2-d path why it should not.

The run `kernels` shows these (files of `cuda/src/ops`). The definition says what the comment says,
and `...Departs` names the calls that give something else, whose result the run finds to differ:

- `shape.cu:886` (`ShapeDeparts`): `Rot90` by a multiple of four quarter turns copies `H` elements,
  the height of one plane, and leaves the others of the output as they were.
- `shape.cu:251` and others (`ShapeDeparts`): line 15 says that inputs may be views; concatenation,
  gathering, flips, rolls and the rest of the later sections read a view's buffer from its start, in
  order.
- `elementwise.cu:593`, `596`, `734` (`ElementDeparts`): operands that are all dense take a path that
  forgets where in its buffer a slice starts, against line 140.
- `elementwise.cu:99` (`ElementDeparts`): floor division of integers rounds to zero, against line 98.
- `norm_ext.cu:1126`, `1217` (`NormDeparts`): with `gradBias` asked for alone, the gradient of the
  weight is written there, against line 1117.
- `pool_ext.cu:422` (`WindowDeparts`): the gradient of the 3-d average divides by the whole kernel,
  the forward pass (`conv.cu:487`) by the cells that are no padding.
- `hif8.cuh:33` (`MatrixDeparts`): line 6 says that ties go away from zero; at 15 midpoints, between
  binades below one, the search takes the value nearer to zero. The run makes 13 of them.
- `quant.cu:614` (`MatrixDeparts`): `DynamicMxQuantWithDualAxis` divides by two scales, of which
  `scaleOut` has the coarse one or, without `scaleOut2`, the fine one; line 613 and the test take it
  for the whole scale.
- `matmul.cu:1411` (`MatrixDeparts`): `QuantGroupedMatmulInplaceAdd` does not add the product to an
  output that is not float, against line 1401. (It also drops the group list that line announces,
  `(void)groupList`, which its name and `tests/test_quant_parity.cpp:381` ask for: the model is of
  one matrix of weights, the only kind it accepts.)

Met while modelling, with no run:

- `pool_ext.cu:108`: the macro for data types returns from the second phase before the executor is
  deleted; it is one of the two leaks `FreedOnEveryPath` names.
- `matmul.cu:1245`: without a communicator `agm_run` takes `M` rows from an input of `Mr`.
- `shape.cu:616`: `ScatterUpdate` divides by the length of an index that may be empty.
- `conv.cu:751`: `QuantConvolution` takes a dilation and a number of groups and uses neither (line
  577 says "groups=1"); the calls have neither.

The models follow the code in all of these; inputs on which the code has no defined outcome are left
out.

## 7. What is not modelled

Whole files: `misc_ext`, `linalg`, `random`, `math_ext`, `optim`, `backward`, `glu_ext`, `rnn`,
`upsample_ext`, `fft`, `gen_ext`, `ssm`, `aclop`, `format` of the CUDA back end; Metal's kernels,
codec and collectives, its context; CUDA graph capture; the decode graph and the model container of
`tools/`; test drivers, scripts and benchmarks. `PROJECT.json` gives the reason per component.

Inside the modelled parts: rounding and transcendental functions; what cuBLAS, cuDNN and NCCL do,
beyond what the code relies on; the native grouped GEMM; Einsum equations with a label of one
operand that the result lacks; 2-d copies and constant queries; freeing what was not allocated; two
host threads in the side maps; GPU faults; the gradient of the transposed convolution; what attention
gives a row that sees no key; floor division by a scalar, and views in the tensor lists.

## 8. Plan

Done: allocator, abstract heap, footprint; executors; grouped matmul; Metal streams and capture;
rendezvous and collectives; MoE layer; algorithm cache; block reductions; scatters; the kernel
families; their runs; the theorems of section 5. Next:

1. **`Capture`** (CUDA): streams with a capture mode, operators that allocate in their second phase
   (`matmul.cu:1228`, `moe.cu:396`, `conv.cu:618`, `blas_ext.cu:226`), the allocator cold and warm.
   Property: a captured sequence replays as it would run.
2. **`MetalContext`**: lookup of a buffer by an interior pointer, against freeing. **Metal
   collectives** as one more way for an operator of `MetalStreams` to run.
3. **`DecodeGraph`**: replay with rewritten inputs, against direct execution, as a client of
   `MetalStreams`.
4. **Legacy operators** as a client of `Executors`.
5. More kernel families, in the order of section 7's list.

New modules share the existing runs: one instance with several programs, as `executors` and
`streams` do.
