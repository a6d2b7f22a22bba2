# TLA+ models of DXMT

DXMT implements Direct3D 10, 11 and 12 on Metal for Wine.  The application's calls
are recorded on the threads that make them, encoded into Metal command buffers on
a thread of their own, executed by the GPU and retired on a third thread; shaders
are compiled by a pool of workers.  This directory models the concurrent core of
that machine in TLA+, checks it with TLC on small instances and proves the main
results with TLAPS for every instance.

1. [Inventory](#inventory)
2. [Modules and how they correspond to the code](#modules)
3. [Runs, bounds and what they show](#runs)
4. [Theorems](#theorems)
5. [What is only model-checked, and what is not modelled](#limits)
6. [Plan](#plan)

`PROJECT.json` lists components, runs, theorems and hazards, and maps every
definition that models code to its lines.

## Inventory <a name="inventory"></a>

Paths are relative to `src/src/`.

**Command queue** (`dxmt/dxmt_command_queue.{hpp,cpp}`).  State: a ring of
`kCommandChunkCount` chunks, the counters `ready_for_encode`, `ready_for_commit`,
`chunk_ongoing`, the fences `cpu_coherent` and `frame_latency_fence_`, `frame_count`,
`max_latency_`, `stopped`.  Operations: `CurrentChunk` and `emitcc`,
`CommitCurrentChunk`, `PresentBoundary`, `WaitCPUFence`, `SetMaxLatency`, the loops of
the encode and the finish thread, the destructor.  Called by every front end; calls
the ring allocators, the resource initializer and the encoding context.  Hard: three
threads and the GPU hand chunks over with atomic wait/notify and reuse their slots; a
chunk is counted after it has been published, so the unsigned counter wraps; shutdown
wakes the threads through the same counters.  Correct when no slot is reused early, the
fences never run ahead, the bounds on chunks and frames hold, every chunk is
retired and every call returns.

**Ring bump allocators** (`dxmt/dxmt_ring_bump_allocator.hpp`).  State: a queue of
blocks with fill level, last use and age, under a mutex.  Operations: `allocate`,
`free_blocks`.  Six instances in the queue, two in every D3D11 command list, one in
the resource initializer.  Hard: the coherent sequence number is read before the mutex
is taken.  Correct when memory handed out stays untouched until its chunk is complete.

**CPU fence** (`util/util_cpu_fence.hpp`).  State: one atomic.  Operations: `signal`,
`wait`.  Hard: concurrent signals, wake-ups between load and sleep.  Correct when it
behaves like an atomic, monotone fence and no waiter sleeps past its value.

**D3D12 queue, fence and allocator** (`d3d12/d3d12_command_queue.cpp`,
`d3d12_fence.cpp`, `d3d12_command_allocator.cpp`).  State: per queue the pending
operations, `submitted_batches_`, `has_waited_`; per fence the shared event, the
completed value, the callbacks; per allocator the submission serials and count.
Operations: `ExecuteCommandLists`, `Signal`, `Wait`, `ID3D12Fence::Signal`, the drain
loop, completion callbacks, the readbacks of a retired chunk.  Hard: callbacks run on
the signaling thread, the finish thread or a listener thread, and drain other queues
from there; all queues feed the one command queue.  Correct when each queue keeps its
order, waits hold back what follows them, signals cover what precedes them, no
wait is forgotten and nobody waits for itself.

**Dependency tracking** (`dxmt/dxmt_deptrack.{hpp,cpp}`).  State: access records per
resource, sets of fences, what each fence implies.  Operations: the accesses of each
stage, removal of implied waits, barriers.  Hard: a fixed pool of fences stands for
unboundedly many encoders, and two stages of a render encoder count as two.  Correct
when every two conflicting accesses are ordered.

**Encoding context** (`dxmt/dxmt_context.cpp`).  State: the list of encoders of a
chunk.  Operations: start and end of encoders, merging and reordering in
`flushCommands`.  Hard: a clear, a resolve or a pass moves over everything between it
and the pass it joins; load and store actions change meaning on the way.  Correct when
the GPU computes what the application's order computes and every fence is still met.

**Resource initializer** (`dxmt/dxmt_resource_initializer.cpp`).  State: the batch of
clears and blits in a heap of fixed size, the zero buffer, the upload heap, a sequence
number and a cached coherent value, under a mutex.  Operations: `initWithZero`,
`initWithData`, `flushInternal`, `flushToWait`.  Hard: overflows flush in the middle of
a call; another queue writes what chunks of the first one read.  Correct when a chunk
starts after the contents it needs are written, and does start.

**Resources, renaming and staging** (`dxmt/dxmt_dynamic.cpp`, `dxmt_staging.cpp`,
`d3d11/d3d11_context_imm.cpp`, `d3d11_context_def.cpp`).  State: pools of allocations
with the chunk that frees them, the CPU's name and the encoder's.  Operations: `Map` of
every kind, `allocate`, `recycle`, `tryMap`, `useCopySource`, `useCopyDestination`,
execution and recycling of command lists.  Hard: three owners of an allocation (fifo,
name, command list) on two threads; the CPU's view runs ahead of the encoder's.
Correct when the GPU reads what was written for it and nobody maps what is in use.

**Queries** (`dxmt/dxmt_occlusion_query.hpp`, `d3d11/d3d11_query.cpp`).  State: per
query its state and `VisibilityResultQuery`, per chunk the offsets of the visibility
buffer, the pending queries.  Operations: `Begin`, `End`, `GetData`, the encoder's
offsets and modes, the readback.  Hard: a bracket spans passes, merged passes, chunks
and command lists; results arrive while the application polls.  Correct when an answer
counts the draws of its bracket, an event covers what precedes it, and polling ends.

**Task scheduler and pipeline cache** (`dxmt/dxmt_tasks.hpp`,
`d3d11/d3d11_pipeline_cache.cpp`, `d3d11_pipeline*.cpp`, `d3d11_shader.cpp`).  State: two queues of tasks,
continuations, counts of workers, maps of pipelines and variants.  Operations:
`submit`, `worker_func`, `Get...Pipeline`, `get_shader`, the destructor.  Hard: a task
whose dependency is not ready is left to whoever finishes it, between three mutexes; a
pixel shader is shared by pipelines that different mutexes guard.
Correct when every task runs once, from ready dependencies, and shutdown ends.

**Allocation tracking** (`dxmt/dxmt_allocation.*`), **command list**
(`dxmt/dxmt_command_list.hpp`): data of a chunk, filled on one thread and consumed on
another.  **Presenter, scaler, capture, statistics, HUD**, **shared event listener**
(`winemetal/unix/winemetal_unix.c`): small state machines shared between threads.
**D3D10, DXGI, NVIDIA shims, the rest of the D3D11 and D3D12 front ends**: sequential
translation of API state.  **airconv**: a compiler from DXBC and DXIL to LLVM IR.

The hazards that follow from this inventory are listed, each at its line, in
`PROJECT.json`, with the properties that cover them.

## Modules <a name="modules"></a>

| Module | Models | Proofs |
|---|---|---|
| `CommandQueue` | `dxmt::CommandQueue` with its threads, `Present1`, `WaitUntilGPUIdle` | `CommandQueue_proofs` |
| `RingBump` | `dxmt::RingBumpState` among its users | `RingBump_proofs` |
| `Fence`, `CpuFence` | the abstract fence; `dxmt::CpuFence`, which implements it | `CpuFence_proofs` |
| `PipelineCache` (`MCPipelineCache`: the pipelines) | `task_scheduler`, `PipelineCache`, shader variants | `PipelineCache_proofs` |
| `D3D12Queue` (`MCD3D12Queue`: a symmetry set) | D3D12 queues, fences, allocators | `D3D12Queue_proofs` |
| `DepTrack` | `GenericAccessTracker`, `FenceLocalityCheck`, the passes and barriers of `ArgumentEncodingContext` | `DepTrack_proofs` |
| `EncoderList` (`MCEncoderList`: the kinds of passes) | `flushCommands`, `checkEncoderRelation` | |
| `ResourceInitializer` | `dxmt::ResourceInitializer` and the chunks that wait for it | `ResourceInitializer_proofs` |
| `Timeline`, `Dynamic`, `Staging`, `MCRenaming` | `DynamicBuffer`, `DynamicLinearTexture`, `StagingResource`, the contexts and command lists that use them | `Renaming_proofs` |
| `Queries` | occlusion and event queries, `VisibilityResultOffsetBumpState`, `VisibilityResultReadback` | |

The modules meet at their assumptions.  `CommandQueue` uses its two fences as `Fence`
describes them, and `CpuFence` is shown to be such a fence.  `RingBump` takes from
`CommandQueue` that `cpu_coherent` stays below the chunk being recorded or encoded;
`ResourceInitializer` composes it (`RB == INSTANCE RingBump`) with its own sequence
numbers.  `Timeline` is what `Dynamic` and `Staging` see of `CommandQueue`: chunks are
committed in order and retired in order, their commands destroyed before `cpu_coherent`
is signaled.  `EncoderList` takes from `DepTrack` that a recorded access waits for the
conflicting ones before it.  `D3D12Queue` and `Queries` keep of `CommandQueue` the
chunks in flight.

### CommandQueue

The variables carry the names of the members; `app`, `enc` and `fin` are the program
counters of the application, encode and finish thread, and a step ends at each access
to shared state.  `CommitCurrentChunk` is `Publish` (inside `Flush`, `FlushAndWait` or
`Present`), `Throttle`, `CountOngoing`; `PresentBoundary` is `CountFrame`,
`LatencyTarget`, `WaitLatency`; the encode thread is `EncodeLoop`, `EncodeWait`,
`Encode`, `CommitBuffer`, `ReleaseToFinish`; the finish thread `FinishLoop`,
`FinishWait`, `FinishCompleted`, `FinishReset`, `FinishCoherent`, `FinishRelease`; the
destructor `Stop`, `WakeEncode`, `WakeFinish`, `Join`.  `GpuComplete` is the GPU, which
completes command buffers in the order of their commits.  A chunk's commands are the set
of sequence numbers under which they were recorded, so that a command that survives a
reset, or lands in a chunk of another lap, shows.  `chunk_ongoing` is kept modulo
`Uint64`, because it really wraps: the finish thread may decrement it before the
application has incremented it.  A GPU error is logged and retired like success.

### RingBump

`allocate` and `free_blocks` are relations on the queue of blocks: the loops of the code
become "the longest prefix that may be popped".  The memory behind a block is its
identity, what the caller got is a piece `[block, offset, size, seq]`, and `live` holds
the pieces of incomplete chunks.  `role` chooses who trims: the finish thread, the
committing thread, nobody, or the reset of a D3D11 command list.

### Fence and CpuFence

Each atomic access of `signal` and `wait` is a step of a thread; `compare_exchange_weak`
may fail spuriously.  The refinement hides the program counters: a thread inside `wait`
is waiting for its argument.

### D3D12Queue

A thread is a stack of calls, since a callback that drains a queue may run inside a
signal, inside another drain, or inside the reset of a chunk on the finish thread.  The
frames are: waiting for `mutex_` (`lock`), the drain loop (`drain`), before
`AddCompletionCallback` (`arm`), inside `CommitCurrentChunk` (`commit`, `throttle`,
`count`), before `signalValue` (`post`), running callbacks (`run`), retiring a chunk
(`retire`).  Listener threads are threads named by the wait they belong to.  History
variables record the submission order, what has been handed over and executed, and the
values signaled.  One assumption is stronger than the code: threads take turns filling
the current chunk (`StartRecording`).  Nothing enforces this (see the finding on
`RingNotOverrun`); without it the model would have to describe a data race on the chunk.
The callbacks of a fence are a set, called in any order, where the code calls those of one
signal in the order of their registration: the listener threads call the same callbacks
whenever they are scheduled, and no promise rests on the order.

### DepTrack

The encode thread alone runs this code; what is concurrent is the GPU, which executes the
encoders in any order the fences allow.  A fence set is a set of slots
`id % kParityLane`; `collectAndSimplifyWaits` and the six `access...` functions are
operators from the old tracker to the new one, the ids to wait for and the barrier bits.
`startComputePass` stands for every encoder with one id (compute, blit, clear, resolve,
upscale, present), `startRenderPass` takes two.  `Access` is `track` for a stage,
`Dispatch` and `Draw` are the two `resolve...Barrier` functions followed by a command,
`EndPlainPass` and `EndRenderPass` are `endPass`, with the write of a depth attachment.
The history variable `before` holds, for each id, all ids the GPU is made to execute
first; `need` what the application's order demands.  One resource is enough: trackers are
independent, and encoders that leave it alone are encoders working on others.

Four histories lose the order in the code, and the properties say so instead of hiding
it: an omitted fragment-vertex barrier (`omitted`; the code logs a warning, and no pass
starts after one in the model); a fragment read of what the same pass wrote before
rasterisation, which is not added to `shared_` (`unrecorded`); a write of a render stage
to a resource last written two or more generations ago, whose old fence hides the weak
fence of its lane (`stale`); and UAV writes after reads between `BeginUAVOverlap` and
`EndUAVOverlap` (`Control`, empty in the run).

### EncoderList

`Record` is a start, the accesses and the end of a pass; `flushCommands` starts the two
loops, whose indices are `j` and `i`, and each pair of types that `checkEncoderRelation`
treats in a way of its own is an action that ends in `Related`: what becomes of the two
encoders, and whether the former may be moved on.  `Encode` empties the list.  The passes
are data (`Kinds`), described by what merging looks at: attachments, array length, planes,
accesses per stage.  What the GPU computes is an operator on lists of encoders
(`Outcome`): every texture, buffer and plane holds the operations that made its contents,
and every operation remembers what it saw.  The same operator applied to the passes in
the order of the application is the reference.

Three histories give another result in the code, and are named (`KnownLimit`): a clear of
a buffer compares equal to an empty slot (`ClearOfBufferMistaken`), a resolve is joined to
the pass that drew its source although its destination was used in between
(`ResolveMovedOver`), and what a clear follows is not stored, even if somebody reads it
before the clear from a pass that showed it read-only (`DiscardedBeforeRead`).

### PipelineCache

A caller is a thread in `Get...Pipeline` (`FindPipeline`, `CreatePipeline`), `get_shader`
(`FindVariant`, `InsertVariant`, `SubmitVariant`), back in the constructor
(`SubmitPipeline`) and in `GetPipeline`.  A worker walks through `worker_func`:
`TestDestroyed`, `TakeTask` or `FindNothing` and `Wait`, `BeginTask`, `RunToEnd` or
`RunToDependency`, `Settle` or `Depend`, `PushContinuations`, `NotifyWorkers`, `EndTask`.
Steps end where a mutex is released.  `notify_one` wakes any one waiting worker.  The
destructor is `Destroy`, `DestroyNotify`, `DestroyJoin`.  A pipeline looks at its shaders in
order; one with a mesh (geometry, tessellation) gives up at the first that has no Function,
whatever the state of those behind it (`Ends`, `NotReady`).

The variants of a shader are in a map that only the mutex of the pipeline's class guards,
and pixel shader variants do not name the class.  So two threads may race: `FindVariant`
returns the null pointer another has inserted (`unseen`), or `InsertVariant` inserts the
variant twice, and each thread makes a compiled shader of its own (`Compiled` are pairs of a
variant and a class).  A null pixel shader looks like none: the pipeline is compiled without
it, which `BuiltFromItsShaders` allows for such a variant only (`Shared`).  A map left corrupt
by two insertions at once is not a state of the model.  One history is excepted and named:
the destructor notifies without `worker_mutex_`, so that a worker between its test and its
wait is `missed` and never joined.

### ResourceInitializer

The four `init...` operations are actions; calls that flush in the middle leave their
remaining steps in `todo`, because `commandBuffer()` may block them, and nobody else gets
`mutex_` meanwhile.  The commands of a batch are kept with the resource or zero buffer
they write.  `retainAllocation` and `Fits` are the two ways in which the heap of
commands overflows; the macros then flush and leave their `do { } while (0)`, so that the
initialisation is given up (`dropped`): the properties except those, and hazard and
comment say so.  A clear of a color texture that turns out not to be a render target is
recorded and retained but skipped by `encode`; it counts as dropped too.  `FlushToWaitIdle`, `FlushToWaitPending` and `ReturnFlushed` are
`flushToWait` in `CommitCurrentChunk`; `StartChunk` is a chunk whose wait is satisfied.

### Timeline, Dynamic, Staging, MCRenaming

`Dynamic` is one dynamic resource: `MapDiscard` and `MapNoOverwrite` of the immediate
context, the same in a deferred one, draws, `FinishCommandList`, `ExecuteCommandList`,
`Release`, and the reset of a list (`ResetEntry`, `ResetDone`) on the thread that dropped
the last reference, the application's or the finish thread (`DestroyCommand`).  A slot of
memory holds the set of writes since its last discard.  `Staging` is one staging
resource: copies on the immediate context and in lists, `Map` as a loop of `tryMap`,
`Flush` and `WaitCPUFence`, renaming with its `memcpy`, and the marks `dirty` and
`promote_flush` that decide whether `Flush` commits.  `MCRenaming` puts three applications
over one queue.

Three histories break the promise in the code and are named (`limits`): a deferred
discard of a linear texture is not marked latest, so the name does not follow it
(`forgotten`); a list executed again gives out suballocations already given out
(`reused`); a list that is reset while a later chunk still reads its allocation
(`stale`).

### Queries

The immediate context records draws, passes, brackets and events into chunks; `Flush` is
part of the calls that flush.  `CommitChunkInternal` encodes a chunk by folding
`Encoded` over its commands, merges any subset of the passes that may be merged, and makes
the readback.  `Execute` is the GPU up to the next event, `Finish` and `Issue` the finish
thread.  Draw n lets 10^(n-1) samples pass: the digits of an answer tell which draws were
counted and how often.  Named limits: a query begun twice keeps its first beginning
(`restarted`); a pass merged behind another inherits its counting mode (`bled`); a query
that ends in a chunk without counted draws never gets its value (`missed`); an event
ended in a command list is signaled before the list (`early`).

## Runs <a name="runs"></a>

| Run | Checks | Result |
|---|---|---|
| `command_queue` | `QueueInv`, `NoChunkAliasing`, `CoherentIsComplete`, `InFlightBound`, `FrameFenceIsRendered`, `LatencyBound`, `IdleMeansDone`, `EveryChunkRetires`, `CallsReturn` | holds |
| `ring_bump` | `IInv`, `NoLiveReuse` | holds |
| `cpu_fence` | `ImplementsFence`, `WaitReturns` | holds |
| `d3d12_queue` | `QueueOrder`, `SignalCoversWork`, `WaitIsWatched` | holds |
| `deptrack` | `AssertionsHold`, `ConflictsOrdered`, `GenerationsOrdered`, `BarriersSeparate` | holds |
| `encoder_list` | `ListInv`, `ResultsPreserved`, `ConflictsFenced` | holds |
| `pipeline_cache` | `SchedulerInv`, `BuiltFromItsShaders`, `RequestsAnswered`, `DestructorReturns` | holds |
| `resource_initializer` | `InitializerInv`, `ChunkSeesInits`, `ZerosAreZero`, `UploadIntact`, `ChunksStart` | holds |
| `renaming` | `RenamingInv`, `DrawsSeeTheirWrites`, `EncoderAgreesWithName`, `StagingInOrder`, `MapReturns` | holds |
| `queries` | `QueryInv`, `BracketCounted`, `QueriesAnswered` | holds |
| `d3d12_overrun` | `RingNotOverrun` | violated |
| `d3d12_selfwait` | `NoSelfWait` | violated |

An invariant whose name ends in `Inv` joins the type invariant of its module with what
its other properties rest on: `QueueInv` is the inductive invariant of the proofs
(`IInv`, `FInv`); `SchedulerInv` has `TaskInOnePlace`, `ContinuationIsAwaited` and the
inductive `CacheInv` and `HandsOK`; `InitializerInv` is the inductive invariant of the initializer, with
`PendingRetained`; `RenamingInv` joins those of the dynamic and the staging resource
(`DynamicInv`, with `AllocationInOnePlace`, and `StagingInv`); `QueryInv` has the assertions
of `issue()` and `EventCoversWork`; `ListInv` has `EventsKeepPlace`.

**Command queue.**  Two slots and four chunks: every slot is reused and the throttle
blocks; three frames with latencies 0, 1 and 2 make `PresentBoundary` wait and not wait;
`Uint64 = 8` is above the ring size, and small enough that a counter that drifts is seen.
No slot is refilled while a later stage needs it (`NoChunkAliasing`), what `cpu_coherent`
covers is complete (`CoherentIsComplete`), at most `kCommandChunkCount` chunks are in
flight and the counter leaves its range only for the wrapped -1 (`InFlightBound`), the
frame latency fence covers rendered frames only (`FrameFenceIsRendered`), a present
returns with at most `max_latency_` frames unfinished (`LatencyBound`),
`WaitUntilGPUIdle` returns when everything recorded is done (`IdleMeansDone`), every chunk
retires and every call returns.  With `LatencyRace = TRUE`, `SetMaxLatency` runs while the
application presents: the two reads of `max_latency_` in `PresentBoundary` can disagree
and the unsigned difference wraps, which `LatencyTargetIsAFrame` states.

**Ring bump.**  Blocks of two units, pieces of one and of three (an ad hoc block),
alignments 1 and 2, four chunks, three blocks, lifetime 1: blocks are filled,
skipped for alignment, reused, aged, expired and discarded.

**CPU fence.**  Two signaling and two waiting threads with two values: signals race, one
of them loses its exchange, and waiters are at every point of the loop when it happens.

**D3D12.**  Two queues, one fence, two values, two application threads, a ring of three
and four calls of the application: enough for a wait between two operations, a wait on
either queue with the signal on the other, a callback that comes late, and a ring that
fills up.  The violations need two or three calls:
- `d3d12_overrun`: a second committing thread records into a slot still in flight,
  because the throttle blocks only after the publication;
- `d3d12_selfwait`: a fence signaled between the test of a wait and
  `AddCompletionCallback` runs the callback on the thread that holds `mutex_`.  The second
  conjunct of the property, the finish thread waiting for room in the ring, fails as well
  in longer behaviours.

`D3D12Queue` states three more promises the code does not keep: `FenceSettles` (the
readback of a queue's signal overwrites a newer value signaled by the application),
`ResetAfterFence` (the shared event shows the value before the finish thread has released
the allocator), `AllocatorDrains` (a serial that completes out of order is never
subtracted).  No run is kept for them; replacing the invariant of `D3D12Queue_selfwait.cfg`
by one of them (and `MaxOps` by 4) shows the behaviour.

**DepTrack.**  Four lanes and four parities, 24 ids, four accesses to the resource: ids
reach back over several generations, the ring of readers wraps, a writer has up to three
readers to wait for, and the waits of one encoder imply those of another.
`ConflictsOrdered` and `GenerationsOrdered` together are the argument of the code: the
tracker names the conflicts of the last `kLane` ids, and everything older is before every
encoder anyway.  `BarriersSeparate` is about the commands inside a pass.  Of the order on
the GPU the model assumes that waiting for a fence is waiting for its last update, that an
encoder's update comes after what it waited for, and that the fragments of a draw come
after its earlier stages.  Indeterminate entries of the ring are given an id that
`AssertionsHold` would notice.

**Encoder list.**  All lists of up to four of 21 kinds of passes, about 900,000 states:
four is the least at which a pass is moved over another to be merged with a third while a
fourth depends on one of them.  The kinds cover each row of `checkEncoderRelation`, both
outcomes of each signature test, array clears, one and two planes, and accesses before and
after rasterisation.

**Pipeline cache.**  Two callers; a graphics pipeline and one with a geometry shader that
have a pixel shader in common; a vertex shader whose compilation may fail; one worker and a
second that `submit` adds; about 285,000 states: both pipelines wait for the same shader
while it is being finished, the race for the shared variant has each of its outcomes, the
mesh pipeline gives up early, there are more tasks than workers, and shutdown finds tasks
queued.  The constructor starts two workers; `FirstWorkers` has one, so that `submit` can
add the other.  With two at first and a third added (3 million states) the invariants were
checked once and hold too.

**Resource initializer.**  Four resources of any kind among two chunks; a command heap of
four units, blits of one, clears of two, upload blocks of two with pieces of one and three:
every overflow, growth of the zero buffer, a full upload queue (two command buffers), and
reuse of upload memory happen.

**Renaming.**  Three chunks, two lists, two suballocations, three allocations, three
writes; the application with two lists writes twice into two chunks; the staging resource
has two buffers, three writes and four copies in flight.  1.9 million states.  Lists are
executed twice, reset on either thread, and renaming goes round the fifo.

**Queries.**  Two occlusion queries and the event query, two chunks, two draws, two query
objects or events in all, 616,000 states: brackets overlap, are empty, cross a chunk, and
passes are merged inside them.  A larger instance (20.8 million states) was checked once
and holds too.

**Deadlock** is checked in `command_queue`, `cpu_fence` and `encoder_list`.  The other runs
disable it, because there the application's calls are bounded and it may stop;
liveness properties take its place where they exist, and in `D3D12Queue` the
self-deadlock has its own run.

**Fairness.**  Weak fairness throughout, of threads that are inside a call, of the encode,
finish and worker threads and of the GPU: the operating system runs every runnable thread,
and Metal completes what is committed.  In particular: `CommandQueue`, of the encode
thread, the finish thread, the GPU, the calls begun and the destructor; `CpuFence`, of every
thread inside `signal` or `wait`; `PipelineCache`, of each caller inside a request, each
worker and the destructor; `ResourceInitializer`, of the call that holds the mutex, of the
upload queue and of chunks that may start; `Staging`, of the GPU, the finish thread and a
`Map` that may go on; `Queries`, of the encode thread, the GPU, the finish thread, and of an
application that polls what it has issued, which is what `QueriesAnswered` is about.  No
application owes another call.  `std::atomic::wait` and condition variables are external:
they compare and sleep atomically, and a notification makes them compare again.

## Theorems <a name="theorems"></a>

All are proved without bounds: for every ring size above one, every block size, lifetime,
set of sizes and alignments, every set of threads, workers, pipelines, shaders, command
lists and queues, every number of suballocations.  The bounds (`MaxSeq`, `MaxFrame`, `MaxBlocks`,
`MaxAllocations`...) are constants of the specifications, arbitrary natural numbers.

**CommandQueue_proofs.**  `TypeCorrect`, `Invariance`, `RingSafety`, `CoherentSafety`,
`ThrottleSafety`.  None of the safety properties is inductive: which slots are in use
depends on how far each thread has come.  `IInv` adds `StageOrder` (the four sequence
numbers are ordered, with the offsets of each program counter), `ThrottleOK` (the wrapped
counter is the number of increments minus decrements, and its value at each program
counter bounds the chunks in flight) and `CmdsOK`, `IdsOK`, `BuffersOK` (what each slot
holds).  Chunks in flight are fewer than the ring has slots, sequence numbers less than
that apart have different slots (`SlotInjective`, from division with remainder), so the
slot a thread writes belongs to no other stage.

The second half is about frames: `QueueInvariance`, `FrameSafety`, `LatencySafety`, `IdleSafety`.
`FInv` follows a frame through the ring: a chunk that presents carries the number of its
frame, later frames are in later chunks (`FramesOK`), the signal the finish thread is about
to make, or has made, is that of a chunk at or below the one it retires (`SignalsOK`,
`FrameFenceOK`), and the value the application waits for is the last chunk or the frame
`max_latency_` back (`WaitsOK`).  With `IInv`, which keeps the slots apart, a fence value
reached then stands for chunks the GPU has completed.  `LatencySafety` assumes
`~LatencyRace`.

**RingBump_proofs.**  `Invariance`, `LiveSafety`, `FrontOrder`.  `IInv` says that the value
read before the lock is not above `cpu_coherent`, which is below the current chunk; that
blocks have distinct identities and are ordered by last use; and that every live piece
lies in the filled part of a block whose last use is not before the piece.  A block that
is freed or reused was last used at or before `cpu_coherent`, so no live piece is in it; a
new piece starts at the fill level, beyond every other piece of the block.  Each of the
ways `allocate` can go, and `free_blocks`, is a lemma of its own; `AllocatePreserves` and
`InvCoversLive` are stated for any `coherent` and reused by the initializer.

**CpuFence_proofs.**  `Invariance` and `Refinement`: an exchange that can succeed raises the
value, so it is the abstract `Signal`; leaving `wait` is the abstract `Return`, because what
was read is not above the value; every other step is a stutter.

**PipelineCache_proofs.**  `CacheInvariance`, `BuildSafety`, `ContinuationSafety`,
`SchedulerSafety`.  All that is assumed of the pipelines is that those of different classes
have no variants in common but those of pixel shaders (`CacheAssumption`).  `CacheInv` ties
the two halves of the system together: whoever makes a pipeline holds the mutex of its class
and has passed the variants that do not remain (`MakersOK`); a null variant has a maker
(`VariantsOK`), which would hold the same mutex if it were of the same class, so `get_shader`
returns null only for a pixel shader that another class has in hand (`NullIsShared`); a
pipeline in the map has pointers to all its variants but those (`HandlesOK`); what is left
behind waits for a shader that is made and not done (`ContinuationsOK`); what is settled was
compiled from everything, or given up with a shader that is invalid (`BuildsOK`).  Steps that
touch neither compilations nor dependencies are dealt with together (`QuietWorkers`), and
`notify_one`, `notify_all` and `submit` have a lemma each.

`SchedulerSafety` is about the bookkeeping of the tasks: a task that is submitted and not
done is in exactly one place, one of the two queues, the hands or the buffer of a worker, or
the continuations of a shader, and once done it is nowhere (`TaskInOnePlace`); `running` and
`threads` count the workers.  `HandsOK` is what is missing for induction: at which program
counters a worker has a task or pipelines to queue again, that a variant is made by the one
thread that inserted it for its class, and that nothing is done before it is submitted.  Each action has
a lemma (`...Places`) for the places it takes a task from and puts it in; what it leaves of
the sum of cardinalities is shown once.  The workers are finitely many, as `max_threads`
says.

**ResourceInitializer_proofs.**  `InitializerInvariance`, `InitsBeforeChunks`,
`ZeroBuffersFilled`, `UploadsIntact`.  `ChunkSeesInits` is about a value that was returned
to a chunk long before; `InitializerInv` says why it is still good.  The command buffers
carry consecutive ids from the event's value to the id being filled (`SeqIdsOK`); every init
is dropped, written, in a command buffer or in the lists (`InitsAccounted`), and a call
about to return has emptied the lists (`TodoOK`), so what a chunk sees is covered by the ids
up to the one it waits for (`ChunksCovered`), which are exactly those the event has passed
when it starts.  `ZerosAreZero` needs that the zero buffer in use has a fill ahead of
anything recorded from now on (`ZeroBufferFilled`): a flush moves the fill into a command
buffer that is executed earlier, growth replaces the buffer and records a new fill first.
The upload heap is `RingBump` through `INSTANCE`, with the event as its coherent value: the
initializer's `RB!IInv` is kept by the lemmas of `RingBump_proofs`, because the cached value
trails the event and the event trails the current id.

**Renaming_proofs.**  `StagingInvariance`, `StagingProgramOrder`, `DynamicInvariance`,
`DiscardIsPrivate`, `NameFollowed`, `RenamingInvariance`.

`StagingInv`: what a buffer will hold is its memory and the copies to it in flight
(`StoredAfter`).  A `Map` that goes on at once needs that the two sequence numbers of
`tryMap` cover the copies of the name (`NameTracked`) and that a copy in flight belongs to a
chunk not yet complete (`CopiesPending`): below `cpu_coherent` there is none.  A renaming
needs that a buffer of the fifo has no copy after the chunk that frees it (`FreeUnused`), so
that the `memcpy` lands in memory nobody uses.  While the memory is mapped no copy touches
it in a way that matters (`MappedQuiet`), so the write of the application changes the value
of no copy already recorded.  When the GPU completes a chunk a prefix of the copies moves
into memory and every `StoredAfter` keeps its value, shifted.

`DynamicInv`: `AllocationInOnePlace` is the discipline of the three owners.  Together with
`AllocationsMade` it makes an allocation popped from the fifo, or made new, belong to nobody
else; `Unread` then says that no read in flight is of it, since the chunk that frees an
entry is not before any of its reads, and likewise of the suballocations above the name's
and of what a list being recorded has mapped.  `ListsOK` bounds the suballocations of each
list (what a deferred `MAP_WRITE_NO_OVERWRITE` may reuse) and excludes that a list being
recorded owns the name.  `MemoryKept` states this and `LatestStored`, that the last values
are where the name points, only while no known limit was met (`limits = {}`), like the
property itself; the ownership is proved without that condition.  `EncoderAgreesWithName`
is inductive with the types.  Each of the sixteen operations has a lemma.

`RenamingInvariance` is about the composition that TLC runs: in each application one
resource is used and the other stays as it was made (`OneResource`), for which its invariant
holds at any time.

**DepTrack_proofs.**  `TrackerInvariance`, `TrackerAssertions`, `BarrierSafety`,
`OrderInvariance`, `ConflictSafety`, `GenerationSafety`, for every width of the lanes, every
number of parities from three on, and any number of encoders and accesses.

`TrackerInv` says of each tracker that its ids only grow and stay below the next encoder's,
and that of its ring only the entries up to the cursor were ever written until it has gone
round once, so that the walk of `enumerate` ends at the zero it meets; the assertions of
`access` and of the fences follow.  That the mask of a lane can name `2^kLog2Lane` ids is
proved from the number of subsets of a set.

`BarrierSafety` states that two conflicting accesses of one pass are separated by the barrier
the code raises, or by rasterisation, which orders the stages itself.  `BarrierInv` says which
accesses of a pass the tracker must still know when the next one comes: an access that no
barrier has followed is either of a resource not written yet, or one of a stage before
rasterisation, or one of a fragment stage; in the last case any later access before
rasterisation raises the barrier the earlier one omitted.  Each access function has a lemma.
The theorem assumes `Control = {}`, the default of the build options that let the application
drop barriers (`dxmt_context.hpp:912`).

`ConflictSafety` and `GenerationSafety` say that the GPU keeps the order between encoders.
They follow from `OrderInv`, which `DepTrack_proofs` defines:

- `OrderOK`: the order of the GPU is transitive, and an id of the last turn of the slots
  comes after every id that its full fences, kept in `summary`, stand for (`Covers`).  For a
  new id this is what the loop of `collectAndSimplifyWaits` has to achieve although it waits
  for some of those fences only.  The invariant of the loop is `WalkGood`: after `o` steps the
  full fences among those of the last `o` ids are accessible, and an id whose fence is
  accessible, if the fence is a full one or the loop has still to come to it, is one that the
  waits so far put first.  An accessible fence that is no full one may stand for an id newer
  than the one whose summary named it; slots and windows are compared to show that such a
  fence is never relied upon.
- `GenerationsOK`: each id comes after all those `kLane` or more older.  In each lane the full
  fences hold a weak fence or a strong one of the last two generations (`FencesOK`); an older
  strong fence is what `stale` records.
- `UsersOK`: the tracker still knows each reader since the last write (`ReaderKnown`): it is
  the writer itself, stands in the ring behind at most as many newer ids as its place says, or
  has left the ring because the newest id is a generation ahead (`Remembered`), or the fragment
  stage of its pass is known instead (`Paired`).  `ReadersWait` says why the stages that
  return early, because they accessed the resource already, have their waits.
- `NeedsMet`: each id the application's order demands is in the fences of the stage that needs
  it, or is covered by the generations, or by the fragment stage of its pass.

The walk is a recursive function, so what it computes is proved by induction over its steps.
The theorems of the library for that take a predicate as a parameter; `Induction` is
therefore stated for a set of numbers and derived from the pigeonhole principle of finite sets
(`FS_Injection`: an injection of a finite set into itself is onto); `WalkExists` shows with it
that the recursive function is defined, `WalkCovers` what it returns.  Neither theorem assumes
anything of `Control`.

`BarrierInv` and `OrderInv` were checked by TLC on instances of this module while they were
developed, `OrderInv` on the constants of the run `deptrack` (1 233 331 states); the run lists
the properties they imply.

**D3D12Queue_proofs.**  `SubmissionInvariance`, `QueueOrderKept`, `SignalsCoverWork`,
`WaitsWatched`, for any numbers of queues, fences, values, threads and calls.  The three
properties rest on one invariant, `SubmissionInv`, since each needs the others' parts:

- `StacksOK`: who drains a queue holds its `mutex_`, in one frame of its stack only; calls
  that have others inside are drains, callbacks and the retirement of a chunk.  It makes a
  step of one thread invisible to every other thread at the same queue.
- `PendingOK`, `OrdersOK`: `pending_operations_` is the tail of the order of the calls, and
  each operation before it was handed over or is a wait whose value was reached.
  `QueueOrder` follows.  A mark (`wait_completed`) must therefore be true, which is why
  `FrameValues` has to follow every callback.
- `FenceValues`, `FrameValues`, `FlightValues`: the shared event, `completed_value_`, a Win32
  event, a signal under way, a callback that runs or waits for `mutex_`, and a chunk that was
  executed tell only of values that were signaled.  The fence itself may go back (see
  `FenceSettles`), so the statement is about the largest value signaled.
- `FlightOK`: chunks carry the work of a queue before the signals that follow it, and
  `submitted_batches_` is set once work was submitted; that makes the shortcut of
  `SubmitFenceSignal` safe, and with the order of the GPU gives `SignalCoversWork`.
- `WatchOK`: a wait is armed once, and only then has anybody a callback for it
  (`Seen` implies `Armed`), so a callback just registered has not run; until it runs
  somebody has it, and afterwards somebody is about to lock the queue for it (`Watched`).
  A callback that finds another wait than its own at the front belongs to a queue whose
  front is watched by its own callback.

Each step has a lemma; what most of them share is stated once: what a step may do to the
stacks (`Moved`, `StacksKept`), to the watches (`WatchersMoved`, `WatchesMoved`), to queues
it does not touch (`PendingKept`, `WatchesElsewhere`), and what the popping of a front
(`PopStep`), a change of its flags (`FrontStep`) or neither (`CalmStep`) leaves to prove.
`QueueAssumption` names the threads apart from numbers, because a listener thread is named
by its wait.

## What is only model-checked, and what is not modelled <a name="limits"></a>

Liveness is out of the prover's reach and stays with TLC.  So do the properties that rest
on what a fold over a sequence computes for every length of its input, since that needs
induction over data: the properties of `EncoderList` (the fold `Outcome`) and of `Queries`
(the fold `EncodedChunk`).  `SubmissionInv` is proved and was checked by TLC on the instance
of `d3d12_queue` while it was developed; the run lists the three properties it implies.

The atomics are modelled as sequentially consistent.  In `CommandQueue` each hand-over is a
release increment that the receiving thread reads with acquire, so the data written
before it is visible after it; this argument is not part of the model.

Not modelled in the components above: Metal errors beyond the log message, failed Metal
allocations, frame statistics, the `ASYNC_ENCODING == 0` build, `SetEventOnCompletion`, the
replay of D3D12 command records, timestamps and D3D12 queries, the recording of queries in
deferred contexts, subresource arithmetic, the on-disk shader cache.  The destructor of the
queue drops chunks that were never encoded; `QueueInv` covers that state, no property
demands more.  The shader compiler, the parsers of DXIL and DXBC, the D3D12 translation
and the Metal bridge, by far the most of the repository's lines, are sequential
translation or calls of a foreign interface: what could be said of them is a property of
the data they translate, not of states and steps.  Components without a module are listed
in `PROJECT.json` with the reason.

Noticed while reading, and outside the models:

- `d3d11/d3d11_swapchain.cpp:940`: two swapchains presenting from two threads race in
  `PresentBoundary`;
- `winemetal/unix/winemetal_unix.c:2578`: the listener may be started and destroyed from
  different threads;
- `d3d11/d3d11_pipeline_cache.cpp:200`: the maps are members that may go before the
  scheduler's workers are joined;
- `d3d11/d3d11_context_imm.cpp:18`: `forward_rc` has a second body elsewhere;
- `d3d11/d3d11_context_def.cpp:443`: `FinishCommandList` ends open queries, which erases from
  the map it iterates over and sets `promote_flush` after the list's copy was taken;
- `dxmt/dxmt_staging.cpp:31`: `mapped` is tested and never set;
- `dxmt/dxmt_context.cpp:2859`, `3045`, `2245`: a merged pass has no barrier between its
  parts, the region of a resolve is not compared, an invalid pass is skipped with its load
  actions;
- `dxmt/dxmt_resource_initializer.cpp:290`: an upload buffer that could not be made is used;
- `d3d12/d3d12_fence.cpp:197`, `28`: a failed `CreateEventW`, and the destructor of a fence,
  run callbacks of waits that are not satisfied (the former under `mutex_`, which the
  callback then waits for: the self-wait that `d3d12_selfwait` shows on another path);
- `dxmt/dxmt_deptrack.cpp:30`: a write after a read between `BeginUAVOverlap` and
  `EndUAVOverlap`;
- `dxmt/dxmt_allocation.hpp:16`: `checkRetained` tests and stores in two plain accesses.

## Plan <a name="plan"></a>

Theorems: that the pipeline of `CommandQueue` implements a queue that executes chunks in
order; and the folds of `EncoderList` and `Queries`, for which the induction over sets of
numbers in `DepTrack_proofs` may be a way.

Models, in this order: the life cycle of command lists of both front ends; timestamps and
the recording of queries in deferred contexts; reference tracking (`checkRetained`) and
residency; the presenter, capture and the shared event listener.
