# A TLA+ verification project for LCEVCdec

LCEVCdec decodes LCEVC (MPEG-5 Part 2): it takes base pictures from a conventional
video decoder, the enhancement data that belongs to them, and pictures to write to,
and it delivers enhanced pictures.  This directory holds TLA+ models of its control,
what happens to tasks, frames, pictures and buffers when API calls, worker threads and
tasks interleave, and of its algorithms, from payloads to pels.

Paths below are relative to `src/src/`.

## 1. The system

### Parts

| Part | Source | State it keeps | Operations |
|---|---|---|---|
| API, decoder contexts | `api/src/api.cpp`, `decoder_context.*` | a pool of decoders, each with a lock, a pipeline, pools of handles | create, configure, initialise, send, receive, flush, skip, synchronize, destroy |
| Handle pools | `api/src/pool.h`, `handle.h` | slots with generations, a stack of free ones | allocate, look up, remove |
| Event dispatcher | `api/src/event_dispatcher.*` | a queue of events and a thread that calls the client back | generate, loop, release |
| CPU pipeline | `pipeline_cpu/src/pipeline_cpu.cpp`, `frame_cpu.cpp` | the table of frames, two indexes, FIFOs of base and output pictures, temporal buffers | send, receive, flush, peek, skip, synchronize; the tasks of a frame |
| Vulkan pipeline | `pipeline_vulkan/src/` | the same on a device, with one picture of temporal residuals for all frames | the same; tasks run inside the calls |
| Task pool | `common/src/task_pool.c` | tasks, groups with dependencies, a FIFO of ready parts, workers | add, wait, block, unblock, meet a dependency, defer, destroy |
| Ring buffer, deque, vector | `common/src/ring_buffer.c`, `deque.c`, `vector.c` | bounded FIFO with its own lock; containers | push, pop, try, insert, remove |
| Rolling arena, allocators | `common/src/rolling_arena.c`, `memory*.c` | buffers, and the slots of blocks that are live | allocate, reallocate, free |
| Configuration pool | `enhancement/src/config_pool.c` | the latest global configuration, counted references | insert, pass through, release |
| Bitstream parsing, entropy decoding, transforms | `enhancement/src/` | parser positions, run lengths, command buffers | algorithms over a payload |
| Pixel processing | `pixel_processing/src/` | none | slices of planes, run as tasks |
| NAL unit extraction | `extract/src/extract.c` | none | an algorithm |
| Legacy pipeline, sequencer, decoder | `pipeline_legacy/`, `legacy/` | queues of pictures, sorted container of payloads, own threads | send, receive, flush, skip; decode |
| Diagnostics, threads, utilities, samples, Metal | `common/`, `api_utility/`, `utility/`, ... | | |

`PROJECT.json` lists them one by one, with what is modelled and why the rest is not, and
under `hazards` the places of the code that tests can hardly reach.

### How they interact

* The client calls the API; the API takes the decoder's lock and calls the pipeline.  So
  one thread at a time is inside a pipeline as far as the API is concerned.
* The pipeline puts enhancement data and base pictures into *frames*.  A frame waits in
  `m_reorderIndex` (sorted by timestamp) until `getNextReordered()` takes it, then it is
  in `m_processingIndex` until `receiveOutputPicture()` takes it out and frees it.
* Starting a frame adds *tasks* to the frame's group in the task pool.  Their inputs are
  dependencies: the base picture, the output picture and the temporal buffer arrive by
  `ldcTaskDependencyMet()`, from the API thread or from a task of another frame.
* Tasks call back into the pipeline: `taskOutputDone()` marks the frame done and wakes
  `receiveOutputPicture()`, `taskBaseDone()` pushes the base picture into a FIFO (and
  waits when it is full), `releaseTemporalBuffer()` hands the buffer to the next frame.
* The event dispatcher has a thread of its own, which looks handles up in the pools of
  the decoder and calls the client, who may call the API from there.
* Locks: that of the pool of decoders and one for each decoder, the dispatcher's, the
  task pool's (all of its state), `m_interTaskMutex` (frames' states, processing index,
  temporal buffers), and one in each ring buffer.

### What is hard, and what makes it correct

| Part | Hard | Correct when |
|---|---|---|
| Task pool | a task waits on *one* list, that of its first unmet input, and moves from list to list; its parts end on several workers; it may defer to a new task; adding it is two critical sections; two condition variables serve everyone | no task runs before its inputs; no dependency is met before its producer is done; each waiting task is on the list that will find it; counters are right; each iteration runs once; no wake-up is lost; waits return |
| CPU pipeline | workers run tasks of a frame while the API thread still adds some; the temporal buffer is matched by one thread and handed over by others, partly outside the lock; frames are freed while neighbours refer to them; calls wait with the decoder locked | table and indexes agree; each picture is in one place; a base is not given back while read; the buffer has one holder, the right one; calls return |
| Vulkan pipeline | the order of tasks inside a call; frames share a picture | between calls nothing that can go on is left; residuals are those of the chain |
| API, events | destruction against deliveries and calls; callbacks that call; handles that outlive | events arrive once and in order; locks and pictures agree; calls return |
| Handle pool | stale handles, generations that wrap | a stale handle never reaches another object |
| Ring buffer | many producers and consumers, two conditions | FIFO order; nobody sleeps on work |
| Arena, configuration pool | wrapping and growth; failure half way | slots find their blocks; counts equal users; a failed parse changes nothing |
| Legacy pipeline, threads | queues that drain inside calls; slices and jobs | each frame is enhanced by its own payload; each job runs once |
| Algorithms | boundaries, several numberings, one function in several instruction sets | what was encoded is decoded; all paths agree; writes are apart |

## 2. The modules

| Module | Models |
|---|---|
| `TaskPool` | `common/src/task_pool.c` with worker threads |
| `TaskGraph` | what callers of the task pool rely on: abstract, implemented by `TaskPool` |
| `PipelineCPU` | `pipeline_cpu.cpp`, `frame_cpu.cpp` |
| `FrameTasks` | the tasks of one frame by planes and tiles, and the memory they share |
| `PipelineVulkan` | `pipeline_vulkan.cpp`, `frame_vulkan.cpp` |
| `DecoderApi` | `api.cpp`, `decoder_context.cpp`, `event_dispatcher.cpp` |
| `HandlePool`, `HandleUse`; `HandleTable` | `pool.h`, `handle.h` and their use; a table of live objects: abstract |
| `RingBuffer`; `BoundedQueue` | `ring_buffer.c`; a bounded queue: abstract |
| `RollingArena` | `rolling_arena.c` |
| `ConfigPool`, `ConfigParser`; `StreamState` | `config_pool.c`, `config_parser.c`; one state per stream: abstract |
| `Syntax`, `PayloadWriter`, `Streams` | the same blocks byte by byte, and a writer of them; bit and byte streams |
| `TileLayout`, `TransformUnits` | tiles and chunks, numbering of transform units |
| `Decode`, `Huffman`, `CommandBuffer` | `decode.c`, `entropy.c`, `huffman.c`, the command buffers of CPU and GPU |
| `FixedPoint`, `Transforms`, `Upscale`, `Pixels` | dequantisation, transforms, upscaling, applying, blits, by instruction set |
| `NalUnits` | `extract.c` |
| `LegacyPipeline`, `LegacyThreads` | `pipeline_legacy/`, the sequencer's container; `threading.c` |
| `LegacyDecode`, `LegacyCoding`, `LegacySurface` | the tile decoders, the coding and the pixels of `legacy/decoder/` |
| `MCTaskPool`, `MCPipelineCPU`, `MCLibrary`, `MCEnhancement`, `MCUnits` | instances for TLC |
| `*_proof` | theorems (section 4) |

A definition headed by a comment "Mutant: ..." is a plausible bug: a variant of the
definition that follows it, used to see that a property notices.  Nothing else uses it.

### TaskPool

One mutex guards the pool, so each critical section is one action, and everything the
code does with the mutex released is a state.  A thread asleep on a condition variable is
in a set that a broadcast empties.

| Code | Model |
|---|---|
| `LdcTask`, `LdcTaskGroup` | `task[t]`, `group[g]` (records); a freed block may be reused |
| lists of waiting tasks, one per dependency | `group[g].waiting[d]` |
| `readyParts` | `ready`, a sequence of parts of tasks |
| `addTask()`, `scheduleTask()` | operator `addTask`, used by `GroupAdd`, `PoolAdd`, `AddSlicedDeferred` |
| `dependencyMet()` | `Released`, `GroupAfterMet`, `NeverEnds` |
| `taskThreadWorker()`, `runTask()` | `WorkerSleep`, `WorkerRun`, `WorkerPartDone`, `WorkerCompletion`, `WorkerFinish`, `WorkerExit` |
| `ldcTaskNoWait()`, second half of `ldcTaskGroupAdd()` | `NoWait` |
| the four waits | `WaitStart`, `WaitSleep`, `WaitReturn` over `Satisfied` |
| `ldcTaskPoolDestroy()` | `PoolDestroy`, `PoolJoin` |

The callers' side is what the pipelines do: outputs are allocated after inputs, a
dependency has one producer, a group is blocked before tasks are added, a client waits
only for what the tasks can bring about.  An assertion of the code is a guard, and
separate properties say that it holds where it is reached.

`TaskGraph` has no threads, lists, parts or counters: a task becomes runnable in the very
step that meets the last of its inputs.  `ImplementsTaskGraph` maps the pool onto it.

### PipelineCPU

| Code | Model |
|---|---|
| `m_frames` | `frames[t]`, a record for every timestamp; phase `None` is no frame |
| `m_reorderIndex`, `m_processingIndex` | `reorder`, `processing` |
| `m_basePictureOutBuffer`, `m_outputPictureAvailableBuffer` | `baseOut`, `available`, of `RingCapacity` |
| `TemporalBuffer` | `buffer`: its holder and its description's timestamp |
| `m_temporalBufferDesc.timestamp`, `m_depTemporalBuffer` | `wants`, `dep` of a frame |
| task group of a frame | `added`, `met`, `Needs`: what `TaskGraph` promises |
| a task that waits, or has dropped a lock half way | a member of `busy`; it keeps its worker |
| where the API call has got to | `api` |
| `startReadyFrames()` | `StartFrame`, `Generate`, `RequireBuffer`, `MatchBuffer`, `FindBase`, `StartEnd` |
| `receiveOutputPicture()` | `ReceiveOutput`, `ReceiveTake` or `ReceiveNothing`, `FreeFrame` |

The pipeline does not instantiate `TaskPool`: it uses tasks the way `TaskGraph` describes
them, and `ImplementsTaskGraph` is what justifies that.  The one place where it needs the
insides of the pool, `ldcTaskGroupFindOutputSetFromInput()` reading a group while its
tasks run, is modelled as such (`BaseReaders`).

Abstractions of data: a base picture is named by its timestamp; enhancement data is one
of four kinds (does not parse; without temporal layer; adding to earlier residuals;
starting afresh); the tasks that read the base are one task and its slices, the ones that
need the temporal buffer one `Add`.  `decoded`, `kept` and `strayed` (the temporal buffer
was handed to a frame that had asked for none) are history variables: no action reads them.

### The other components

* `DecoderApi`.  A call is the steps between the locks it takes: that of the pool of
  decoders, then that of the decoder.  The dispatcher's queue, its thread and the callback
  are steps of their own, so destruction can meet a delivery at any point.  `HandlePool`
  is the arithmetic of slots and generations, shared with `HandleUse`, where clients
  present any word as a handle: old ones, zero, forged ones.
* `ConfigPool` composes `ConfigParser`: a payload is a list of what its blocks say, of
  which parsing may stop at any.  `Syntax` is the byte level of the same blocks, checked
  against `PayloadWriter`, which writes a payload for a list of values.
* `LegacyPipeline`.  A call runs alone, so it is one action or, where it drains queues,
  the operators of each queue applied in the code's order (`Extract`, then `doDecode`).  The
  core decoder is the order in which it is told of payloads.  Clients send payloads in any
  order or not at all, and peek, skip and flush as they like.
* `PipelineVulkan`.  There are no workers: a task runs inside the call that met its last
  input.  A call is a first step, the loops that follow from it, and tasks in between.
  A *prudent* client is one that follows the rules stated there; properties that need it
  say so.
* `Decode`, `LegacyDecode`, `LegacyThreads`, `RollingArena`: one action per step of the
  loop or critical section.  The algorithms without state are operators, and
  `MCEnhancement` has a state for each of their inputs.

## 3. What the runs check

| Run | Subject | Shows |
|---|---|---|
| `taskpool_safety` | 3 tasks, 1 group, 2 dependencies, 2 workers | inputs, lists, counters, parts and iterations, over all interleavings |
| `taskpool_live` | 2 tasks that defer, stand alone, have completions | no lost wake-up; `TaskGraph` is implemented; waits return, tasks finish |
| `pipeline_safety` | 3 frames, latency and reorder 2, 2 workers, skip, failures | indexes, pictures, bases, the temporal buffer |
| `pipeline_live` | 2 frames, 1 worker, FIFO of 1, scaled pass-through, flush, synchronize | frames finish, calls return |
| `api` | 2 clients, callbacks that call back, 2 decoders in turn, 2 pictures | locks, handles, events; calls return |
| `library` | seven subjects in turn: handles, ring, configurations, arena, legacy pipeline, Vulkan pipeline, legacy threads | the property of each, and what each implements |
| `enhancement` | twenty-one subjects: decoders, layouts, command buffers, transforms, upscaling, pixels, streams, payloads, tasks of frames | decoded is encoded, layouts are sound, paths agree, writes are apart |
| `pipeline_buffer` | 3 temporal frames, 2 workers | *violation* of `BufferHolderTold` |
| `api_destroy` | a decoder destroyed while its event thread delivers | *violation* of `DestroyedAlone` |
| `arena_overlap` | a block that wraps and exactly fills the gap before the oldest: full looks empty | *violation* of `BlocksApart` |
| `tu_index` | tiles whose last row and last column of blocks are both partial | *violation* of `IndexesAgree` |
| `nal_emulation` | a unit behind a start code of four bytes in a message of user data | *violation* of `EmulationUndone` |

`library` and `enhancement` hold several subjects so that each is one search: the first
state, or the first step, chooses the subject and the others stand still.

The violations are disagreements between the code and what a comment, an assertion or
the interface documentation says; `PROJECT.json` quotes both sides under `findings`.

### Bounds, and why they are enough

* Task pool: two inputs are needed for a task to move between lists, three tasks for a
  chain with a task that joins, two workers for parts to end in either order, and three
  iterations on two workers for a last part that is cut short.  Blocks are reused, so
  runs are not bounded in length.
* CPU pipeline: a hand-over needs two temporal frames, a wrong one needs a third; two
  frames are in flight at a time.  The FIFO of finished bases holds 3 pictures for a
  latency of 2, as `nextPowerOfTwoU32()` gives; the live run has one place, so that the
  FIFO does fill.  Timestamps start at 0 in the safety run, which is also what an unfilled
  `TemporalBufferDesc` holds (a hazard), at 1 in the others, and are distinct over a run,
  as the interface asks of clients.  Pass-through is off in the safety run, as a base without data makes a
  frame whatever the latency is.
* Vulkan: 3 frames, 2 bases, 1 output picture; prudent clients send at most six things,
  others two.
* Legacy pipeline: 2 timestamps, 3 payloads in all (so that one comes again, or late),
  2 bases, 2 outputs, queues of 2 and 1, pass-through disabled; threads: 2 threads,
  2 calls of 0, 1, 2, 3 and 5 items.
* API: 2 clients with 7 calls in all, generations below 32.  Handle pool: 2 slots,
  3 objects, generations below 4, which wrap, and every word with one of them.  Ring: 4
  slots, 4 threads, 5 pushes.  Arena: 2 slots at first, a buffer of 8, aligned to 2, 7
  blocks of 4 and 15: one of 4 takes more than half the buffer, one of 15 just fills a new
  buffer, so that a third is made; both rings wrap and grow.
* Decoding: tiles of sizes where both numberings agree (the others are the finding
  `tu_index`); legacy jobs over reduced and plain signalling, base layer or not, two
  tiles, every way of keeping surfaces.  Command lists of up to 3 (legacy 4) commands with jumps
  of each length of code, 4 and 16 layers; GPU: 3 blocks with 7 plans.
* Frames: 1 and 3 planes, each pair of scaled and enabled levels, 1 and 2 tiles, temporal
  or not, each mode of pass-through: 432.
* Upscaling: stripes of least and greatest pels, the whole range of 16 bits, seven
  kernels, widths from 21 to 69.  Transforms: all lanes of five extremes, units and signs
  of 16 residuals, three sets of step widths.  Applying: pels and residuals at their
  limits, 4 and 16 of them.  Clearing: blocks of 32 in planes of 20 to 70.  Blits: rows of
  15, 31 and 48 pels with padding, NV12 chroma.
* Codes: shapes up to chains of 20 bits; runs of up to 4 symbols of length; payloads of 1
  to 12 bytes in pieces of 0 and 1 to 31 bits.  Parallel decoding: every layer of 6 units
  in two blocks, and tiles of 9 units.
* Extraction: three codecs, two formats, eight sequences of units, three payloads.
  Syntax: 489 lists of up to 12 blocks, chunks of 0 to 3 bytes, cut at each 13th byte.
* Symmetry (tasks, workers, pictures) is used for invariants only.

### Deadlock

It is checked in the safety runs of pool and pipeline.  `pipeline_live` switches it off,
because there the decoder really can stop: with the FIFO of finished bases full,
`taskBaseDone()` keeps its worker and `receiveOutputPicture()` keeps the lock that the client
needs to empty the FIFO.  The liveness properties of that run say that this is the only
way: a frame that has its pictures is decoded, and `receiveOutputPicture()` and
`synchronize()`, which wait for every task of a frame, return, unless all workers (`AllStuck`),
or the worker that gives back the base of the frame waited for (`Starved`), stay in
`taskBaseDone()` for ever.  A FIFO that is full for a while, but that no task waits for,
is no excuse.  In `api`, `library` and `enhancement` clients come to the end of their calls, or a
subject to the end of its input.  The runs that expect a violation stop at it.

### Fairness

Weak fairness only.  Task pool: each worker, and each call an actor is inside, goes on if
it can; the operating system schedules threads, and the functions of tasks return.
CPU pipeline: the call under way and the workers go on.  API: threads run, mutexes are
handed on, and callbacks return.  No fairness is assumed of the client's calls: what waits
for a further call has no promise of ending.

## 4. What is proved

For every value of the constants that the named assumptions of the modules allow.  The
assumptions say what the code says of its sizes (queues hold at least one element, a ring
has a slot, clients and workers are finitely many, model values are distinct); where a
theorem asks for more, it is named below.

A theorem `X == Spec => []Inv` follows from an inductive invariant: the property itself
is seldom inductive, because an action relies on facts that the property does not
mention.  TLC checked every inductive invariant before it was proved.

### Task pool (`TaskPool_proof`)

| Theorem | Property |
|---|---|
| `TypeCorrect` | `TypeOK` |
| `StartsAreMet` | `StartedInputsMet`: no task is queued, run or done before its inputs are met |
| `IterationsNeverLost` | `IterationsAccounted`: iterations done, in hand and queued add up |
| `OutputsAwaitTheirTask` | `UnmetUntilProduced`: a dependency is met only when its task is done |
| `CountsAlwaysAgree` | `CountsAgree`: the counters the waits poll |
| `WaitersAlwaysListed` | `WaitingIsListed`: a waiting task is on the list of an unmet input of its, and on no other |
| `LoopsAlwaysEnd` | `LoopsEnd`: the walk of a list ends, if a program blocks a group only before it adds tasks |
| `NoWakeupIsLost` | `NoLostWakeup`, with one client |
| `PoolImplementsGraph` | `ImplementsTaskGraph`: initial states and steps are those of `TaskGraph` |

* `TypeOK` is not inductive: a worker's actions use the task of its part, so the proof
  adds `WorkerHasPart`.
* `StartedInputsMet`: the code that queues a task checks its inputs; what could go wrong
  is a reference left behind, to a task that is finished and whose block is used again.
  So `StartInv == Freed \/ (Core /\ EndingOK)` says where a reference may be.
  `PartsOK`: queued parts and parts in hand are pieces of tasks that have begun, no two
  overlap, and with the iterations completed they add up, so that when the last one is
  counted no part is left and the worker is alone with its task.  `PoolOK`: a list holds
  waiting tasks of its group, each on one list; a group whose slots are used again has no
  task of the past.  Adding and ending a task are several changes each; the definitions
  take the state as parameters, and lemmas go from one intermediate state to the next.
* `ActiveInv` adds who produces which dependency, `ListInv` that each task waits on the
  list of its *first* unmet input.
* `NoLostWakeup`: a thread asleep has something to wait for.  `WakeInv` adds that each
  thread between `addTask()` and `ldcTaskNoWait()` has its task to itself (`OwnedOK`),
  that a worker there runs the parent, in the same group (`ParentOK`), that the output of a
  finished task is met (`MetOK`), and that a dependency a client waits for is met or will
  be by some task (`PromiseOK`).  With two clients the property is false, as TLC shows:
  `ldcTaskNoWait()` takes a finished task away and wakes no one.  The hypothesis is
  that of the pipelines, which call the pool of a decoder from one thread at a time.
* `PoolImplementsGraph` maps each task to a node; `Settled` says that a task whose inputs
  are met does not wait, and a node is absent when its task is.

### CPU pipeline (`PipelineCPU_proof`)

| Theorem | Property |
|---|---|
| `TypesCorrect` | `TypeOK` |
| `IndexesAlwaysAgree` | `IndexesAgree`: table and indexes name the same frames, in order, within the latency |
| `PicturesAlwaysAccounted` | `PicturesAccounted`: each picture is in exactly one place |
| `BasesHeldWhileRead` | `BaseHeldWhileRead` |
| `BufferAlwaysHasOneHolder` | `BufferHasOneHolder` |
| `ResidualsAlwaysFromPredecessor` | `ResidualsFromPredecessor`: the buffer holds the residuals of the last good frame |
| `HandOverTargetAlwaysLives` | `HandOverTargetLives`: the frame handed to is not freed meanwhile |

`CoreInvariant` is the common ground: what a frame's record may be at each stage
(`RecordOK`), what a busy task has done and what the API call has, how indexes and table
correspond, and that a base was sent for what depends on one.  Pictures add `OutputsOK`
and `BasesOK`; the buffer adds `BufferOK == HoldersOK /\ LatestOK /\ HandOversOK`.
`LatestOK` is needed because a match compares timestamps only: the buffer without holder
bears the time of the latest good frame, and of at most one frame the matching one.  There
is no hypothesis on timestamps.  `releaseTemporalBuffer()` looks at frames that ask for no
buffer too, whose description says 0 (`pipeline_cpu.cpp:939`, a hazard): the buffer of a
frame with timestamp 0 may go to one of them.  `strayed` records it, `BufferInv` promises
`BufferOK` until then and says that it takes a good frame with timestamp 0.

### Ring buffer, threads, arena (`Common_proof`)

* `RingImplementsQueue`: the ring of `size + 1` slots is a bounded queue under a mapping of
  the cells between the two indexes; `NobodySleepsOnWork`: counting sleepers and the woken
  on both condition variables, nobody sleeps while there is work and no one is woken.
* `JobsAlwaysAccounted`: `ThreadsInvariant` relates each thread's job, the results and the
  slice it stands for; that slices are apart and cover the call is lemma `SliceStep`.
* `SlotsAlwaysFindBlocks`: the ring of slots holds the numbers from the oldest on, each at
  `Wrap(index - oldest + back)`, through growth, for blocks of any size.  A block that is
  put at the start of its buffer and ends just where the front was has a slot that looks
  empty: it may be passed over when another is freed, and is all that the property leaves
  out (`hidden`).  It needs more than half of the buffer.  Giving a block back that was
  passed over fails an assertion of `internalFree()`; that, and what a build without
  assertions does then, is not modelled (`MayFree`).

### Handles and API (`HandlePool_proof`, `Common_proof`, `DecoderApi_proof`)

* `PoolImplementsTable`: a pool of handles is a table of live objects, whatever words are
  presented and however often generations wrap.  A generation is odd while its slot is in
  use, and the generation count is even, so it stays so through the wrap; `MadeOK`: of a
  slot, all handles have been made, or those up to its generation.  Nothing is claimed once
  `remove()` was given the handle of a free slot (`misused`): the slot is then on the stack
  twice, which an assertion of `remove()` excludes.
* `LocksAlwaysAgree`, `HandlesAlwaysKept`, `EventsAlwaysDelivered` from `ApiInvariant`: pools
  of each decoder, who is alive, the queue of events against its history, and a
  pigeonhole lemma (there is room for as many locks as pictures).

### Configuration pool (`ConfigPool_proof`)

`ConfigsAlwaysReferenced`: counts equal the users; `PoolImplementsStream`: what frames
see is one stream state that only well-formed payloads change, for any parser.  The
quantisation matrix is the standard one until a block sets one.

### Legacy pipeline (`LegacyPipeline_proof`)

`RoomAlwaysAnnounced`, `DecodesAlwaysDrained`, `AlwaysEnhancedByOwn` and
`AlwaysParsedInOrder`, all for every client: payloads may come late or never, and peeks,
skips and flushes at any time.  The code does lead frames astray (`lcevc_processor.cpp:163`:
the search takes the payload of a later frame when that of its own is missing;
`decoder.cpp:308`: a peek parses ahead), so `EnhancedByOwn` excepts the frames in the history
variable `astray`, and the theorem says that there are no others.  `OwnInv` relates what the
client sent to what is listed, was parsed by a peek, or is decoded: for a frame that is
still to decode and not astray, a payload that can be parsed was sent just when it is in
one of the first two (`DueOK`), and what a peek parsed for such a frame is still what the
core decoder holds (`PeekedOK`).  The invariant takes the queues as parameters, so that it
holds between the two halves of a call.

### Vulkan pipeline (`PipelineVulkan_proof`)

`FramesAlwaysSettle`, for every number of timestamps, pictures, tiles and buffers and every
client, from `VulkanInvariantHolds`.  The invariant has five parts.  `FramesOK`: the tasks
of a frame come in an order in which each waits for an earlier one or for a picture or
buffer from outside (`Follows`), nothing up to the release of the buffer waits for the
output picture, and what has been met accounts for what came (`ClosedOK`): so when base
and buffer are there the first task left can run, and `BaseDone` and `OutputDone` run when
they may.  `IndexOK`: each frame is on one index.  `ChainOK`: a good frame wants the buffer
of the last good one, which is free or whose task of release is still to run, and later
frames want later buffers; this holds as long as `goodInOrder`.  `PicturesOK`: each picture
lent is in one place.  The fifth: between calls no task could run.  The property follows
by the least index of a frame whose release is still to run.  That the generated lists have
the shape is a lemma for each part of the generation, for any number of tiles
(`TemporalGenerated`, `DirectGenerated`, `PassthroughGenerated`).

### Only model-checked

* Liveness under fairness (`WaitsReturn`, `RunnableFinishes`, `FrameFinishes`, `ReceiveReturns`,
  `SynchronizeReturns`, `CallsReturn`) and all that speaks of ENABLED: the prover has no
  rules for them that its backends could use.
* `DecodesEachUnit`, `LayoutSound`, `PathsAgree`, `WritesApart`: what recursive definitions
  compute for every input needs induction over data, and the modules of the algorithms
  declare RECURSIVE operators.
* `ResidualsInChain` of the Vulkan pipeline.

## 5. What is not modelled

* Task pool: the mode without threads, where a task runs inside `scheduleTask()`; failure
  of `addTask()`; null tasks; the values dependencies carry; waits with a deadline.
* CPU pipeline: `enhancementDelay` other than 0 (the search of pending bases compares the
  wrong kind of element); several temporal buffers; sizes of buffers; events; the clock, so a
  wait that times out, which the loop only begins anew; destruction.  In `FrameTasks`,
  failure of allocation, and a monochrome picture whose stream processes three planes.
* API: a pool of decoders that is full, where `api.cpp:64` uses the handle's decoder without
  a check, and destruction with a handle of no decoder (`api.cpp:77`); no property says
  anything of a client that gets there.
* Vulkan: the device and its shaders but for the one that applies commands; layouts.
* Legacy: predicted average and dithering switches, memory of surfaces, the prediction of
  timestamps in the sequencer, whose answer the pipeline overrides.
* Arithmetic of step widths, which `dequant.c` works out with floating logarithms;
  dithering, which is random.
* Everything in the table of section 1 that has no module in section 2.

## 6. What was met on the way

Besides the findings, behaviour of the code that the models have, or had to keep away
from, and that its callers should know.

Task pool.
* `ldcTaskGroupUnblock()` leaves a list that `ldcTaskGroupBlock()` asserts to be empty.
* `ldcTaskDependencyAddMet()` does not count the dependency when it has to make room.
* A wait with a deadline never times out, and without threads the slots of a group do not
  grow.
* `ldcTaskNoWait()` that removes a finished task wakes no one.

CPU pipeline.
* A base picture without data makes a frame whatever the latency is; the assertion on the
  latency holds only with pass-through disabled.
* `requireTemporalBuffer()` publishes what a frame wants before the dependency to meet.
* `synchronize()` passes over frames that are done but whose tasks still run.
* Chroma buffers are sized as luma; a crop is shifted again for each plane.

Vulkan pipeline.
* The builder sets one thread, which gives a pool without workers.  A push on a full FIFO
  of bases therefore blocks the caller for ever.
* All frames share the picture of temporal residuals; a refresh clears it when its frame
  is started, while an earlier frame may still need it; an IDR without refresh does not.
* Null pictures are used when a frame starts before its base, when the first temporal
  frame has no residuals of its own, and when `synchronize(false)` takes a skip back.
* Destruction waits for the tasks of incomplete frames; a frame whose `initialize()` failed
  leaves `goodConfig` set, and the next one waits for its buffer.
* A late frame sets `m_previousTimestamp` back.  A good frame started after it may be
  earlier than the last good one, whose buffer it then asks for; `releaseTemporalBuffer()`
  passes over frames with earlier timestamps, so it waits for ever.  It takes four frames
  and seven calls: TLC found it beyond the bounds of the `library` run, which is why
  `FramesSettle` speaks of it, and of nothing else, as an exception.
* A frame that refreshes may take an anchor nobody uses and be handed that of its
  predecessor as well, later: the second overwrites the first, which is lost.
* A second base sent after the first came back is accepted and never returned.

Legacy pipeline and decoder.
* Streams that peek parsed survive a flush; a flush drops outputs and reports bases done
  without putting them into the finished container; a frame without payload takes that of
  a later one; a base with the invalid timestamp blocks the queue.
* The error of a tile is overwritten by the success of the next; `decodeTile()` ignores the
  failure of `transformCoeffsDecode()`.
* The serial decoder applies command buffers to the top field's buffer whatever the
  field.  `cmdBufferSplit()` divides by the number of entry points, which may be 0; sliced
  application runs one job per thread, so entry points beyond the threads are never
  applied.
* A failed submission of a job is ignored; `threadingWaitJob()` returns -1, which is true,
  for a job out of range.

Parsing and decoding.
* A step width a global configuration leaves out is the one before, although comments
  speak of a default; `parseHDRPayload()` always fails; sizes of chunks are `int16`.
* Signalling without a temporal layer reads a chunk that is null.
* Huffman codes of more than 25 bits are only asserted against; a stream enabled with size
  0 stays uninitialised; reading past the end of a bit stream gives zeroes and succeeds.
* The reset of a GPU command buffer of the same size keeps its current command; buffers
  are never freed; a shift by 64 or more is undefined and taken modulo 64.
* Upscaling narrow planes reads coordinates that wrap; `width >> shift * channelCount` is
  not what it looks like; blits increment the first sample of the caller's description of NV12.

Extraction.
* Removal of a unit that has data before it moves `size - n` bytes, whatever that data
  (`extract.c:322`): it reads as many bytes behind the end of the stream as there are
  before the unit, and overwrites some when these are more than what was removed.
  `NalUnits` has that memory; what counts as the stream afterwards is right.
* Without removal, extraction behind a length prefix overwrites data that
  `extract.c:492` says is not modified; messages of fewer than four bytes wrap `seiSize -= 4`;
  a final `00 00 03` reads one byte past its end.
