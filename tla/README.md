# Verification of the two-GPU Qwen runtime

TLA+ specifications, model-checking runs and machine-checked proofs for the
runtime overlay under `src/runtime/vllm-overlay` (below: `OV`): a patched vLLM
that serves a mixture-of-experts model with recurrent (Mamba/GDN) layers, a
per-layer-embedding (PLE) table kept in RAM and most experts on the CPU, on two
24 GB cards.

The reference is always the code. `PROJECT.json` maps every definition to the
lines it was translated from, lists the hazards of the code, the runs, the
mutants that show each property can fail, the findings and the theorems.

Contents: 1 the system, 2 the plan, 3 the modules, 4 the runs, 5 PLE offload,
6 recurrent-state blocks, 7 CPU experts, 8 the scheduler and its runner,
9 prefix cache and block managers, 10 the model's index arithmetic, 11 what is
proved, 12 what is only model-checked or not modelled, 13 findings.

## 1. The system

| Part | Code | State it keeps | Operations | What makes it hard |
|---|---|---|---|---|
| PLE offload | `v1/ple_offload/{connector,worker,protocol}.py`, `layers/ple_offload_layer.py` | per rank and layer: host buffer, `ready` and `consumed` flags; request queue of one; one CUDA event; ZMQ socket | submit a batch, dummy signal, claim, stage inputs, look up, fan out, publish, copy on the stream | five kinds of process, no lock, flags written by CPU and GPU, CUDA streams run behind the threads |
| Recurrent-state blocks | `v1/core/single_type_kv_cache_manager.py` (`MambaManager`) | block list of each request, sweep start, cached count, reference counts and hashes | estimate, allocate, remove skipped, cache, hit, free | a step in flight reads states the next allocation wants to recycle; blocks leaked until a request ends |
| Other KV managers | the same file: full attention, sliding window, chunked local, ring | cached blocks by key, blocks of a request | longest hit, retention mask, remove skipped, reserve, partial hit | the mask and the lookup are written apart; drafts make the token count optimistic |
| CPU experts | `compressed_tensors_moe/cpu_moe.cpp`, `bridge_cuda.cu`, `cpu_experts.py` | mailbox slots between GPU and CPU pool, generation counters, thread pool | post, compute, answer, run, wake up, stop | GPU kernels and CPU threads spin on shared words; a pool without locks |
| Expert arena | `cpu_moe.cpp`, `stream_v2.py`, `gpu_share.py` | pinned memory slots, owners, table of the kernels, two flags and an event | promote, begin and end a prefill, read by DMA | a slot rewritten while a DMA or a kernel still reads it |
| Streamed prefill | `stream_v2.py`, `stream_stage.py` | raw buffers, bounce buffers, expert maps, stage slots, events | fill, convert, multiply, read the tail, restore borrowed pages | copies run one or two layers ahead of compute on other streams |
| GPU expert cache | `lru_map.py`, `lru_warmup.py`, `compressed_tensors_moe_wna16.py` | expert-to-slot map, ages | look up, admit, evict, copy rows | the map is updated in parallel and must equal its serial definition |
| Scheduler | `v1/core/sched/scheduler.py` | waiting and running requests, computed and placeholder tokens, sessions, encoder inputs, KV loads | schedule, update from output, preempt, abort, resume a session | async scheduling: decisions are made one step before results arrive |
| Model runner, graphs | `v1/worker/gpu/model_runner.py`, `cudagraph_utils.py` | rows, block tables, input buffers, captured graphs | add, update, execute, dummy run, capture, dispatch | its view of a request and the scheduler's are updated by different messages |
| GPU worker | `v1/worker/gpu_worker.py` | CPU worker process, caches | spawn, wait for READY, warm up, shut down | partial start, death of a child |
| Weight offloaders | `model_executor/offloader/*` | prefetch ring, pinned copies | prefetch, wait, join after capture | copy stream against compute stream, eager and captured |
| Model code | `models/qwen3_8_flash_next/**`, `qwen_gdn_linear_attn.py` | recurrent states, ring of raw keys, packed keys, n-gram table | convolve, gate, pool keys, select, look up | positions that speculation moves back, padded rows, index arithmetic |
| MoE routing capture | `routed_experts_capturer.py`, `routed_experts_manager.py` | rows by slot, snapshots | capture, store, answer | blocks are freed and reused between capture and answer |
| Host plan, install, scripts | `qwen38_host.py`, `install_overlay.py`, `scripts/` | none at run time | plan memory, install, launch, measure | arithmetic at boundaries |

How they meet: the scheduler asks the KV managers for blocks and hands a batch
to the ranks; the model runner prepares the inputs on the model stream, submits
the PLE request, replays the captured graph; inside the graph the model stream
waits for the PLE flags, the staged experts and the CPU expert answers; the
results come back to the scheduler a step later when async scheduling is on.

What makes each part correct:

* PLE: a forward computes with its own batch's embeddings, no buffer is written
  while it is read, the handshake never stalls, start-up and shutdown end.
* Recurrent-state blocks: the state a step in flight reads is not given to
  another request, a request holds a bounded number of blocks whatever the
  length of its prompt, and finishing returns them all.
* Other managers: the longest usable hit is found, what it needs is retained,
  nothing in flight attends to a block that was given back.
* CPU experts and arena: an answer belongs to the post it answers; no call's
  frame is touched after it returned; a slot is rewritten only when nobody
  reads it; every routed pair is computed once.
* Streamed prefill, cache, prefetch: a layer computes with its own experts.
* Scheduler and runner: tokens are neither lost nor computed twice over
  preemption and placeholders, and the runner finds what the scheduler planned.
* Model code: every token sees the keys, states and n-grams of its own request.

## 2. The plan

Done: every module of section 3 with its runs; the proofs of section 11. The
order was by what can go wrong most silently: the PLE handshake, recurrent-state
blocks, the arena, the other expert engines, the scheduler and
its runner, the prefix cache, the model's own state.

Left to prove, in this order: the ring of `PrefetchRing`, `LruCache`, the shared
slots of `AsyncScheduler`, the safety of `PleLifecycle`.

## 3. The modules

| Module | Models | Main state |
|---|---|---|
| `PleForward` | what the PLE handshake promises: lockstep forwards, each with its own batch's output (abstract) | finished forwards, what they used |
| `PleOffload` | engine, model threads, streams, request thread and CPU worker of one data-parallel rank | section 5 |
| `PleOffloadProofs` | inductive invariant and proofs of `PleOffload` | |
| `PleLifecycle` | spawning, registration, READY, serving, failures, death of a parent and shutdown of the CPU process, several data-parallel and pipeline ranks | program points of workers and process, mailbox, death pipe, flags |
| `MambaManager` | align-mode arithmetic on a block list: sweep, allocation, estimate, cacheable entries | none |
| `MambaServing` | scheduler, block pool and runner around it; the prompts and the symmetry of its run | section 6 |
| `MambaProofs` | proofs: allocation, running list, reference counts, counters of scheduler and runner | |
| `MambaStateProofs` | proofs: layout of the lists, owners of the blocks a step writes, the states themselves, the prefix cache, how many blocks a request holds | |
| `PrefixHits` | lookup and retention mask of the full, window, chunked-local and Mamba managers; a key is named by the boundary it ends at | none (operators) |
| `PartialHits` | fine-grained hits inside a block: private copies before the forward, with attention and recurrent groups | pool, contents, requests, pending copies |
| `WindowBlocks` | blocks given back behind windows while steps are in flight, slots ahead for a drafter; reserved caps | lists, computed tokens, steps |
| `KvLoads` | loads of a KV connector, asynchronous and synchronous, that fail; recompute and fail policies | requests, pool, transfers, reports |
| `ExpertCall`, `CpuBridge` | a call of the CPU experts and its answer (abstract); the mailbox between GPU stream and server thread, with its proofs | sequence numbers and payloads of slots |
| `CpuPool`, `CpuPoolProofs` | the lock-free thread pool: run, wake-up, items, destruction; proofs | epoch, next, done, program points |
| `ArenaSharing`, `ExpertArena`, `ExpertArenaProofs` | readers against a writer (abstract); promotions against prefills with two flags and an event; proofs | slot map, owners, table, pending DMAs, flags |
| `ExpertSplit` | placement of every expert and the engine that computes each routed pair: hot, GPU share, streamed groups, tail, CPU | maps, slots, shared plan |
| `StreamForward`, `StreamPrefill`, `StreamPrefillProofs` | groups computed in order with their own weights and map (abstract); three streams, reader thread, bounce and raw buffers; proofs | operations of the streams, events, buffers |
| `StreamStage` | two stage slots and borrowed pages of the hot cache | slots, events, snapshots |
| `LruCache` | the serial and the parallel update of the expert map, and the layer that uses it | map, ages, clock, rows |
| `CachedExperts` | hot, LRU, tiered and CPU paths of the WNA16 method, their tables and page layouts | maps, rows, pages |
| `PrefetchRing` | the weight offloader's ring in eager forwards, captures and replays | buffers, events, copies in flight |
| `AsyncScheduler` | passes under both policies with drafts, padding, preemption, resets and deferred frees; the runner's rows and tables against them | queues, requests, flights, rows |
| `StreamingSessions` | sessions whose prompt comes in inputs | session requests, queues, runner rows |
| `EncoderInputs` | encoder inputs, their budget and cache, chunked and whole | cache references, steps, runner's outputs |
| `RoutedExperts` | routing rows from the capture on a rank to the client's answer | rows by slot, snapshots, buffers |
| `SpecBatches`, `ShortConv`, `GdnForward` | batches with drafts over state rows; the PLE short convolution; the gated delta net | lengths, accepted drafts, states of slots |
| `NGramLookup` | n-grams before a chunk, on the CPU process and on the GPU, and their table in parts, pages and ranks | requests' tokens; table parts |
| `QsaMetadata`, `QsaRing`, `QsaRingProofs`, `QsaSelect` | quasi-sparse attention: rows, slots and work items of the metadata kernels; ring of raw keys and packed keys; proofs; scores, top blocks and attended tokens | batch; ring and packed keys; selection |
| `GraphDispatch` | capture list of CUDA graphs and the graph a batch runs with | configuration, captured graphs |
| `MCExperts`, `MCEngine`, `MCCache`, `MCModel`, `MCLive` | suites: several components or instances in one run | `part` and the variables of each |

A suite is one behaviour per component: `part` is chosen at the start, the
next-state relation of that component runs, the variables of the others are
`Off` or rest in their initial state. The components of a suite do not interact
in the models, so this loses nothing; it keeps the number of runs small. The
constants of an instance are in the suite's module, next to its variables; each
instance's assumption is checked by `ASSUME Instances`.

## 4. The runs

| Run | Checks | Question and bounds |
|---|---|---|
| `ple_async` | `IInv`, `HandshakeSafe`, `SourceStable`, `ImplementsPleForward` | two batches in flight; 2 ranks, 2 layers, 2 start-up forwards, 4 batches |
| `mamba_serving` | `RunningListed`, `RefCounts`, `HeldBound`, `StateExact`, `CacheExact`, `EstimateCovers`, `WritesOwned`, `CountersAgree` | prompts of 9 and 5 tokens and three new ones, blocks of 2, 4 tokens a step, one draft, 6 blocks, two steps in flight |
| `expert_arena` | `MapsAgree`, `TableExact`, `DmaReadsPlanned`, `ShareStable`, `ImplementsSharing` | 2 layers, 4 experts of which 3 are in the arena, one protected, two prefills in flight, 3 forwards |
| `experts` | `FrameAlive`, `ItemsOnce`, `BuffersExact`, `LruExact`, `EachPairOnce`, `ImplementsExpertCall`, `ImplementsStreamForward` | section 7 |
| `engine` | `StepsMatch`, `SessionsKept`, `EncoderHeld`, `RoutingExact` | section 8 |
| `cache` | `HitsExact`, `WindowsHeld`, `LoadsExact` | section 9 |
| `model` | `OpenGroupKept`, `VisibleExact`, `QsaExact`, `StatesExact`, `LookupsExact`, `DispatchExact` | section 10 |
| `live` | `LifecycleSafe`, `LifecycleEnds`, `AllComplete` | what must eventually happen, under the fairness below |
| `ple_queue_full`, `ple_event_rerecorded`, `ple_shutdown_hang`, `session_lost` | `QueueNeverFull`, `EventOfRequest`, `ShutdownEnds`, `InputCommences` | counterexamples, section 13 |

Where deadlock is not checked the system really may stop: a part of a suite
ends or reaches the bound of its counters, `expert_arena` ends with its last
forward, two PLE batches in flight can block each other (section 13).

Fairness. Threads of the operating system, processes and CUDA streams are
weakly fair: a spin loop polls, a stream executes what is enqueued once its
wait is satisfied. The engine loop goes on with passes and updates while there
is work; the executor reacts to a worker's failure.
Nothing forces clients, failures, or a forward or shutdown nobody asked for. Of
the time-outs only those of the two five-second joins in
`PleOffloadWorkerHandle.close` are forced (`Terminate`, `Kill`), and only in part
`lifecycle` of `live`: the call returns after five seconds whatever the process
does. Part `untimed` is without them, so what it shows needs no time-out at all.
The waits for READY, for the request thread and for a claim may time out and
need not; `ForwardsComplete` allows for the last, since a slow worker can always
cause it.

## 5. PLE offload

### The handshake

`PleOffload` is one data-parallel rank: an engine, the model thread and the CUDA
model stream of each tensor-parallel rank, the request thread of rank 0 and the
CPU worker. Every statement that touches shared memory is an action of its own.

| Variables | Code |
|---|---|
| `hpc`, `hlayer`, `prepared`, `launched`, `stale` | model thread in `execute_model`, `_dummy_run`, `_launch`, `signal_dummy_outputs`; `_qwen38_stale_ready_possible` |
| `queue`, `tpc`, `request`, `event`, `inputs` | `_request_queue`, `_request_loop`, `_input_ready_event`, shared input buffers |
| `pipe`, `wpc`, `batch`, `wlayer`, `target` | ZMQ socket, `busy_loop`, `_handle_requests` |
| `ready`, `consumed`, `buffer` | pinned host memory of each rank and layer |
| `gpc`, `glayer`, `current`, `finished`, `device`, `used` | the model stream in `_ple_offload_host_copy_impl` |

A batch is represented by its number in every buffer, so "fresh" means "carries
the number of the forward that reads it". Start-up forwards (profile run, graph
warm-up and capture) have numbers up to 0. The engine's pipelining (`Issue`) and
the all-reduces that hold ranks together (`EndForward`) come from outside `src/`
and are modelled from how the code uses them.

The D2H copies read the runner's device buffers when they end, the CUDA event is
whatever recording is latest when `wait_event` is called, and `put_nowait` on a
full queue stops the model thread: these are the places where the order of the
five processes shows.

Two ranks and two layers are the smallest instance where the loops over targets
and layers have a first, a next and a last element and where a rank can lag
behind; each flag goes through every value twice in four batches; two start-up
forwards leave one flag set and one reset.

### The lifecycle

`PleLifecycle` is the start and the end of the CPU process: `spawn_ple_offload`
on the spawner, registration of every tensor-parallel rank of every
data-parallel rank, READY or FAILURE on the pipe, serving with one request in
flight per data-parallel rank, crashes, and `Worker.shutdown`. One flag pair per
target stands for all layers. In `live` two ranks make two forwards, with one
fault at any point; two forwards leave both values of a target's flags behind,
and a shutdown can come during either. `LifecycleEnds` says three things. Without
any time-out start-up ends (`StartupEnds`), and a shutdown that begins between
forwards does (`IdleShutdownEnds`). A shutdown at any other point may meet a CPU
process that does not leave by itself and ends with the time-outs of the joins
(`EndsUnlessOrphaned`; the mutant `JoinsForever` takes them away), with one
exception that the property names: the process is gone, and a worker synchronises
a stream that waits for its flag. That exception is the counterexample of
`ple_shutdown_hang`.

The executor is modelled from how the worker's methods are called. A death pipe
inherited by another fork of the spawner is not modelled. After READY nothing
watches the CPU process; the model lets it fail there too.

## 6. Recurrent-state blocks under the scheduler

`MambaManager` has no variables: it defines, on the block list of one request,
the sweep of states no longer read (`Swept`), the allocation (`Shifted`,
`NumNew`, `Allocated`), the estimate it is admitted on (`Estimate`) and the
entries that become cacheable (`Filled`).

`MambaServing` composes it with the scheduler, the block pool and the model
runner:

| Variables | Code |
|---|---|
| `pool`, `content` | `BlockPool` reference counts and hashes; what GPU memory really holds |
| `phase`, `cursor`, `budget`, `preempted`, `step` | where `schedule()` is and its local state |
| `running`, `req` | `self.running`; the `Request`: tokens, computed, placeholders, drafts, in-flight and stale counts |
| `flights` | dispatched steps whose output is not processed |
| `mgr`, `fresh` | `req_to_blocks`, `_state_sweep_start`, `num_cached_block`, `cached_blocks_this_step` |
| `worker` | block table, position, state index and bias of a request in the model runner |

A pass is `StartPass`, one of `SkipRunning`, `Grow` or `PreemptLast` per running
request, `EndRunning`, `Admit` per waiting request, `EndAdmission` and
`Dispatch` (or `DispatchNothing`). Outputs come with `UpdateGone`, `UpdateChunk`
and `UpdateTokens`, one request at a time. `Arrive` and `Abort` are the clients'.

Abstractions, and what they cost:

* A state is the prefix it summarises (`After(r, n)`); tokens are counted, not
  named. Prompts share their first `Common` tokens.
* The GPU executes steps in dispatch order on one stream, so a step's effect on
  memory is part of `Dispatch`. What the scheduler may know of it is not: that
  comes with the update. The runs therefore cannot show a race of the copies
  with the forward of one step, which one stream excludes.
* The order of waiting requests, how far the attention layers' cache limits a
  hit, and which free block is taken are left open: more behaviours than the
  code has.
* The block tables, state copies and the async scheduler's placeholders are
  code outside `src/`; they are modelled from the calls in `model_runner.py` and
  `scheduler.py`.

In `mamba_serving` there are several chunks of two blocks each, a shared prefix
of two blocks, hits in the same and in later passes, a sweep behind a step in
flight and a tight `HeldBound`; then rejected drafts at block boundaries,
speculative blocks moved, preemption and resumption with a hit on the request's
own states, stale outputs. Part `mamba` of `live` has requests that cannot both
run in three blocks and preempt each other. Blocks of two tokens put every
position within one token of a boundary, and three new tokens allow a decode
whose draft is rejected and another behind it. Symmetry is used for blocks in
the safety run; they occur only as interchangeable values.

`HeldBound` is the subject of `src/benchmarks/2026-09-28/README.md`: the state
blocks of a long prefill are released while it runs, not when it ends. The
mutant `NoStateSweep` is the behaviour before that change and exceeds the bound.

An observation: the wait of a preempted request for its stale outputs
(`MayResume`) changes no behaviour at `Depth` 2, because the pass that preempts
admits nobody and the oldest step is processed before the next pass.

## 7. The CPU experts and what feeds the GPU's

* `CpuPool`: three threads (the caller is thread 0), calls of up to three items,
  two calls, then the destructor. `count` below, at and above the number of
  threads. `FrameAlive`: nobody touches the function of a call that has
  returned; `ItemsOnce`: each item once, and a call returns only when all ran.
* `CpuBridge`: three layers, sequence numbers of four per counter value, four
  forwards of either kind, decode slots per layer and the one big slot. It
  implements `ExpertCall`.
* `ExpertArena`: the flags `prefill_active` and the server's own, the completion
  event, the move of an expert into the slot of a victim map entry by map entry,
  prefills whose DMAs run behind the host. The scores that choose candidates are
  left open: any candidates. It implements `ArenaSharing`.
* `ExpertSplit`: two ranks with eight experts, one rank with CPU chunks, and
  every short ranking of five experts over two layers. `CachedExperts`: all
  modes on two ranks, and on one rank with the mode `cpu`: without the hot-only
  mode the CPU experts register no owned set, so two ranks with expert
  parallelism would both compute them; the model restricts that mode to one
  rank.
* `StreamPrefill`: two arena groups and one tail group per layer, three layers
  over two bounce buffers, four steps; and without a tail. The optional
  synchronisation after a step (markers) is left out.
* `StreamStage`: four and five layers over two slots, so that the slot of a
  layer changes from step to step with five.
* `LruCache`: two slots whose ages wrap after four values; and the two kernels
  compared on every state of a three-slot map. A slot whose age is exactly the
  greatest value ties with protected slots (`lru_map.py:36`); `tied` remembers
  it, and the agreement is claimed when the parallel kernel does not fall back.
* `PrefetchRing`: eager forwards and full CUDA graphs; a piecewise graph's
  wrapper is outside `src/`. A group in each direction, a distance of three, and
  two shapes of buffers.

## 8. The scheduler and its runner

* `AsyncScheduler` (and its model runner): four instances, two requests with a
  draft and deferred frees; three by priority; one that is preempted and reset
  with three steps in flight; rows padded for two drafts. Block allocation is an
  open choice; the placeholders of the async scheduler are an override outside
  `src/`. What a running request is to compute is counted once, before its blocks
  are allocated (`CountedTokens`): tokens that a preemption gives back meanwhile
  are for the requests behind it. LoRA, connectors, structured output, the input
  budget with its slots for parallel drafting and `long_prefill_token_threshold`
  are left out.
* `StreamingSessions`: the base scheduler's sessions; `RowsSuffice` is checked
  only for clients that wait for their turn (section 13). `SessionsKept` says
  with one step in flight (`sessions`) that every session keeps its tokens, its
  inputs and its place in a queue, and with two (`overlapped`) that it does until
  it is preempted, and that only one its own stale output stopped leaves the
  queues. What then becomes of it is the run `session_lost` on the same instance:
  its next input never commences.
* `EncoderInputs`: requests only prefill, and the output of a step may finish one
  that was preempted meanwhile; the cache manager is outside `src/`.
* `RoutedExperts`: what a pass contains, preemptions and the budget are left
  open; padded admissions are not modelled. `_re_block_ids` of an aborted
  request is never removed (harmless but for memory). Tokens loaded by a KV
  connector have no routing rows. Of a capture only what the first
  tensor-parallel rank's buffer holds is promised.

## 9. Prefix cache and block managers

* Parts `lookup` and `retention` of `cache`: `PrefixHits`' lookups on every
  content of the pool for every manager, alignment and limit up to 12 tokens;
  every retention policy for every cut of a prefill up to 16 tokens. `ChunkHit`
  assumes that the chunk is a multiple of the block. With a retention interval
  of 0, a drafter and alignment equal to the block size the replay of an
  identical prompt cannot hit: its last boundary is dropped by design.
* `PartialHits`: two prompts of seven tokens and one of eleven, blocks of four
  hashed by two; the block pool is outside `src/`.
* `WindowBlocks`: all five kinds of group admitted with hits of several lengths;
  one request that may be preempted or fail to get a block at any time, an open
  pool. A second instance (`window ahead`) takes slots ahead for the drafter
  (`num_lookahead_tokens`); a list may then hold the blocks of those slots more
  than its cap. The cap's formulas and `allocate_slots` are outside `src/`,
  `max_in_flight_tokens` is assumed to cover the steps in flight.
* `KvLoads`: tokens are counted in blocks, one step is in flight, three
  requests of which two load; zeroing is not checked for synchronous loads.

## 10. The model's index arithmetic

* `QsaRing`: a ring of raw keys one group and the drafts long, and the packed
  keys; prefill in chunks, drafts accepted or rejected, preemption; the layer of
  the draft model in a second instance. `qsa_pre_indexer.py` is not in `src/`;
  the unfused path is modelled. Hits end at multiples of the block size.
* `QsaMetadata`: batches of up to three requests with padding, and of up to five
  new ones (`crowded`), so that the search for a row's request takes up to two
  and three steps and meets candidates past the last request; the mutant
  `StepsDown` rounds the number of steps down.
* `QsaSelect`: batches of two requests; a batch is a
  chunk of a prompt or decodes, which take different kernels (`Mode`), in two
  instances; numerics are abstracted to the set of attended tokens; slots and top-k operators are
  outside `src/`; `compact_topk_indices` and the older `qsa_mqa_paged` are not
  modelled. With more than one MTP layer a top-k buffer would be read before it
  is written; the configuration has one and the model too.
* `ShortConv`, `GdnForward`: requests with chunks, drafts, restarts and padded
  batches. The GPU runner's marking of requests, column 0 of the block table and
  the metadata builders are outside `src/`; a plain decode after a speculative
  step that accepted more than one token is assumed to be marked speculative.
* `NGramLookup`: an n-gram's hash is the n-gram itself (the multipliers and
  prime table sizes are not modelled), the sharding copy is outside `src/`, a
  row is at most one page.
* `GraphDispatch`: five graph modes with capture sizes that are multiples of the
  decode length, and with two sets that are not (sizes 2, 3 and 5 with decodes of
  two tokens, sizes 4 and 7 with decodes of three and two). Rounding then
  captures decode graphs for counts between the sizes, and `dispatch` looks no
  further than the next captured count: a mixed batch of 4 tokens finds only
  decode graphs there and runs eagerly, although the piecewise graph of 5 would
  hold it. `EagerBetween` says that this is the only way a batch that some graph
  holds gets none. (The deployment's launch script asks for `FULL_DECODE_ONLY`,
  where mixed batches are always eager.)


## 11. What is proved

Eight modules hold proofs; the theorems are listed in `PROJECT.json`. Each one
holds for every value of the constants that satisfies the named assumption of
the module; the runs check the same formulas on small instances. Before an
inductive invariant was proved TLC checked it on the instance of its run;
`IInv` still is an invariant of `ple_async`, the others would take the place of
properties that say more to a reader.

| Proof module | Theorems | For any |
|---|---|---|
| `PleOffloadProofs` | `Invariance`, `TypeCorrect`, `Freshness`, `Untorn`, `Unread`, `Undropped`, `Handshake`, `Stable`, `Refinement` | ranks, layers, start-up forwards, batches in flight (`ConstantsAssumption`) |
| `MambaProofs` | `AllocationBounded`, `ListedInvariant`, `EstimateSafe`, `ReferencesExact`, `CountersAlwaysAgree` | block size above the number of drafts, requests, blocks, prompts, budget, steps in flight (`ManagerAssumption`, `ServingAssumption`) |
| `MambaStateProofs` | `WritesAlwaysOwned`, `StateAlwaysExact`, `CacheAlwaysExact`, `HeldAlwaysBounded` | the same |
| `ExpertArenaProofs` | `ArenaInvariant`, `MapsAlwaysAgree`, `TableAlwaysExact`, `DmaAlwaysReadsPlanned`, `ShareAlwaysStable`, `SharingImplemented` | layers, experts, slots, candidates, forwards in flight (`ArenaAssumption`) |
| `CpuPoolProofs` | `PoolInvariant`, `FrameAlwaysAlive`, `ItemsRunOnce`, `CountersBounded` | workers, item counts, calls (`PoolAssumption`) |
| `CpuBridge` | `BridgeInvariant`, `BridgeImplements`, `NotedAlwaysIntact`, `MailboxOrdered` | layers, numbers per counter value, forwards (`BridgeAssumption`) |
| `StreamPrefillProofs` | `InvariantHolds`, `TypeCorrect`, `BounceAlwaysKept`, `StreamsImplement` | layers, arena groups of a layer, bounce buffers (two at least), steps, with and without a tail (`StreamAssumption`) |
| `QsaRingProofs` | `RingInvariant`, `RingTyped`, `OpenGroupAlwaysKept`, `VisibleAlwaysExact` | group and block size, drafts, lengths, target and draft layers (`QsaRingAssumption`) |

The arguments:

* **PLE handshake.** For every rank and layer three counters move in turn: the
  batches the stream has released, the worker has claimed and the worker has
  published. The invariant says that they differ by at most one and that the two
  flags encode how; with that, a claimed buffer is one the stream has finished
  with, and a set `ready` flag stands for the batch the stream is at. It needs
  the program points of all five processes, because a flag in transition is
  accounted for by the process that holds it.
  `Refinement` maps every step to one of `PleForward` or to a stutter.
* **Recurrent-state blocks: lists.** `AllocationBounded` is arithmetic on one
  list. `ListedInvariant` keeps the running list a list of the running requests,
  each once, with at least its speculative entries; `EstimateSafe` follows from
  both.
* **Recurrent-state blocks: reference counts** (`References`). Counts are those
  of the lists as a function (`HeldByAll`), no list has a block twice, and a
  request that does not run holds nothing. Release, touch and take are each
  shown to keep "counted", for a set of blocks that is given away or taken over;
  every action is then a sequence of these. The middle state of an action (the
  sweep of one request before the blocks of another are released) is a lemma of
  its own.
* **Counters** (`Counters`). What the scheduler has counted ahead of the runner
  is owed to it by the steps in flight: an account adds up, in the order of
  dispatch, the tokens they keep, the drafts they reject and the tokens they
  sample. The account is a function witnessed in the state, so no sum is computed
  by recursion. That an output advances its request by a token at least, and
  rejects drafts only when it samples, makes the account empty when the count of
  tokens in flight is zero. Scheduled requests are running and behind the
  cursor, so a request that is preempted has never been scheduled in the same
  pass; for a preempted request everything in flight is stale. A running request
  has at least one token to compute more than are scheduled (`Lag`), and drafts
  only when it is exactly one.
* **Recurrent-state blocks: who writes** (`Lists`, in `MambaStateProofs`). For a
  running request the invariant says how its list is laid out around three
  counts: the tokens the runner has, those its next step is sure to leave a
  state for, and those the scheduler has planned. From the entry of the sure
  state on there are blocks; of the entries the step passes only one that ends
  with the sure state has a block; the runner's table, which lags behind the
  list, agrees with it wherever the list has a block. A block whose state is yet
  to come is in one list only and has no hash, unless the present pass hashed it
  for the state it is sure to get (`Marked`). The lemmas on one list
  (`AllocatedEntries`, `SweptKept`, `GrownLaid`, `AdmittedLaid`) say where an
  allocation and a sweep leave each entry; `Scheduling` brings the running loop
  and admission into one form. It rests on the counters: the sweep is driven by
  the scheduler's count, which is ahead of the runner's.
* **Recurrent-state blocks: the states** (`Exact`). Every entry a request has
  passed holds the state after its last token (`Stored`); the state of all its
  tokens is where the runner will look for it, in an entry that the sweep leaves
  and, while a prompt is being computed, that the allocation does not move
  (`Located`); a hashed block holds the state of its hash or is where a
  scheduled step is about to leave it (`Backed`). Only `Dispatch` writes, to
  blocks that by the previous invariant belong to one request, and
  `WrittenValue` says what it leaves there whatever number of drafts is
  accepted.
* **Recurrent-state blocks: how many** (`Limits`). Where a request really is
  after each step in flight, and how far the scheduler has counted there, is a
  *course*: it begins at the tokens processed and ends at the runner's position
  and the scheduler's count; like the account it is a witness, not a sum. Steps
  of the prompt come first and reject nothing, so on that part of the course
  both counts are the same, and the steps behind it take a block's tokens at
  most (`Certain`). A list of the request has a block only in the entry of one
  of these positions, in entries behind the last certain one, of which there are
  as many as there can be further steps, or in a speculative one (`Spread`,
  and `SpreadTo` once the pass has scheduled a step of the prompt); the sweep
  has cleared everything before the last processed token (`Cleared`). So the
  blocks are covered by `Depth + 1 + NumSpec` places (`CoveredHeld`). A dispatch
  continues the course, an output takes its first part off, an allocation adds
  the entry of the planned end; that a pass begins only with room for its step
  (`Room`) keeps the course short enough.
* **Expert arena** (`ArenaInv`). The flags encode the program points of server
  and forward, the event stands for the last DMA. After the event check the
  server is alone until it clears its flag; moves are distinct, and their
  victims still own the slots they give up; every entry of the kernels' table
  that is not just being moved leads to its bytes.
* **Thread pool** (`PoolInv`). `done` is the number of threads that have returned
  with the present epoch, so the caller leaves only after the last one; each
  claimed item is finished or in the hands of exactly one worker. On top of it
  `Epochs`: the epoch is the number of calls, one less before a publication and
  one more after the destructor's.
* **Mailbox** (`BridgeInv`). At most one request is open, its number is above all
  others, so no answer of an earlier call can pass for its own; the server's
  notes are at most one layer behind the stream and never in the slot that is
  written next. On top of it `Counted`: the counter in GPU memory is the number
  of forwards, one behind until layer 0 has published.
* **Streamed prefill** (`IInv` of `StreamPrefillProofs`). Events are counters, so
  a queue is in order when the numbers its operations record rise (`Streams`).
  The compute stream is a chain: each operation begins at the group where the
  one before it ends, and a group's step is the step of the last map enqueued
  before it (`Sequenced`); that makes the group computed next the right one under
  the right map. That it has the right weights is `ArenaFilled` and
  `TailsFilled`: the copy a group waits for is still queued with this group, or
  was the last one made to the buffer and has this group; a later copy to the
  same buffer waits for the conversion before it, because the copies of a buffer
  are numbered like its conversions (`BufferGood`: the host is at most one copy
  ahead of the conversions of each buffer). For the tail the copied bytes must be
  the layer's too: the reader serves requests in the order of the layers, is
  never asked for a layer more than `NumBounce` ahead of one whose DMA has not been
  issued (`Requested`), and waits for the DMA recorded last (`Bounced`).
  `StreamsImplement` maps `RunGroup` to a step of `StreamForward` and every
  other step to a stutter.
* **Index ring** (`RingInv`). From the open group on the newest keys are in the
  ring, as many as there is room for; every complete group is pooled from the
  sequence as it is now. The lemmas on remainders (`SamePlace` and others) say
  when two positions share a place of the ring.

## 12. Only model-checked, and not modelled

Out of the prover's reach, and left to TLC: everything about liveness under
fairness (`LifecycleEnds`, `AllComplete`), `ENABLED`, and what recursive
definitions and folds compute (`LruExact`'s serial update, the lookups of
`HitsExact`, the block sums of `DispatchExact`), which needs induction over data.

Within its reach and not proved: the other properties of `experts` (`BuffersExact`,
`EachPairOnce`); the properties of `engine` and `cache`; `QsaExact`, `StatesExact`, `LookupsExact`; `LifecycleSafe`. They hold
in the bounds of section 4 and no more is claimed.

Not modelled:

* PLE: the copy path of the older model runner that stages from CPU tensors, the
  NUMA placement of the tables, the death pipe inherited by other forks.
* Block managers: the other recurrent cache modes, which this deployment does
  not use; cross-attention and sink managers, whose allocation is static; the
  coordinator over groups.
* Scheduler: LoRA, structured output, statistics and logging; KV connectors
  other than their loads.
* Runner and worker: sampling, profiling, memory measurement, sleep and wake-up,
  weight updates, pipeline sends.
* Experts: the numerical kernels (one function of their inputs), the choice of a
  kernel, the scores that choose promotions, virtual-memory calls.
* Weight loading, host planning, installation, scripts, benchmarks: sequential
  configuration code or pure I/O.

## 13. Findings

Four runs end in a counterexample on purpose; the full texts, with the lines
they contradict, are in `PROJECT.json`.

* `ple_queue_full`: with async scheduling a second request can be submitted
  while the first is still in the queue of one, and `put_nowait` raises; the
  comment says that one pending request is sufficient.
* `ple_event_rerecorded`: there is one input event, and with two batches in
  flight it can be recorded for the second before the request thread waits for
  the first; then the D2H stream waits for a forward that waits for it.
* `ple_shutdown_hang`: `Worker.shutdown` closes the CPU process and then
  synchronises a device whose stream may wait for that process.
* `session_lost`: with two steps in flight a session that was preempted is
  stopped by the output that was still coming; `update_from_output` puts it into
  a waiting queue and then takes it out of both. Its next input makes it WAITING
  in no queue, and drops the tokens of the inputs before.

The other findings were met while the modules were written, with constants or
assumptions the runs exclude: borrowed pages under tiered steps and under the
off-switch and prefetches with `BORROW=0` (`StreamStage`); a prefetch distance
that does not divide the number of layers (`PrefetchRing`); rows of sessions
whose input comes early (`StreamingSessions`); a window's fallback with a drafter (`PrefixHits`); caps
behind long hits (`WindowBlocks`); blocks of failed loads left cached, and loads
that wait for each other (`KvLoads`); encoder inputs of a request preempted in
its pass (`EncoderInputs`); start-up without a watched parent and pipeline
stages without PLE layers (`PleLifecycle`); routing rows of partial hits
(`RoutedExperts`). Each module restricts itself to the constants or the clients
for which the code's promise holds, and says so in a comment.
