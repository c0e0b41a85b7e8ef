# TLA+ models of the GLM-5.2 Spark kit

The repository is a kit of overlay files mounted over vLLM on four GB10 nodes, with
the scripts that launch it. This directory holds TLA+ models of the parts that keep
protocol state, TLC configurations that check them on small instances, and TLAPS
proofs. Paths below are relative to `src/`; `shm_broadcast.py` is
`overlays/vllm/distributed/device_communicators/shm_broadcast.py` and `scheduler.py`
is `overlays/vllm/v1/core/sched/scheduler.py`. `PROJECT.json` maps every definition to
the lines it models.

## 1. Inventory

| Component | State | Operations | Hard behaviour | Correct when |
|---|---|---|---|---|
| `MessageQueue`, `ShmRingBuffer`, `SpinCondition` (`shm_broadcast.py`) | per block a written flag, a read flag per reader, data; `current_idx` of each process; ZMQ sockets for overflow payloads, remote readers, notification and cancel | `wait_until_ready`, `enqueue`/`acquire_write`, `dequeue`/`acquire_read`, `wait`, `notify`, `shutdown` | lock-free, weakly ordered stores, lossy notification, timeouts, shutdown from another thread | every reader gets every object once, in order and whole; nobody waits for ever |
| Scheduler (`scheduler.py`) | `running`, `waiting`, `skipped_waiting`; counters of each request; long-prefill ages; pause state; step numbers and `deferred_frees` | `schedule`, `update_from_output`, `add_request`, `finish_requests`, `set_pause_state`, `reset_prefix_cache` | outputs return after later steps were scheduled; preemption and resets make outputs in flight stale; draft tokens rejected afterwards; starvation | no request is lost, no block leaks, no position is sampled twice, budgets hold, every request finishes |
| KV cache manager (`overlays/dspark-ring/kv_cache_manager.py`) | block tables, free pool, hash index | `allocate_slots`, `get_computed_blocks`, `free`, `reset_prefix_cache` | admission caps, lookahead slots, hits trimmed by the draft window | blocks are owned once and returned once |
| Adaptive depth (`overlays/vllm/v1/spec_decode/dynamic/`, `overlays/vllm/v1/worker/gpu/cudagraph_utils.py`) | current depth, observation window, captured graphs | `observe_batch`, drafting at the depth, `dispatch` | outputs and drafts of the old depth in the new window | decode steps have a captured graph; the depth follows the acceptance |
| Launch wrapper (`launch/resolve_gid_and_launch.sh`, `launch_gx10.sh`, `nvfp4_swap.sh`) | lock file, containers and memory of four nodes, attempt counter | lock, guard, GID agreement, clean, memory gate, launch, probe | several recovery actors, node failures, retries | at most one load at a time; a boot in progress is not torn down |
| DSpark draft ring (`overlays/dspark-ring/`) | a ring row of draft KV and a mask per resident request, the steady flag | `ring_ingest`, mask rebuild, `_ring_attention`, trim of prefix hits | wrap-around, rejected drafts, rows handed on, batch order | a decoding request sees its own last window tokens and nothing else |
| DCP top-k merge (`overlays/vllm/model_executor/layers/sparse_attn_indexer.py`, `overlays/fused-dcp-gather/`) | none (a function) | pack, gather, stable top-k | id arithmetic, ties, padding rows | equals the top-k of the whole sequence |
| RDMA all-gather benchmark (`kernels/rdma/ag4_proto.c`) | one receive slot per peer, posted receives, completion counts of the round | connect, post the writes of a round, poll | rounds are told apart by counting completions only: a fast peer's next write counts too | a round ends with one write of every peer |
| Kernels, model overlays, nvfp4 writer, capture prewarm | tensors | numeric code | none of protocol kind | bit equality with a reference (tests) |
| `apply.sh`, `verify.sh`, benchmarks, training, `campaign-2026-08/`, legacy stacks | files | straight-line scripts, vendored code | none | – |

How the parts meet. The engine core runs the scheduler in one thread: it calls
`schedule()`, hands the result to the workers through a `MessageQueue` (the writer is
the engine, the readers are the workers), and later passes their output to
`update_from_output()`. With `--async-scheduling`, which the launchers use, the next
`schedule()` runs before that output is back. The scheduler calls the KV cache manager
for blocks and the depth controller for the number of draft tokens. The launch wrapper
starts and probes the whole.

`PROJECT.json` lists the hazards of this code, each at its line, with the properties
that would catch it.

## 2. Modules

| Module | Models | Role |
|---|---|---|
| `ShmBroadcast` | `shm_broadcast.py` | the detailed specification |
| `BroadcastQueue` | – | the abstract bounded log the ring implements |
| `ShmBroadcastProofs` | – | theorems about the types and the ring of `ShmBroadcast`, and about what its readers receive |
| `MCShmBroadcast` | – | instances and symmetry |
| `Scheduler` | `scheduler.py`, `allocate_slots` on counts | the detailed specification |
| `SchedulerProofs` | – | theorems about the queues, blocks, budgets and stale shares of `Scheduler` |
| `SchedulerDecodeProofs` | – | theorems about its token accounting |
| `MCScheduler` | – | prompt lengths of the instances |
| `DeferredFree` | the fences of `scheduler.py` with a KV connector | blocks by identity, step numbers |
| `DeferredFreeProofs` | – | theorems about `DeferredFree` |
| `DraftRing` | `overlays/dspark-ring/`: `dflash_speculator.py`, `qwen3_dflash.py`, the trim of `kv_cache_manager.py` | rows, slots and masks of the draft window |
| `AdaptiveDepth` | `acceptance_length.py`, `depth_ladder.py`, drafting in `scheduler.py`, graph shapes of `cudagraph_utils.py` | the depth and the steps in flight |
| `LaunchWrapper` | `launch/resolve_gid_and_launch.sh`, `launch/launch_gx10.sh` | wrappers, nodes and faults |
| `DraftRingProofs`, `AdaptiveDepthProofs`, `LaunchWrapperProofs` | – | theorems about the three |
| `LibraryLemmas` | – | facts about quotients, finite sums, minima and queues the proofs share |
| `MCDeferredFree`, `MCDraftRing`, `MCAdaptiveDepth`, `MCLaunchWrapper` | – | instances |

Definitions marked `(variant: ...)` are faulty versions of the definition that follows.
They are used nowhere; substituting one shows that a property notices the fault.

### ShmBroadcast

The shared memory is `written`, `readFlag`, `hdr` (byte 0 of the data) and `body` (the
serialised object, one value). Objects are numbered as they are published.
`wpc`/`rpc` are the program points of the writer and the readers; each action is one
access to shared state or one socket call:

- `wait_until_ready`: `Connect`, `HandshakeLocal`, `HandshakeRemote`, `RecvReady`. A
  publisher reaches only the subscriptions it knows of.
- `enqueue`: `Enqueue(over)`, `AcquireWrite` or `AcquireTimeout`, the drains,
  `PublishBlock`, `SendOverflow`, `Notify`, `SendRemote`. `Notify` reaches any subset of
  the readers: the socket drops.
- `dequeue`: `StartDequeue`, `LoadReadFlag`, `LoadWritten`, then `SpinYield` or `Park`
  with its three ways to wake, or `ReadHeader`, `ReadBody`, `ReturnInline` or
  `AwaitOverflow`, `Recv`; `DequeueTimeout` and `RecvTimeout` are the deadlines.
- `shutdown`: `Shutdown` sets the flag, `Cancel` sends the frame.

Memory model. The writer's stores between two fences wait in a buffer (`pending`,
`pendFlags`) and become visible one at a time in any order; a fence waits for the buffer
to be empty. `StoresOrdered` says whether the stores to the metadata bytes of one block
(`written := 0`, then the read flags) keep program order, as on x86. The readers' loads
are in program order. The order in which a weakly ordered CPU could satisfy a reader's
loads is not modelled. Neither is the high-water mark of the remote socket, which the code
leaves at its default (526–527): `Publish` never drops for a subscribed remote reader, so
a remote reader that falls more than that many objects behind is outside the model.

### Scheduler

A request is a record of its counters (`computed`, `tokens`, `spec`, `placeholders`,
`in_flight`, `stale`, `drop`, `chunk`, `blocks`); tokens have no identity. `schedule()`
takes one step per loop iteration with its local variables in `step`; nothing else runs
between those steps, as in the single-threaded engine (`pc # "idle"`). `batches` are the
steps in flight, oldest first; `UpdateFromOutput` takes the oldest with any number of
accepted drafts, any request ending with a stop token and, for preempted requests, any
of them missing from the runner's output (the `req_id_to_index` lookup at 2260).

What stands for code outside the repository (`"external"` in the map):
`AddPlaceholders` (the asynchronous scheduler's `_update_after_schedule`), `Room`
(`check_stop`), `StartOf`/`worker` (the runner continues a request from the tokens it
holds, a resumed one from the tokens sent with it) and `BlocksFor`.

Abstractions: a prefix hit is any block-aligned length below the number of tokens and
its blocks are not shared; the ages of long prefills are ranks (only their order is
used); `num_lookahead_tokens` is `num_spec_tokens` (DSpark, EAGLE and MTP).

### DeferredFree

The scheduler with `defer_block_free` (several batches in flight and a consuming KV
connector), reduced to who holds which block. A block is in the pool when no table, no
pending copy and no deferred entry refers to it. One pass of `schedule()` is
`BeginSchedule`, any `ScheduleRunning` and `Preempt` steps, then (if nothing was
preempted) `ScheduleWaiting` steps, then `EndSchedule`, which fences the retained copy
endpoints, advances `sched_step_seq` if the step has tokens, and marks its requests.
`UpdateFromOutput` counts a step with tokens and drains. What a step touches is fixed
when it is scheduled: the tables of its requests and the endpoints of its copies.
`delay_free_blocks` of a connector only holds a table longer and is covered by
`FinishRequest` happening later.

### DraftRing

`ring[row][slot]` is the token whose K/V is there; `attn_mask[row]` the number of
visible slots. `Propose` is one call of `propose()` in ring mode with the ingestion that
precedes the draft forward: rejected drafts are redirected to the trash slot, the mask
is rebuilt unless `_ring_mask_steady` and the host bound say that all requests are deep.
The batch order, the chunks, the rejections, the row of an admitted request and how far
the host's lengths lag are nondeterministic; they come from the model runner, which is
not in the repository. The switches (`VLLM_DSPARK_RING_DROP_REJECTED`,
`..._MASK_EXCL_REJECTED`) have their defaults.

### AdaptiveDepth

`drafts[r]` is what a running request carries into its next step: the depth that was
selected when its last step was scheduled. `flight` has the steps, each with the drafts
of its requests and whether `dispatch` finds a FULL graph for it. `Observed` adds a step's samples
to the window and `Target` decides; the fields `own` and `placeholder` and the variable
`verdict` are history that only the properties read. `quality` is the run of drafts the
target accepts, changed by `Shift`. Of the per-position counts the policy reads the
accepted ones of positions 2 to 4; the eligible counts are only logged. A prompt takes
one step; the batch-size schedule is absent, as `vllm.py` keeps FULL graphs only without
it. Near `max_model_len`, or with a grammar, a request carries fewer drafts; both are
outside the model.

A member of `Settings` is what the engine is started with: the ladder, the graph mode and
the capture sizes. `graphs` has the descriptors `CudaGraphManager` captures for it:
`FixedDescs` (the maximum depth at the capture sizes, rounded up), `MixedDescs` (the
capture sizes as they are, PIECEWISE, or FULL in mode FULL) and `AdaptiveDescs` (each rung
for 1 to `min(max_num_seqs, 32)` requests). `GraphCoverage` is the startup check: `Init`
allows no setting it refuses. `FullGraph` is `dispatch`: the smallest bucket that holds
the tokens, in both sets. `CaptureHolds` says which batches the capture is meant for; a
step keeps the answer in `held`, which only `DecodeReplaysGraph` reads. Outside it there
is no promise: see Findings. Modes without FULL graphs do not start with adaptation on,
and LoRA cases are left out.

### LaunchWrapper

Each recovery actor (`Brains`) runs the wrapper; `pc` is its stage. The lock belongs to a
file descriptor that children inherit, so a killed wrapper leaves it to the ssh calls of
a clean or to `launch_gx10.sh` (`Kill`, `orphanClean`, `orphanLaunch`). The fleet is
`container[n]`, `loads[n]` (98 GB each, given back some time after the container is gone)
and `up`. `age` counts the head's time in units of which `hour` make 60 minutes; a pass
of the poll loop takes at least one. `set -e` is modelled: a node that does not answer
ends the script in the memory gate, and so do failing commands while the logs of a dead
attempt are kept (`Died`).

Three simplifications. The remote half of an ssh command ends with its client; a remote
`docker run` (`launch_gx10.sh:131`) could outlive a killed launch and its lock. The memory
gate sees a node as free when `loads[n] = 0`; a load too young to have filled the memory
would pass the real gate of 100 GiB. And the ssh calls of `launch_gx10.sh` have no
`ConnectTimeout`: that they end is left to TCP.

## 3. Runs

| Run | Instance | Shows |
|---|---|---|
| `shm_ring` | 2 local readers, 2 blocks, 3 objects, inline or overflow; reader symmetry | `BlockExclusion`, `BlockIntact`, and that the ring implements `BroadcastQueue` (`BoundedLog`) |
| `shm_live` | 1 local reader that may be shut down, 1 remote reader, 2 blocks, 3 objects, fairness | the handshake frame is first and objects arrive in order at both kinds of reader; lost notifications, shutdown and a full ring do not block anyone |
| `shm_weak` | 1 reader, 1 block, `StoresOrdered = FALSE` | violation, see Findings |
| `sched_async` | 3 requests (prompts 2, 1, 1; 3 output tokens), 4 blocks of 2 tokens, 1 draft token, 2 batches in flight, 2 resets, all pause states, aborts | the consistency of queues, blocks, stale shares and counters |
| `sched_live` | 3 requests (prompts 3, 1, 3), two of them long, 1 long-prefill turn, 2 sequence slots, 3 blocks, watermark 1, reserve of the whole prompt, 1 reset, fairness | every request finishes |
| `sched_pad`, `sched_edge` | 2–3 requests | violations, see Findings |
| `draft_ring` | 2 requests (prompts 1 and 6), window 3, 2 rows, 1 draft token, blocks of 2, chunks up to 6, 8 tokens, 1 preemption | `RingHoldsWindow`, `RowMaskHidesUnwritten` |
| `draft_mask` | the same | violation, see Findings |
| `launch` | 2 actors, a head and 2 workers, 2 attempts, 2 polls, an hour of 2, 2 starts, 2 faults, fairness | `SingleFlight`, `NoStackedLoad`, `BootGetsItsHour`, and every wrapper ends |
| `deferred` | 2 requests, 3 blocks, 2 steps in flight, 4 passes, symmetry | `NoFreeInFlight`, `NoStuckFence` |
| `depth` | 2 requests, ladders from `2,4,9`, `2` and `3,4` with maximum 5, in the modes FULL_AND_PIECEWISE, FULL (with capture sizes that two requests exceed) and FULL_DECODE_ONLY, `max_num_seqs` 2, prompts of 7 tokens, windows of 6 and 3, 2 steps in flight, 2 arrivals, 1 change of acceptance, fairness | graphs for all plain decode steps the capture holds, verdicts on own samples, the pin, `BacksOff`, `ClimbsToMax` |

Why the bounds are enough. Three objects in two blocks make the ring wrap and make a
reader meet a block for the second time; two readers are the least for "some but not
all". In the scheduler four blocks of two tokens do not hold three requests, so
preemption happens; two batches in flight with two resets let a request be preempted,
resumed and preempted again while its first output is still out. The ring of three slots
with chunks of six wraps twice in one scatter, and eight tokens reach beyond window plus
draft block, where the steady skip begins. Two workers are the least for "one node missed
the clean", two faults allow a kill and a lost node in one behaviour. Four passes with
two steps in flight give an entry fenced behind a copy and a step without tokens between
them. A probe window of three steps is the shortest that is longer than the two steps in
flight; production has 16. The three ladders exercise the policy, the formula and the
pin. Bounds by name: `MaxMessages`, `NumRequests`, `MaxInFlight`, `MaxResets`,
`MaxChunk`, `MaxTokens`, `MaxPreemptions`, `MaxStarts`, `MaxFaults`, `MaxAlloc`,
`MaxSteps`, `MaxShifts`, `MaxArrivals`.

Deadlock is checked except where everything may rightly end: a reader that was shut
down, all requests finished, no wrapper start left, or a bound reached.

Fairness. `ShmBroadcast`: the processes keep running (weak fairness of the writer's
and of each reader's steps), stores drain, `Cancel` follows `Shutdown`. A parked reader
always wakes since the poll lasts at most `SHM_READER_RECHECK_INTERVAL_MS` (line 741).
Nothing has to be enqueued, and no timeout has to fire. `Scheduler`: the engine loop
goes on calling `schedule()` (weak fairness), and takes the oldest output whenever the
pipeline is full or nothing could be scheduled (strong fairness of `Output`, since the
scheduling steps disable it over and over). There is no fairness on aborts, and
`sched_live` has no pauses: a paused scheduler rightly makes no progress.
`LaunchWrapper`: the script goes on (weak fairness of its steps, each of which has a
time limit or ends by itself); nothing is assumed of containers, memory or nodes.
`AdaptiveDepth`: the engine goes on scheduling and handling outputs; `BacksOff` and
`ClimbsToMax` speak only of behaviours in which requests keep running and the acceptance
stays as it is from some point on.

### Findings

- `shm_weak`: between `written := 0` (`shm_broadcast.py:692`) and the reset of the read
  flags (702–704) there is no fence. If the CPU makes them visible in the other order a
  reader enters the block being refilled; the class comment (298–301) describes the
  transition as one that cannot do this. The copy of the object's bytes and interpreter
  work lie between the two stores, so the window is small; nothing in the code closes it.
- `sched_pad`: a padded decode is cut to the rest of the prefill budget and keeps its
  full list of draft tokens (`scheduler.py:1342`, 1511).
- `sched_edge`: a decode padded exactly to `max_model_len` is given −1 tokens in the next
  step (`scheduler.py:1305`, 933, 963), against the assertion at 2204. It takes a last
  prompt token at position `max_model_len - 1 - num_spec_tokens` found in the prefix
  cache, joining a batch of decodes.
- `draft_mask`: `propose()` writes the window mask by ring row
  (`dflash_speculator.py:632`), `_ring_attention` reads it by batch slot
  (`qwen3_dflash.py:404`) while it reads the K/V by `query_rows`. As soon as the batch
  order is not the row order, a short request looks at slots that are not its own, which
  the mask is there to hide (comment at 622–624).

Met while modelling, without a run of their own (see the hazards): the padding of an
admitted decode uses the maximum depth while the running decodes carry the adaptive one
(`scheduler.py:1302`), which loses the graph it is meant to keep, and its placeholders
count as rejected drafts; the launch wrapper ends instead of retrying when keeping the
logs of a dead attempt fails (`resolve_gid_and_launch.sh:78–82` under `set -e -o
pipefail`); the steady skip can leave a mask short. The waiting loop admits long prompts
beyond `max_long_prefills_per_step`; the comment at `scheduler.py:1326–1335` records this
as intended.

Two limits of the captured graphs, likewise. In mode FULL the coverage check returns
early (`cudagraph_utils.py:593–597`), although it promises to raise "rather than serving a
silently degraded candidate" (571): above the largest capture size no graph fits.
`champion_adaptive.sh` asks for this mode with 16 sequences, depth 5 and sizes up to 48
(lines 100–108), so nine requests at the maximum depth run without one. Above 32 requests
the warning says that batches "fall back to the fixed-K descriptors" (475), but
`_is_compatible` wants an equal `uniform_token_count` (92): a batch of a lower depth gets
no FULL graph. `GraphTheorem` and `AmpleTheorem` say where neither happens.

## 4. Proofs

Every theorem holds for every value of the constants that the named `ASSUME`s of its
module allow; further hypotheses are part of the theorem. An invariant `Inv` is proved
from an inductive invariant (`IInv`, or the conjunction named below) that TLC had checked
on the runs' instances first: it holds initially (`Init...`), every action preserves it
(one lemma or step per action, one sub-step per conjunct the action can disturb), and it
implies `Inv`.

| Module | Theorem | States | Hypothesis |
|---|---|---|---|
| `ShmBroadcastProofs` | `TypeCorrect` | `TypeOK` | – |
| | `ExclusionTheorem` | `BlockExclusion` | `StoresOrdered` |
| | `IntactTheorem` | `BlockIntact` | `StoresOrdered` |
| | `LogTheorem` | `BoundedLog` (refinement) | `StoresOrdered` |
| | `ReadyTheorem` | `ReadyFirst` | – |
| | `InOrderTheorem` | `InOrder` | `StoresOrdered` |
| `SchedulerProofs` | `QueuesTheorem` | `QueuesMatch` | – |
| | `BlocksTheorem` | `BlocksConserved` | – |
| | `StayTheorem` | `ScheduledStayRunning` | – |
| | `BudgetTheorem` | `StepWithinBudget` | – |
| | `StaleTheorem` | `StaleIsOldest` | – |
| `SchedulerDecodeProofs` | `TypeTheorem`, `DecodeTheorem` | `TypeOK`, `DecodeAccounting` | `[]PadsFit` |
| | `ContiguousTheorem` | `OutputContiguous` | `[]PadsFit`, `MaxInFlight <= 2` |
| | `PadTheorem` | `DraftsScheduled`, `ScheduledPositive` (so `PadsFit`) | `PadSafe` |
| | `PadSafeTheorem` | `TypeOK`, `DecodeAccounting` | `PadSafe` |
| | `PadSafeContiguous` | `OutputContiguous` | `PadSafe`, `MaxInFlight <= 2` |
| `DeferredFreeProofs` | `DeferTypes`, `NoFreeTheorem`, `NoStuckTheorem` | `TypeOK`, `NoFreeInFlight`, `NoStuckFence` | – |
| `DraftRingProofs` | `RingTypes`, `RingTheorem`, `MaskTheorem` | `TypeOK`, `RingHoldsWindow`, `RowMaskHidesUnwritten` | – |
| `AdaptiveDepthProofs` | `DepthTypes`, `PinTheorem` | `TypeOK`, `PinHolds` | – |
| | `GraphTheorem` | `DecodeReplaysGraph` (up to 32 requests; in mode FULL up to the largest capture size) | – |
| | `AmpleTheorem` | a graph for every plain decode step, of any size | `Ample` |
| | `VerdictTheorem` | `VerdictSeesItsDepth` | `observation_window \div 2 > MaxInFlight` |
| `LaunchWrapperProofs` | `LaunchTypes`, `SingleFlightTheorem`, `NoStackedTheorem` | `TypeOK`, `SingleFlight`, `NoStackedLoad` | – |
| | `BootHourTheorem` | `BootGetsItsHour` (an action property) | – |

### The ring

`ShmBroadcastProofs` proves, for any sets of readers, any ring size and any number of
objects (assumptions: those of `ShmBroadcast`):

- `TypeCorrect`: `Spec => []TypeOK`. `TypeOK` is not inductive alone; `CountInv` adds
  that buffered stores belong to a block being filled and that the object counter is
  below its bound while a block is being acquired.
- `ExclusionTheorem`, `IntactTheorem`: `BlockExclusion` and `BlockIntact`, if
  `StoresOrdered` (`shm_weak` shows that it is needed).
- `LogTheorem`: `Spec => BoundedLog`, the refinement, under the same assumption.

The argument. `RingInv` has four parts. `PositionInv` derives each reader's index from
the writer's index and the reader's lag, and bounds the lag by the ring size, strictly
while a block is being filled. `BlockInv` says what every block not being filled holds
and that its read flags tell who has read it. `FillInv` describes the block being
filled by which of its stores are visible: as long as `written` is still 1 every read
flag is still 1, so `check()` of a reader fails either way; this is where the order of
the two stores is used. `ReaderInv` carries what a reader learnt in `check()` to the point where it uses
it. The object in a block is written with a case distinction (`ObjectIn`) instead of a
remainder, which keeps the arithmetic linear. `NextRing` has one case per action that
touches the ring; `RingFrame` disposes of all others.

### Delivery

The second half of `ShmBroadcastProofs` builds on `RingInv`. `GreetInv` describes the handshake: a reader's
queue is empty until READY is published to its kind, READY is published when its
subscription is known, and stays at the head until the reader takes it. That gives
`ReadyFirst` without any assumption on the stores.

`InOrder` says what was returned, not what is on its way, so it needs an invariant about
the queues. For a remote reader (`RemoteInv`) the queue holds exactly the objects between
those returned and those sent, one by one (`Dense`). For a local reader (`StreamAt`) only
overflow objects pass through the socket, and which ones they are is written in the
headers of the blocks: an object still to be read in the ring has its payload in the
queue exactly if its block's header says overflow and the writer is past `SendOverflow`;
the object whose block was already released has its payload there as soon as it is sent;
the queue rises strictly. Hence the frame `Recv` finds is that of the object the reader
awaits. The window between `PublishBlock` and `SendOverflow` (`wpc = "send"`) is covered
by its own conjunct: a reader that has released the block by then is still waiting, or
has timed out. A reader that timed out is left out of the claim, as in `InOrder`.

### Scheduler

`IInv` of `SchedulerProofs` is `Types`, `QueuesInv`, `BlocksConserved`, `StepInv`,
`NewInv` and `StaleIsOldest`.

- `QueuesInv` splits `QueuesMatch` into what each queue holds and that they are disjoint,
  and adds that the list of skipped requests is empty outside the WAITING loop. The
  removals of `update_from_output` and `finish_requests` go through `Without`, whose
  meaning (`WithoutFacts`) is proved by induction along the queue.
- `StepInv` says that what the step has given out went to requests in front of the loop
  index (which is why preempting the last of the queue never hits one of them), and that
  the remaining budget plus the shares is at most the token budget.
- `StaleIsOldest` needs `NewInv` (a request that was not added is in no batch) and facts
  about sums over the pipeline: appending a batch adds a share, removing the oldest
  shifts the others (`SumShift`).

No assumption is made on the sign of a share: `sched_edge` shows that a request may be
given −1 tokens, and the five theorems hold nevertheless. This is also why `Types` has
integers where `TypeOK` has natural numbers; `TypeOK` itself is under Token accounting.

### Token accounting

`SchedulerDecodeProofs` proves `TypeOK`, `DecodeAccounting` and `OutputContiguous`. None
of them holds for every configuration: `sched_pad` shows a padded decode cut below its
list of drafts and `sched_edge` a share of −1. The hypothesis is that neither happens:

- `PadsFit`: a step has all the draft tokens it lists, and no share is negative. It is a
  hypothesis on the behaviour (`Spec /\ []PadsFit => ...`), so these theorems say what
  goes right in every deployment until one of the two findings strikes.
- `PadSafe`: a condition on the constants under which `PadsFit` is proved: no draft
  tokens; or no decode-aware prefill, a `long_prefill_token_threshold` of 0 or above
  `num_spec_tokens`, and prompts that leave room for `max_tokens + num_spec_tokens`
  below `max_model_len`. The instance of `sched_async` satisfies it (with one draft
  token). A deployment with both drafts and decode-aware prefill does not; there only
  the conditional theorems apply.

The argument. `DInv` relates the counters of a request to the batches in flight.
`Counted` is the account itself: in its prefill a request owes no output, past it its
computed tokens are its tokens and placeholders but one. `Split` says which batches owe
what: the first of the pipeline hold the stale tokens, the others the placeholders, one
and its drafts per sample (`OwedOf`); so an output gives back exactly the computed
tokens of its rejected drafts. `Granted` says that a share ends within the prefill or
covers the last token and all its drafts, which is where `PadsFit` is used. The runner is
`Anchored`: with the first current batch it goes on from the tokens of the request,
either because that batch resumed it with those tokens or because it stands there.
`Lonely` covers the output that is delivered although its request was preempted
meanwhile. The lemmas `BatchSums...` shift the sums when a batch joins or leaves the
pipeline; `DecodeNext` has one case per action. For `PadSafe`, `PadInv` adds that a
running request stays below `max_model_len` with its share included (`Below`), so the
cut at the end of a sequence takes nothing from a padded decode.

`MaxInFlight <= 2` is what the configuration gives asynchronous scheduling with one
pipeline stage (`overlays/vllm/config/vllm.py:540`), the only kind modelled. It is needed:
with three batches in flight TLC finds a behaviour in which a request is preempted with
the outputs of two batches on their way, the first is skipped because the runner no
longer has the request (it is missing from `req_id_to_index`), and the second is
delivered and starts one token past the tokens of the request.

### Deferred frees

`DeferredFreeProofs` proves for any requests, blocks and number of steps in flight
(assumption: `DeferAssumption`, that the bounds are numbers):

- `DeferTypes`: `Spec => []TypeOK`.
- `NoFreeTheorem`: `Spec => []NoFreeInFlight`, what the deferral is for.
- `NoStuckTheorem`: `Spec => []NoStuckFence`: the head of the queue is pending, and no
  fence lies beyond the next step with tokens.

The argument. `NoFreeInFlight` says that somebody holds the block, not for how long, so
it is not inductive. `NumberInv` gives every step in flight a number above the processed
count, increasing along the pipeline (a step without tokens has that of the next one
with tokens). `CoverInv` strengthens the goal: a block that step `n` touches is in the
table of a request last scheduled at `n` or later, or behind a fence of at least `n`.
Freeing a table keeps this because the fence is the newest number (`FreeFacts`);
draining keeps it because what is released has a fence up to the processed count, below
every step left (`DrainFacts`, `UpdateStep`); `EndScheduleStep` establishes it for the
new step, whose copies are fenced one number ahead.

### Draft ring, adaptive depth, launch wrapper

`DraftRingProofs`: `RingHoldsWindow` speaks of decoding requests only. `WindowInv` also
says what the row of a request in prefill holds already, namely everything beyond the
longest prefix hit it may have had, which is what the trim of hits is for; `RowsInv`
keeps rows apart. That two positions in one window never share a slot is `ModDistinct`
of `LibraryLemmas`. `MaskInv` bounds the mask of a decoding request by its length, which
survives the steady skip since lengths grow and the host's bound is known for requests
in prefill.

`AdaptiveDepthProofs`: a step replays a graph because all running requests carry the
same number of drafts (`Uniform`), whatever the controller did meanwhile, and `Captured`
keeps the graphs and the outcome of the startup check. `GraphFound` finds the graph of
such a batch: up to 32 requests its own descriptor is captured, so its bucket is exact;
in mode FULL the smallest capture size that holds the tokens takes any query length and
has enough request slots. `Ample` (`max_num_seqs` at most 32; in mode FULL a largest
capture size of at least `max_num_seqs * (num_spec_tokens + 1)`) makes every step one the
capture holds (`AmpleInv`); the 32 is the code's own number and only the theorems reach
it. `PinInv` bounds
the accepted tokens of the window, since placeholders are never accepted. `ProbeInv`
counts the steps drafted before the current depth: they are a prefix of the pipeline, so
a probe longer than the pipeline ends on samples of its own depth. The hypothesis of
`VerdictTheorem` is that length; production has a window of 32, halved for a probe, and at most 2
steps in flight.

`LaunchWrapperProofs`: `LockInv` (whoever works holds the lock, orphaned children
included) gives `SingleFlight`. `LoadInv` carries the memory gate's observation to the
launch of each node: only the holder of the lock adds a load, so a node still to be
launched has none. `HeadInv`, `PollInv` and `GuardInv` carry what the guard and the poll
loop saw of the head to the clean that removes it.

### LibraryLemmas

The library's induction theorems take an operator parameter, which the provers cannot
instantiate. `LibraryLemmas` states induction over natural numbers and over finite sets
for a *set* of instances instead (`P \in SUBSET S` closed under the step is everything),
and derives from it what `SumFunctionOnSet`, `Max`, `Min` and recursive functions yield;
`DivMod` and `ModDistinct` reduce remainders to linear arithmetic.

### Only model-checked

- `EveryMessageConsumed`, `ShutdownCompletes`, `EnqueueCompletes`,
  `EveryRequestFinishes`, `WrapperEnds`, `BacksOff`, `ClimbsToMax`: liveness under
  fairness is beyond the prover.

Every safety property of a passing run is stated by a theorem above.

## 5. Not modelled

In `shm_broadcast.py`: creation from a process group, serialisation, the crash of a
process, buffers that alias a released block. In `scheduler.py`: the PRIORITY policy, KV
and encoder connectors beyond the deferred frees, streaming sessions, structured output,
LoRA, Mamba alignment, pipeline parallelism, data-parallel throttling, telemetry. In the
KV cache manager: hashing and eviction. In the draft ring: the tensor computation, the
paged mode and the training capture. In the launch scripts: GID values, `DRY_RUN`, the
weight swap (manual phases), configuration writers. The DCP top-k merge is a pure
numeric function whose tie-breaking the kernels decide; the RDMA all-gather is a
prototype no launcher uses. Most lines of the repository are kernels, model
definitions and upstream vLLM files carried along with a few changed lines: they keep no
protocol state. The remaining components are listed with their reasons in
`PROJECT.json`.

## 6. Plan

1. `BlockPool`: hashing and eviction with shared prefixes, composed with `Scheduler`.
2. `AllGather4`: how far the ranks of `ag4_proto.c` drift apart when a round is closed
   by a count of completions.
