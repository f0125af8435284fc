# lean-vllm: specifications

TLA+ models of lean-vllm (`src/lean_vllm`): the paged KV cache and its prefix
cache, the scheduler, the engine step that ties them to the device, the serving
front end across its process boundary, the KV transfer between two engines, and
the index arithmetic of a step on the device. TLC checks them on small
instances; TLAPS proves the safety of the block manager, of a request's life in
the engine, of the serving front end, of the KV transfer, of the device stream
and of stop strings for every instance.

## The system and its parts

| Part | State | Operations | Talks to |
| --- | --- | --- | --- |
| `engine/sequence.py` | one request: tokens, counters of computed, pending and published tokens, block table, status | reserve, commit, drop pending tokens; chained block hashes | scheduler, block manager, runner |
| `engine/block_manager.py` | reference counts and hashes of blocks, free queue, used set, hash index | can_allocate, allocate, can/may_append, deallocate, hash_blocks | scheduler |
| `engine/policy.py` | waiting queue (FCFS deque or priority heap) | add, requeue, pop, remove, victim, by_urgency | scheduler |
| `engine/scheduler.py` | waiting, running, live ids, loads in progress, held sends | add, abort, schedule, advance, reconcile, update_from_kv_connector_output | all of the above, connector |
| `engine/llm_engine.py` | the step in flight | add_request, abort_request, step | scheduler, model runner |
| `engine/model_runner.py`, `input_buffers.py`, `sampled_tokens.py` | KV memory, previous step's tokens and drafts on the device, pinned and graph buffers | prepare_batch, run, replay, capture, kv_connector_step | engine; worker ranks; the CUDA stream |
| `spec_decode/` | drafts in flight, the drafter's graph buffers | propose, verify | runner |
| `layers/attention.py`, `utils/context.py` | none | split decodes from prefills, chunk contexts | runner, kernels |
| `layers/moe.py`, `fused_moe.py` | none; expert placement | select experts, align pairs into blocks, run the experts | model |
| `kv_transfer/` | sends offered, loads in progress, handshakes | scheduler half: match, hold; worker half: read, notify, time out | scheduler, runner, another instance |
| `engine/core.py` | run flag | loop: handle inputs, step, send outputs | core client by ZeroMQ |
| `engine/core_client.py`, `async_llm.py`, `output_processor.py` | pending adds, streams, detokenizers, death flag | add, abort, read outputs, die, shut down | core process, API server |
| `entrypoints/api_server.py`, `stop_checker.py` | one generator per request | serve, stream, stop strings, disconnects | async client |
| `entrypoints/disagg_proxy.py` | none beyond round robin | prefill, then decode | two API servers |
| models, other layers, attention backends, compilation, loader, metrics, CLI | | tensor code and plumbing | |

What is hard here: with `async_scheduling` each step is scheduled before the
tokens of the step before it are known, so every counter is optimistic and rows
in flight may turn void; blocks are shared through a cache whose entries change
hands; speculative steps take back slots and reservations after the next step
was planned on them; remote loads write blocks while the request that owns them
can be aborted; finished requests keep blocks until another instance has read
them, on several ranks that report in different steps, with notifications that
may be early, late or missing; clients leave, and the engine process dies,
between any two messages; the host fills buffers that the device still reads,
and a graph's buffers outlive the step that filled them. `PROJECT.json` lists
the hazards by source line, with the properties that watch each.

What makes the parts correct:

- block manager: exact reference counts, no assertion reachable, a cache entry
  leads to the KV of exactly its prefix;
- scheduler: a request is in one queue, owns blocks only while it runs, loads or
  is held, is given up only when it cannot fit, and ends in the end;
- engine: the client gets every committed token once and one final output;
  the KV a sequence attends to is that of its own tokens;
- connector: blocks handed over keep the prompt's KV until every reader is done
  or was given up; a load is reported once no rank can write any more, and as
  good only if every rank got its own heads; every transfer ends;
- serving: a stream is the engine's outputs in order and ends once, a request
  that nobody reads is aborted, and every call returns, whoever dies;
- device: a step computes from its own inputs whatever is in the shared buffers;
  each sequence gets its own logits; each row attends to each of its keys once;
- kernels: the fused expert path and the reference path select the same experts,
  and multiply the same rows by the same experts' weights and routing weights into
  the same tokens; no part of a stop string, nor text behind it, is sent.

## Modules

| Module | Models | Built on |
| --- | --- | --- |
| `Sequence` | `Sequence`, as a record and operators | |
| `BlockManager` | `BlockManager`, `FreeKVCacheBlockQueue`, `Block`; the slots of the KV memory | `Sequence` |
| `KVBlockPool` | abstract specification of the block manager: no queue order, no tokens | |
| `KVBlockPool_proofs` | theorems about the pool | `KVBlockPool` |
| `PrefixCache` | the block manager as a state machine, and its refinement of the pool | `BlockManager`, `KVBlockPool` |
| `BlockManager_proofs` | lemmas on the manager's operators (queues, tables, slots, chained prefixes) and on the scheduler's lists | `BlockManager` |
| `PrefixCache_proofs` | theorems about the block manager and the cache memory, and the refinement | `PrefixCache`, `BlockManager_proofs`, `KVBlockPool_proofs` |
| `Scheduler` | `Scheduler`, both policies, scheduler half of the NIXL connector | `BlockManager` |
| `LLMEngine` | `LLMEngine.step` with the runner's effect on KV memory | `Scheduler` |
| `Loops` | induction for loops, with the loop's body and invariant as parameters | |
| `LLMEngine_proofs` | theorems about the life of a request, its counters and the batches | `LLMEngine`, `BlockManager_proofs`, `Loops` |
| `LLMEngineLive` | `EngineCore.run`'s loop and fairness | `LLMEngine` |
| `Serving` | `_serve` and its generators, `AsyncLLM`, `OutputProcessor`, `AsyncMPClient`, `EngineCore` as a process | |
| `Serving_proofs` | theorems about streams and requests | `Serving` |
| `KVTransfer` | abstract specification of a KV transfer between two engines | |
| `NixlTransfer` | both worker halves of `NixlConnector`, rank by rank, and `KVOutputAggregator`; its refinement of `KVTransfer` | `KVTransfer` |
| `NixlTransfer_proofs` | theorems about the transfer, and the safety part of the refinement | `NixlTransfer` |
| `DeviceStream` | the CUDA stream, `InputBuffers`, graph buffers, step kinds, `SampledTokens` | |
| `BatchPlan` | `prepare_batch`'s layout of a batch, and the keys each row attends to | |
| `Drafting` | `RejectionSampler` and the inputs of the drafter's passes | `BatchPlan` |
| `Experts` | expert selection, placement, alignment and the fused kernel's tiles, in the torch and the Triton form | |
| `StopChecker` | `StopChecker`, over sequences of characters, and a text pushed through it piece by piece | |
| `Kernels_proofs` | theorems about steps on the device and about stop strings | `DeviceStream`, `StopChecker` |
| `Kernels` | `BatchPlan`, `Drafting` and `Experts` as computations on one job each, beside the device stream and the stop checker | `DeviceStream`, `Drafting`, `Experts`, `StopChecker` |
| `MC...` | workloads, one module per specification that is run | |

Representation choices:

- A block hash is the token prefix it chains over: hashes are taken to be
  injective. `Block.token_ids` is the last block of that prefix, so the code's
  comparison of tokens after a hash hit is kept.
- The Scheduler object is one record; each method is an operator from record to
  record, and an engine action applies whole methods. A loop of a method is one
  operator for its body (`PreemptVictim`, `ServeNext`, `AdmitNext`,
  `AdmitNextWhole`, `CommitNext`...), applied by `Repeat` as often as the loop can
  turn at most; a round past the loop's end changes nothing. The block manager's
  loops are in closed form, or recursive functions (`Keep`: a queue without the
  blocks taken from its middle).
- KV memory holds, for each slot, the token prefix whose key and value were
  computed there; a slot written for a rejected draft or by a failed load holds
  nothing usable. This is what lets `ReadsOwnPrefix` speak about attention
  without modelling it.
- The tokens of a step are chosen when it is launched and kept in `in_flight`;
  the scheduler reads them only in `Reconcile`, one step later. A speculative
  row returns any number of kept drafts and one token more.
- In `LLMEngine` the connector's workers are a free choice of reports per step:
  any held send ended (read or expired), any load ended, well or badly.
  `LoadMemory` writes the blocks a load started with, whoever owns them by then.
  That choice is one engine's view of `KVTransfer`, which `NixlTransfer` is
  checked to implement.
- `Serving` has one handler per HTTP request with the await it stands at; an
  action is what runs on the event loop between two awaits. The two ZeroMQ
  sockets are FIFO sequences. A killed core loses an unsent tail of its messages
  (`CoreKilled`); a core whose step raises sends its last message first
  (`CoreDies`); once it is gone, a send may or may not notice. The engine is a
  set of live requests that get outputs or refusals in any way. Scraping
  `/metrics` after shutdown fails on the closed socket, which ends that call
  like a dead engine does. When receiving or unpickling a message raises
  (`ReadFails`), the client takes the core for dead: it reads no more, fails
  everybody and sends no further abort. The core may be alive. It then works on
  until its requests end or the server stops, and the comment at
  `core_client.py:133`, "the blocks went with the engine", is not true in this
  one case; `NoOrphan` speaks of the time in which the client reads.
- `NixlTransfer` has a producer and a consumer engine with their ranks. Blocks
  are heads: `landed` records which of the producer's heads ended in which place,
  so that a wrong share shows. The producer is one engine throughout, so
  `_handshake` never finds another one at a known address (a producer that
  restarted). Notifications are an unordered set. The clock is
  `Deadline`, which may strike any time (in topologies without faults, only
  before a consumer asks: `InTime`).
- `DeviceStream` keeps a buffer's entries as pairs of the batch and token they
  were written for, so a pass that uses another step's entry shows. Host and
  device run independently; only what the code synchronizes on is ordered. A batch
  is decodes of equal length, which may take a full graph, or a mixed one: prompt
  chunks, decodes beside them, decodes with unequal drafts. A mixed batch takes no
  full graph, whatever its rows, so it stands as one row of its tokens; the
  number of its rows that sample, from none to all, is what the proposer goes on
  with.
- In `BatchPlan` a token is the sequence and the position it belongs to, or
  marked as stale or gone. `DraftTokens` gathers the drafts to verify from such
  inputs, so one of another row or position shows in `DraftsFollow`.
- In `Experts` a product of a GEMM is a record of what it joins: the input row, the
  expert's weights, the routing weight, and for the second GEMM the products of
  the first that it reads and the token it is added to. `ExpertsAgree` compares
  these; the arithmetic itself is not modelled.
- `Kernels` chooses one job in its initial state: a computation, a stream of steps,
  or a text streamed past the stop checker. The references
  its properties compare with are stated in the properties themselves.
- `clients` is a history variable: what each request was delivered.
- An assertion of `block_manager.py` that fails (an empty queue at `popleft`, a
  block that is not in it at `remove`, a reference count, a table that is not
  empty) sets `bm.asserts` to FALSE rather than stopping, so that it can be checked
  as an invariant.
- An operator commented "Fault" is a plausible bug in the definition that follows
  it. No action uses one; `PROJECT.json` pairs each with the property that
  detects it, as evidence that the property is sensitive to the code.

Left out of the modelled parts: timestamps, metrics, profiling, `generate()`,
pickling, `ignore_eos` and client stop tokens (both only change which token
stops: `Eos` stands for any stopping token), request validation (the workloads
are valid requests).

## Runs

All runs finish within a minute and a half on two workers.

| Run | Question | Result |
| --- | --- | --- |
| `kv_block_pool` | does the abstract pool keep its promises? | passes |
| `prefix_cache` | does the block manager implement the pool, without tripping an assertion or serving another prefix's KV? | passes |
| `engine_async` | async scheduling with chunked prefill, transfers, preemption, drops, aborts and a reused id: queues, blocks, KV contents, outputs | passes |
| `engine_sync` | synchronous, priority, chunking off: batch limits, whole prompts | passes |
| `engine_spec` | speculation with K = 2, one step ahead: accounting, slots and block-table width, KV contents, stop reasons | passes |
| `engine_live` | does every request end, and does the engine drain? | passes |
| `serving` | whatever fails or leaves, and whenever: are streams faithful, is no request orphaned, does every call return? | passes |
| `nixl_transfer` | do the workers keep blocks while read, report loads only when all ranks are done, count readers right, and implement `KVTransfer`, liveness included? | passes |
| `kernels` | do steps keep apart on shared buffers, and is the index arithmetic of batches, chunks, drafts, experts and stop strings right? | passes |
| `spec_capacity` | "Alone in the cache and still short of a block: it can never fit" | violated |
| `kv_abort_holds` | an abort "frees the blocks" | violated |
| `preempted_prompt` | a preempted sequence "is recomputed later" | violated |

The three violations are places where a comment or document and the code
disagree:

- `spec_capacity`: `_make_room` counts draft slots, so a lone sequence that fits
  without its drafts is dropped because of them.
- `kv_abort_holds`: a stop-string abort carries the reason "stop", which
  `request_finished` takes for a stop token, so a prefill instance holds blocks
  for a reader that never hears of them, until the send times out.
- `preempted_prompt`: chunking off, a preempted sequence must recompute prompt
  and completion in one step; once that exceeds `max_num_batched_tokens` it is
  dropped as "capacity", although the cache can hold it.

`engine_sync` has no transfers on purpose: a request that returns from a remote
load joins `running` as a prefill and is batched with decodes although chunking
is off, so `WholePromptsOnly` is a property of local requests only. Nor does every
row compute something there: `_schedule_whole_prompts` admits a remote load with no
tokens of the budget, and when the load then does not start (the remote block list
does not match) the request is scheduled with what is left of it, which may be
nothing. `EngineBatches` therefore assumes chunking, or no connector.

### Bounds

- `kv_block_pool`: 3 blocks, 3 sequences, 2 prefixes, all interchangeable
  (symmetry). Enough for a block shared by two while the third evicts.
- `prefix_cache`: blocks of 2 tokens, 3 blocks, prompts `<<1,1,2>>` and
  `<<1,1,1,1>>` with a common first block, sequences of up to `MaxLen` = 5
  tokens: partial blocks, growth over a boundary, duplicate copies, eviction.
- engine runs: 2 or 3 requests with prompts of 1 to 6 tokens and completions of 2 to
  5 (`MCLLMEngine`), vocabulary {1, 2} with 2 ending a completion, blocks of 2
  tokens, 3 to 6 blocks. In these instances TLC reaches preemption (also of a
  request with a row in flight, and twice of one request), capacity drops, shared
  blocks, aborts while loading, failed loads, held sends, a mismatched block
  list, reuse of an id, and steps that reject every draft.
- `serving`: two calls at a time, out of two requests (one streaming with two
  outputs, one not, with one) and a metrics call. Two are enough for one to be
  tracked, in transit or in the engine while another dies or leaves with it.
- `nixl_transfer`: two producer ranks read by three consumer ranks and three by
  two, where neither size divides the other and reader counts differ by rank; two
  requests over one rank; and, with failing handshakes, reads and notifications
  and any deadline, one rank read by two, and latents read from the first of two.
- `kernels`: device streams of up to `MaxSteps` = 3 steps with at most four rows,
  in every graph mode, without and with two drafts, with mixed batches of two
  tokens and of one less than the budget (`chunks`) of which any rows sample, for buffers that grow from
  `MinCapacity` = 2; batches of up to three rows of prompt chunks and decodes,
  pending or not, with 0 or 2 drafts, blocks of 2 tokens and key budgets 1 and 3;
  one or two rows to verify; three experts in one group, and six in three, with
  ties; two and three tokens of two experts on one or two ranks in tiles of 2, so that the
  scan of the counts takes one round or two; texts of up
  to `MaxText` = 6 characters in pieces of up to 3.
- Requests are added once each; deadlock is not checked in the engine runs because
  an engine whose requests have all ended idles.

### Fairness

`LLMEngineLive` assumes `StepFairness`: the loop of `EngineCore.run` goes on
calling `step()` while the engine is not finished, which it does without any
condition, also when a step finds nothing to do (`tick` makes such a step
visible). `TransferFairness`: no load and no held send lasts forever. That is
`KVTransfer.Ends`, and `nixl_transfer` derives it from the connector's own
threads. Nothing is assumed of clients: they may abort or not.

`NixlTransfer` assumes one weak fairness, `WF_vars(Transfer \/ ProducerStep \/
ConsumerStep)`: while any thread, read, timer or engine step can do something,
something is done. The transfer thread polls in a loop, the engine core steps
while sends or loads are open, NIXL ends each read with success or an error, and
the deadline of a send (`LEAN_VLLM_KV_ABORT_REQUEST_TIMEOUT`) passes. Requests
need not be offered or loaded.

`Serving` assumes weak fairness of what the event loop runs (a handler whose
future is done or whose stream has an item, the response's own clean-up, the
reader of messages, the exit callback, the output handler) and of the core's
loop (handling inputs, stepping while it has requests). Clients owe nothing but to
go on reading what is streamed to them until they leave; nobody has to disconnect,
and no failure has to happen.

Safety is all that is asked of `Kernels`; it has no fairness.

## Proofs

Every theorem holds for all values of the constants under the assumptions named
with it, which TLC evaluates on each run. Each specification has one inductive
invariant (`IInv`; the engine has `LifeInv` and on top of it `CountInv`, the device stream's `StreamInv`, the stop
checker's `TextInv`); its proof has a lemma for the
initial states, one per action, and under an action one step per part that the
action can disturb. The properties the runs check follow from it.

### The block pool: `KVBlockPool_proofs`

For any sets of blocks and prefixes and any finite set of sequences
(`PoolAssumption`; `None` is neither a block nor a prefix):

- `PoolInvariant`: `Spec => []IInv`, where `IInv` is `TypeOK`,
  `RefCountsHolders`, `IndexSound` and `SharedIsPublished` together;
- `TypeCorrect`, `RefCounting`, `PrefixCacheSound`, `NoSharedWrites`: its parts;
- `PublishedStable`: `Spec => LabelsStable`, an action property.

None of the parts is inductive alone. That a released block with count 1 has no
holder left needs exact counts; exact counts after a hit need that a free block
has no holder; that a shared block is published needs that a hit's label is set,
which is `IndexSound`; and `IndexSound` after eviction needs that a handed-out
block was not in use.

### The block manager: `BlockManager_proofs`, `PrefixCache_proofs`

For any number of blocks (`NumBlocksAssumption`), any positive block size
(`BlockSizeAssumption`), caching on or off, any finite set of requests with
nonempty prompts of at most `MaxLen` tokens (`ReqsAssumption`), and a `None` that
is neither a block nor a prefix (`NoneAssumption`):

- `CacheInvariant`: `Spec => []IInv`;
- `NoAssertionFails`: no `assert` of `block_manager.py` fails, `remove`'s included;
- `HitsHoldTheirPrefix`: `CacheHoldsPrefix`, a block found by its hash holds the
  keys and values of exactly that prefix, slot for slot;
- `ImplementsPool`: `Spec => PoolSpec`, every step is a step of the pool.

`IInv` begins with the pool's own invariant under the refinement mapping
(`PoolProofs!IInv`). It is not proved again: each action's lemma shows the step
to be a step of the pool, and the pool's lemmas, reached through `INSTANCE
KVBlockPool_proofs`, carry the invariant over. The other parts are what the pool
does not know: the free queue lists each unused block once (`QueueIsFree`), a
table covers its sequence's tokens and its published blocks carry its prefixes
(`Settled`, `Labelled`), a computed position's slot holds its prefix (`Computed`),
and so does every labelled block, in use or free (`LabelHolds`). What a sequence
reads on a hit is what another wrote before it published the block, so memory,
labels and index have to be followed together.

`BlockManager_proofs` holds the lemmas about operators, and those about queues and
lists that the engine's proofs need. The library's induction
theorems take a predicate, which the provers cannot instantiate. Where a fact
about a recursive function is needed (that `Keep` keeps order and members, that a
greatest member exists), `UpTo` gives induction over the numbers up to a bound
for a set instead of a predicate. It follows from the well-foundedness of the
strict subsets of a finite set, applied to the intervals of counterexamples.

### The engine: `LLMEngine_proofs`, `Loops`

For any finite set of requests with nonempty prompts over a finite vocabulary,
any priorities, transfers and token limits, any cache and block size, any
positive batch limits, either policy, chunked or not, synchronous or one step
ahead, with or without drafts or a connector (`SchedulerAssumption`,
`EngineAssumption`, `NumBlocksAssumption`, `BlockSizeAssumption`; as in the code,
drafts and a connector exclude each other):

- `LifeInvariant`: `Spec => []LifeInv`;
- `EngineOneQueue`: `OneQueue`; `EngineDelivers`: `DeliveredIsCommitted`;
  `EngineOneFinal`: `OneFinalOutput`; `EngineReasons`: `ReasonIsTrue`;
- `EngineTokensGrow`: `Spec => TokensOnlyGrow`, an action property;
- `CountInvariant`: `Spec => []CountInv`; `EngineTypes`: `TypeOK`;
  `EnginePending`: `PendingMatchesFlight`;
- `EngineBatchSizes`: a batch never exceeds `max_num_seqs` rows and
  `max_num_batched_tokens` tokens; `EngineBatches`: `BatchWithinLimits`, so also
  that every row computes something, with chunking or without a connector.

`LifeInv` has four parts, and none is inductive alone:

- `Settled`: every request is where its status says and in no queue twice, and
  arrival numbers differ. The priority policy picks victims and sorts by arrival,
  so with equal numbers a sort could lose or repeat a request.
- `Unique`: no two tracked requests share an id, so that an abort by id ends one.
- `RowsFit`: a row in flight is void (its request ended, or was preempted since the
  launch) or its request is running; no request has two rows. The tokens of a step
  are committed after the next one was scheduled, and in between a request may be
  aborted, dropped, preempted, and admitted again. Without the count of
  preemptions in the row, old tokens would be committed to a request that waits.
- `Informed`: a client has the completion of its sequence, token for token, and
  one final output exactly when it ended without being aborted; a live sequence
  is below its limit; and a sequence that ended has a true reason.

`schedule()`, `advance()`, `reconcile()` and the connector's update are loops over
the scheduler record. `Loops` proves once that what every round keeps holds at
the end; `Round` and `Inv` are its parameters, and each loop is an `INSTANCE` of
it. That counting reaches the last round is a hypothesis there, which `CountsUp`
of `BlockManager_proofs` discharges wherever the theorem is used. That is how this
development has induction over data although the library's induction theorems
cannot be used. Within a launch the queues are not settled: a
request being served is in no deque. `Good` therefore takes the set of running
requests as an argument, and says of every sequence that since the start of the
launch it only took the steps a launch may take (`LifeStep`): preempted, started,
or dropped for capacity, its tokens untouched. `Commits` is the same for
`reconcile()`: the tokens grow by those the output carries, and if the sequence
ends, its last token or its length says why. Memory and the block manager are not
looked into: what they do to a sequence is its `SameLife`.

`CountInv` rests on `LifeInv` and has three parts:

- `Counts`: the counters of every sequence are in order (`Counted`). A prefill has
  nothing reserved and something left to compute; a decoding sequence is running
  and computed up to its last planned token; a finished one has nothing reserved;
  between steps nobody is scheduled. Who holds blocks for a send has finished.
- `Owes`, for every live sequence: `num_pending_tokens` is one more than the drafts
  of its row in flight, if it has one that is not void, and 0 otherwise.
- `Fits` and `Sized`: the batch in flight is within its limits, and a row samples
  at least one token and at most one more than its drafts.

The hard step is the asynchronous one. Between the launch and the reconciliation
of the step before it a sequence has two rows, and its reservations are the sum of
both. `Reserved` says what the launch added to what was left (`Left`: nothing, if
the launch preempted or ended the sequence), and `Owing` counts down, row by row,
to what the new step may sample. Within `schedule()`, `Kept` carries the counters
together with the budget: what is left of it is what the rows have not used.

### Serving: `Serving_proofs`

For any set of requests, streaming or not, with any number of outputs
(`ServingAssumption`):

- `Invariance`: `Spec => []IInv`; `TypeCorrect`: `TypeOK`;
- `StreamsAreFaithful`: `StreamFaithful`; `NoRequestIsOrphaned`: `NoOrphan`.

That an output is the next of its stream depends on all outputs between the core
and the stream, in the socket and in the client's queue. `Continues` says they
are ordered, without a gap, and that only the last may be final; it is kept when
messages move from one queue to the other, when a killed core loses a tail of
them, and when the client drops the rest. `Reader` says the same of orphans: an
admission on its way has a tracked stream, or an abort behind it in the same
queue. Both need that a request is added once (`AddedOnce`) and that the client
knows of a death only when the core is gone (`Gone`).

The last is not so once a read has failed. `IInv` is therefore a disjunction:
`Linked`, all of the above, as long as the client and the core are joined or the
core is gone; and `Severed` from the failed read on, where nothing relates the
client to the core any more and the streams continue only with the batches that
were already read.

### KV transfer: `NixlTransfer_proofs`

For any two tensor-parallel sizes, any number of heads that both divide, or
latents, any requests, and any faults and deadlines (`TopologyAssumption`):

- `TransferInvariant`: `Spec => []IInv`;
- `ReadsHeld`: `ReadsHeldBlocks`; `ReportedLoaded`: `ReportedIsLoaded`;
  `ReadReleased`: `ReadIsReleased`;
- `KeepsPromiseSafely`: `Spec => Promise!Init /\ [][Promise!Next]_(Promise!vars)`,
  the safety part of `KeepsPromise`.

The arithmetic comes first. `SharesInOrder`: the ranks a rank shares heads with
are consecutive and each comes once. `Layout`: the consumer ranks that read from
producer rank p are exactly as many as p computes by itself with `HeadShares`,
its sizes swapped. `MovesCover`: the shares of a rank, put together, are its own
heads in their places.

`IInv` then relates counters to sets. A consumer rank has *ended* with a producer
rank once it neither reads from it nor will (`Ended`). The notifications a
producer rank counted are at most the ranks that ended and whose notification is
no longer on its way (`Taken`), and exactly those as long as nothing failed and
the send is neither over nor past its deadline (`Notices`). So a count that reaches
the number of readers means that all have ended, which is why a released block is
not read (`AllEnded`), and a request read by all cannot go on waiting. Both
aggregators' counts are the numbers of ranks that reported (`Reports`, `Sends`);
the shares of a load are posted in order, each producer rank left to notify is
one not reached yet (`Posted`), and a load without failure reads either
everything that moves or nothing (`ReadsWhatMoves`). `Landed` says that until a
deadline passes the memory holds what was read.

### Steps on the device: `Kernels_proofs`

For any set of runner configurations with at least one row and one token per
step, any graph mode, any number of drafts, any mixed batches, any number of
steps and any smallest buffer (`StreamAssumption`):

- `StepsStayApart`: `StreamSpec => []StepsKeepApart`.

`StepsKeepApart` speaks of the pass that just ran; what makes it hold was settled
when its step was staged, any number of device operations before. `StreamInv`
therefore follows the whole stream (`Lined`):

- `OneCopy`: of each owner at most one copy is in the stream. That is what `begin`
  waits for, and why a pinned buffer still holds the values its copy is to bring.
- `Supplied`: the inputs of each pass are staged on the device, or lie in the
  pinned buffer with a long enough copy ahead of the pass. A copy that runs turns
  the second into the first; staging a new step disturbs neither, because it
  waits until no copy of that owner is left, and by then every pass that reads
  from the owner has its inputs staged.
- `Ordered`: the operations are in the order of the steps, and a sample is the
  last of its step, so sample number s takes step s's tokens; `HostInOrder` then
  gives that they are read back as such.
- `DraftDue`: between the target's pass and the proposer's the step's inputs stay
  available, so the proposer's first pass may read the target's.
- `DeviceShape`: graph buffers keep the size of the largest graph. A call
  overwrites its head and clears the slots and lengths behind it, so whatever
  earlier steps left there, the spare rows of the graph write nothing and attend
  to nothing (`GraphPassIsOwn`), also where rows have several tokens.

The choice of a graph is part of it: `_step_kind` takes the full graph only where
a captured size holds the batch, which needs that the row counts and the token
bound agree (`Fits`, `BatchOp`).

### Stop strings: `Kernels_proofs`

For any characters, any finite set of stop strings, the empty string included,
and any pieces of text (`TextAssumption`):

- `StopStringsStop`: `StopSpec => []StopsOnce`.

`StopsOnce` compares with a search of the whole text, while the code searches
only what it holds back. The inductive invariant (`Follows`) adds why that is
enough: before a match the text is what was emitted and then the buffer, has no
stop string in it, and the buffer is all of the text or at least `Hold` long, one
less than the longest stop string. A match that a new piece completes must then
begin in the buffer (`TailFinds`), and the first in the buffer is the first in
the text.

### Only model-checked

- Liveness and fairness (`engine_live`, `EveryCallReturns`, the `Ends` part of
  `KeepsPromise`): out of the prover's reach.
- The engine's `SlotsCovered`, `WholePromptsOnly` and `DroppedNeverFits`: they need
  the blocks and the admission order besides the counters.
- The engine's blocks and memory (`NoBlockLeak`, `ReadsOwnPrefix`,
  `CacheHoldsPrefix`, `HandoverIntact`): the proof does not look into the block
  manager. The same operations are proved where `PrefixCache` calls them, without
  rows in flight and without transfers.
- The index arithmetic in `Kernels` (`RowsLineUp`, `KeysOnce`, `DraftsFollow`,
  `ExpertsAgree`): context chunks and expert picks are recursive operators, which
  the prover cannot use.

## Not modelled, and the plan

Not modelled:

- the arithmetic of models, layers, attention backends and samplers: numerical
  tensor code whose properties TLC cannot reach. Only the integers around it are
  modelled (slots, keys, rows, experts, tiles);
- compilation and checkpoint loading: plumbing without protocol state;
- metrics: counters nothing reads back; configuration, apart from graph modes;
- the disaggregation proxy: it keeps nothing but a round-robin counter, and all
  orders in which its two requests may arrive, or not, are in `NixlTransfer`;
- a producer engine that restarts at its old address while consumers know the
  former one: its requests would be those of another engine, with other blocks;
- the start of the engine process (a failure there ends the server before it
  serves), warm-up and cache sizing, the worker ranks' command loop (every rank
  runs the call rank 0 broadcasts, in lock step);
- the incremental detokenizer: a third-party state machine behind one call;
- request validation and response layout.

Open, in the order of what they would add:

1. `NoBlockLeak` and `ReadsOwnPrefix`: the invariant of `PrefixCache_proofs` carried
   through the same loops, with the blocks of loads and held sends as further
   owners.
