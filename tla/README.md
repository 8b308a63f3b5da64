# RAFTInfer: TLA+ models, model checking and proofs

RAFTInfer runs Qwen3.5 models on one CUDA device. A Rust command line and
runtime call a C ABI; behind it a C++ session drives an executor that launches
RAFT/RMM-backed CUDA work. This directory holds TLA+ modules translated from
that code, the TLC configurations that check them on small instances, and
theorems checked by TLAPS. `PROJECT.json` maps every definition to the lines it
stands for.

## 1. Inventory

| Component | Source | State it keeps | Operations | Modelled in |
|---|---|---|---|---|
| Session, logical host state | `cpp/execution/session.cpp`, `qwen35_state.cpp` | position, one key/value length per full-attention layer, the layout of host storage | prefill, decode, decode_greedy, reset, commit_tokens, slots | `Session`, `TokenLog`, `StateLayout`, `HostState` |
| Executor | `cpp/execution/qwen35_executor.cu` | `position_`, `poisoned_`, trace and replay flags, captured graphs, device token/position/results, caches, recurrent state, logits | prefill, decode, decode_greedy, reset, enable_trace, copy_last_logits | `Qwen35Executor`, `ExecutorDriver`, the kernels of a chunk in `ForwardPass` |
| Executor, construction | `cpp/execution/qwen35_executor.cu` | resolved policy, buffers in the arena, delta schedules | resolve_execution_policy, workspace_estimate, allocate_buffers, tune_delta_schedules | `ExecutorWorkspace`, `DeltaTuning` |
| Decode graph owner | `cpp/execution/cuda_graph_decode.cu` | an instantiated graph or none | capture, replay, reset | `GraphOwner`; captured or not in `Qwen35Executor` |
| Online attention kernels | `cpp/kernels/qwen35_online_attention.cu` | key/value cache, partial-result workspace | plan, append, single-block, partition, merge, prefill tiles | `DecodePlan`, `OnlineDecodeAttention`, `FullAttention` |
| C ABI | `cpp/src/c_api.cpp` | handles, thread-local last error | one function per operation, exceptions to statuses | statuses in `Session`, handles in `HandleLifetimes`, the tokenizer buffer in `TokenizerSpec` |
| Rust runtime | `rust/raftinfer-runtime/src/lib.rs` | none beyond a call | generate_token_ids, benchmark_session, handle wrappers | `Generation` |
| Device context, execution owner | `cpp/foundation/device_context.cu` | pool, stream, arena, shared ownership | create, run_smoke, create_execution_owner, teardown | `HandleLifetimes` |
| Workspace arena and layout | `cpp/execution/workspace_arena.cu`, `workspace_layout.hpp` | base, offset | allocate, reset | `ExecutorWorkspace` |
| GGUF reader, config, manifest, model | `cpp/model/*.cpp` | immutable once loaded, an open mapping | read_catalog, derive, validate, tensor_payload | `GgufReader`, `ModelLoading` |
| CUDA weights | `cpp/model/cuda_weights.cu` | device copies of the tensors | upload | `HandleLifetimes` (as one resource), `ModelLoading` (what it accepts) |
| cuBLASLt plans | `cpp/execution/cublaslt_matmul.cu` | descriptors, selected algorithm, workspace | create, time, run, teardown | `MatmulPlans` |
| Gated delta kernels | `cpp/kernels/qwen35_delta.cu`, `qwen35_delta_policy.cu` | convolution and recurrent state | step, chunk schedules, policy lookup | `GatedDelta`, `DeltaPolicy`, `BlockBarriers`; by its tokens in `Qwen35Executor` |
| Materialized attention, primitives | `cpp/kernels/*.cu` | cache, logits | dense and elementwise kernels, argmax | `FullAttention`, `BlockBarriers`, `ParallelArgmax`, `ForwardPass` |
| Operator registry, tensor validation | `cpp/registry`, `cpp/operators` | registered providers, a resolution cache | register, resolve, validate | `OperatorRegistry`, `TensorValidation` |
| Reference backend | `cpp/reference` | host tensors | the same calls | the reference definitions of `GatedDelta`, `FullAttention`, `ForwardPass`, `ParallelArgmax` |
| Tokenizer | `rust/raftinfer-runtime/src/tokenizer.rs` | immutable vocabulary | from_spec, encode, decode, chat template | `TokenizerSpec`, `Tokenizer` |
| CLI, benchmark records, scripts | `rust/raftinfer-cli`, `cpp/benchmarks`, `scripts` | none | parse, print | not modelled |

How they interact. A call goes Rust → C ABI → `Session` → `Qwen35Executor` →
stream. The session validates a request against its own position and context,
the executor checks that it is not poisoned, changes device state step by step
and only then moves its own position; the session commits its logical lengths
last. An exception passes through all of them and becomes a status. There is
one calling thread per session; concurrency is between that thread and the
device, and between the blocks of a kernel. Everything per sequence is lost at
a reset, except the captured graphs and the scratch buffers.

What is hard.

* State is duplicated: the session's position, every layer's length, the
  executor's position, the device's position, the length of the cache and of the
  recurrent state. No two of them are updated together.
* A captured graph is a frozen decision. It reads token and position from the
  device, was planned for a context bucket, survives reset, and is chosen by a
  position map computed elsewhere than the kernel's own dispatch.
* Any CUDA call may fail, with some layers having consumed the token.
* Split-K workspace is reused across steps without being cleared.
* Handles are destroyed in any order, share what is behind them, and every
  destructor has to select a device first, which may fail.
* The size of the arena and what is taken out of it are computed by two lists
  that nothing but their author keeps alike. So are the host layout's sizes.
* A layer reads what other layers left in buffers that all layers share, in an order
  that only the stream keeps; norms work in place; chunks of different sizes and
  schedules have to leave the same state as one token after another.
* Plans are tuned in the session's own buffers and by functions of which any may fail.
* The tokenizer's metadata is written by C++ and read by Rust, each with its own idea
  of the format; encoding and decoding have to be inverse through three encodings.

What makes each component correct.

* Session: a session is a log of tokens; every answer is the model's prediction
  for exactly that log; failed calls answer nothing and do not move it.
* Executor: cache, recurrent state and position stand for the same tokens unless
  poisoned; replay happens where the host thinks it does; poison lasts until a
  reset.
* Decode attention: every head sees the whole context and nothing else,
  whichever kernel runs, and both ways of launching choose the same kernel.
* Runtime: generation is the greedy continuation of the prompt, whatever the
  session did before; a request that was validated is never refused for room.
* Lifetimes: device resources outlive every owner, whatever the order in which
  handles are destroyed; each is released once, on its device; the caller's
  device is as it was.
* Arena and estimate: what construction allocates fits what was estimated;
  buffers do not overlap; kernels stay inside them.
* Loader: reading never leaves the file; no accepted tensor reaches outside it, no two
  share a byte, and the payload the upload asks for is the one that was accepted; a model
  that was let through has the shapes and types the kernels index by.
* Forward pass: whatever the chunks, what a layer reads is what the reference would
  have it read; the logits, the traced rows and the states left behind are those of the reference.
* Kernels: gated delta and full attention equal their references for every schedule,
  grid and chunking; threads do not meet in a float; barriers are reached by all.
* Plans and tuning: what is launched was made for it; a schedule is replaced only by
  one that computes the same; nothing that a failing call left behind stays.
* Registry and validation: an answer is the best of what is registered, cached or not;
  a descriptor is accepted exactly if every element lies in its bytes.
* Tokenizer: what the loader writes is what the runtime reads; a text comes back from
  its tokens; merges happen in the order of their ranks.

## 2. Plan

1. `DecodePlan`, `OnlineDecodeAttention` — the planning arithmetic and the decode
   kernels. *Done.*
2. `Qwen35Executor`, `ExecutorDriver` — the executor, driven freely. *Done.*
3. `TokenLog`, `Session` — the abstract promise and the session that implements
   it. *Done.*
4. `SessionProofs` — the safety properties of 2 and 3 and the refinement, for every
   value of the constants. *Done.*
5. `Generation` — the Rust loops over a `TokenLog`. *Done.*
6. `HandleLifetimes` — handles, shared ownership of device resources, weights and
   execution owners, teardown that cannot select its device. *Done.*
7. `ExecutorWorkspace` — policy resolution, the estimate against the allocations of
   construction, the arena's layout. *Done.*
8. `GgufReader` — the catalog of any file. *Done.*
9. `StateLayout`, `HostState`, `ModelLoading` — the session's logical storage, and
   what loader, upload and executor agree about a model. *Done.*
10. `MatmulPlans`, `DeltaPolicy`, `DeltaTuning` — plans, algorithm selection and
    schedules, with calls that fail. *Done.*
11. `GatedDelta`, `FullAttention`, `BlockBarriers`, `ParallelArgmax` — the kernels
    against the reference backend, their threads and barriers. *Done.*
12. `ForwardPass` — the composition: layers, chunks and shared buffers. *Done.*
13. `OperatorRegistry`, `TensorValidation`, `TokenizerSpec`, `Tokenizer` — what crosses
    the interfaces. *Done.*
14. `GraphOwner` — a capture step by step, and what remains of one that fails. *Done.*
15. `WorkspaceProofs` (7, 14), `HostProofs` (5, 9), `ConstructionProofs` (8, 10),
    `KernelProofs` (1, and the layers and grids of 11), `InterfaceProofs` (6, and registry and
    tensors of 13), `ForwardProofs` (12, and the blocks of 11) — their safety properties
    for every value of the constants. *Done.*
16. Left, proofs: the tokenizer's round trips, which recur over texts.
17. Left, models: the chat template and the tokenizer's checks of a model's name.

## 3. Modules and the code

`DecodePlan` is pure. `ContextBucket` is the doubling loop, `OnlineDecodePlan` the
plan record, `VariantIndex` and `VariantPlan` the graph variants created at
construction and the map from position to variant. Token counts are constants:
`MinContextBucket` is 512 in the code, `Partition` 256 or 512.

`OnlineDecodeAttention` runs one step: append, single-block kernel, partition
blocks in any order, merge, each deciding from the position as the kernel does. A
launch is eager or the replay of the frozen variant. Arithmetic is abstracted to
the set of positions an output was computed from; a workspace slot records what it
covers and whether the current launch wrote it.

`Qwen35Executor` has one action for each step of a call between which a CUDA call
may fail, with a program counter and the call's local variables. A cache cell
holds the token it was written for; the convolution and recurrent states of the
linear layers are the sequence of tokens folded in; logits are the pair of contexts
they were computed from, and `Argmax`, a constant operator, turns them into a token.
All full-attention layers share one abstract cache and all linear layers one
sequence; a failed chunk may leave each of the two kinds written or not. `Dispatch`,
`DecodeEager`, `PrepareNext`, `UploadToken`, `CaptureInRun`, `Replay` and `Download`
are the branches of `decode` and `decode_greedy`, which share them. `ExecutorFailure`
is any of them throwing, with what it may have changed before; `Throw` is the catch
block that poisons. `ResetFails` stops after any of the memsets.

`ExecutorDriver` calls the executor in any order, as the logits probe does. `Session`
adds the logical state, `HasRoom` (validate_request), `Commit` (commit_tokens),
`Surface` (an exception as a status) and the resets of both levels.

`TokenLog` is the abstract specification: a log, a mode and the last reply.
`Session!Log` instantiates it; the history is the recurrent sequence while the
executor is whole and empty otherwise.

`Generation` is the program of `generate_token_ids` and `benchmark_session` over the
operations of a `TokenLog`, so that what `Session` is shown to implement is all the
loops rely on. `OtherUse` is whatever the caller did with the session before; each
call may also fail. `BoundedSeq` and `BoundedSeqLemmas` hold the few facts about
sequences that these modules and their proofs share.

`HandleLifetimes` has the handles of the C interface. A destructor is a stack of work
(`todo`): it pops its members in reverse order of declaration, each pop may release
the last reference to something else, and every guard that selects a device may fail.
Shared pointers are sets of holders. Creation is split at each step that may throw
(`EngineFails`, `LoadFails`, `AttachFails`, `OwnerFails`, `ExecutorFails`), which unwinds
through the same destructors. What the model brings out is that lifetimes are doubly
protected: a model holds the context and, by the anchor of its weights, the pool
itself, and a session reaches the pool through its model as well as its arena.

`ExecutorWorkspace` is a construction from the session's first estimate to the last
buffer. `Estimated` and `Allocated` are the two lists, with each product grouped and
checked, or left unchecked, as the code has it; `FixedBuffers` and `BuffersOf` give the
order, which both follow. A word is `0..WordMax`: a checked operation that does not fit
is `NoSize` and refuses, an unchecked one wraps. `Estimate` adds one buffer at a time
and keeps the running totals (`marks`) only so that the invariant can speak of them.
`Operands` says how many bytes of each buffer the kernels touch, from the shapes
`run_chunk`, `run_full_layer` and `run_linear_layer` pass them.

`GgufReader` is `read_catalog`. A file is known by its size and otherwise chosen as it
is read: every step reads an entry with any values in its fields, requires its bytes,
charges its storage, and is followed by the next or refused. `Entry` is a metadata entry
of any kind, `Element` an element of an array (scalars and strings), `ReadTensor` a
descriptor, `EndTensors` the start of the data, `CheckSpans` the checks behind the table.
Sums and products are those of words, `NoWord` where a checked one fails; the fields of
an entry are one step, since nothing but a refusal can come between them. The order of
`std::sort` is any order by beginnings. `Payload` is the range `tensor_payload` computes
again. Names are not spelled: whether a key is one is a constant set.

`StateLayout` and `HostState`. `Created` is the layout `create` computes, `ValidLayout` the
check of the constructor, which computes all of it again; they share no arithmetic in the code but
have to agree. `HostState` runs a session's storage through slots, commits and resets,
from a layout that was created or edited since. A float holds the block that wrote it last,
so that two blocks with overlapping spans would be seen.

`ModelLoading` follows a file through `Model::load`, the derived configuration, the
manifest and the upload, each step checking in words of its own width. The properties
compare what got through with what the executor's kernels will index by.

`MatmulPlans` creates, tunes, shares, runs and destroys plans. What a plan owns is made
piece by piece (`live`), and any library call may fail: what is held then is taken down
again: what `create_plans` has in its hands while the constructor's guard holds the
device, the plans it has kept when that guard is gone (`LeaveConstructor`), or when the
session is destroyed on any device (`Close`). A plan that goes selects its device itself
(`Guards`): it cannot, and then its parts are left for good (`leaked`); it is on it
already; or it switches, and may be denied to switch back, which the code does not look
at. What was denied is kept in `denied`, so that the properties can tell a leak that
`~Impl` accepts from one it does not know of. A destroy whose status the code drops is
taken to work; the one whose status it throws may fail. The heuristic answers with any
algorithms, a run takes any of a few times.

`GraphOwner` has the owners of the decode graphs on their one stream: the reset before a
capture, the launches that are recorded, the handler around them, the end of the capture,
instantiation and replay. The attention plan a capture freezes comes from a variable of
the executor that is set before (`plan`), as in the code. In `Qwen35Executor` all this
is one step, which happens or throws; `GraphOwner` says why that is enough: a capture that throws leaves no
graph, and the stream as it was.

`DeltaPolicy` is the lookup of launch policies. `DeltaTuning` runs the current schedule
and a candidate in the session's own buffers, bucket by bucket, compares, times and
decides; whether a candidate computes the same is a fact chosen at the start (`right`),
unknown to the code. `GatedDelta` is the layer as four kernels on flat arrays, each with
its grid, tiles and warps, for every schedule; its reference, kept in `promised`, is the
recurrence of `cpp/reference` one token after another.

`FullAttention` is the attention layer in the same way, with four ways to attend and two
layouts of the cache; its reference attends to each token's own prefix. `ForwardPass`
composes: the list of kernels of a chunk with the buffers each reads and writes, the
swap of the hidden rows, a state per layer found by a table. Rows that an earlier chunk
left in a buffer are "old", so that a kernel reading past its chunk is seen.
In these three modules a kernel is one step of the stream; that the order of its threads
makes no difference is `NoRace`, `StaysInside`, `AppendsOnce` and `LogitsStayInside`.

`ParallelArgmax` and `BlockBarriers` (a norm, a row of attention) go below that: threads
(or warps), shared memory and barriers. `BlockHalving` is what two of them share, the
strides by which a block of threads is halved. A thread waits at a barrier until all of
its block have arrived, so TLC's deadlock check is the check that no barrier is left by
some and waited for by others.

`OperatorRegistry` keeps registrations as places in a sequence, since references into
a deque stay good; any allocation may fail between two of a call's steps.
`TensorValidation` is the byte range of a strided tensor, one dimension a step, in words
that could wrap. `TokenizerSpec` writes the metadata as C++ does and reads it as Rust does,
and lets a caller hand over a buffer that was cut or extended. `Tokenizer` is the runtime's:
built from metadata (accepted or refused), `encode` with protected tokens, pieces and
merges, and `decode`. Its properties are stated for what makes them true: `Plain` protected
tokens (none is also what other bytes merge to) for the round trip, `Trained` merges (each made of parts that earlier merges or bytes
make) for the comparison with pair-by-pair merging.

Three modules put parts that never run together into one run: `LayerKernels`,
`MCConstruction` and `MCInterfaces`. One part is at work from the start of a behaviour
to its end; the variables of the others are off, at values of which their properties
say nothing. What is checked of a part is what it
would be on its own; the parts share only the run.

Abstractions worth knowing. (a) The logits buffer keeps old values across a reset and
device token and result buffers keep theirs across calls; the model blanks them, so
that a later read that depends on them would be seen as a wrong answer. (b) A refused
request with a token outside the vocabulary is folded into `RefuseInvalid`: it has the
same status and effect. (c) Host-side failures that happen before anything is changed
(argument checks, null pointers) are the refusals; others are `ExecutorFailure`.
(d) The diagnostic reads (`position`, `diagnostics`, `copy_last_logits`) change
nothing; `LogitsAreCurrent` says what the last of them returns. (e) A floating-point value is
what it was computed from: a set of products, a term, a token. Rounding is left out,
so that sums in another order are equal; a cast stays visible in `ForwardPass`. (f) A rotary width of zero
is accepted by the reference and refused by the device's primitive; no instance has it.
(g) Code points in `Tokenizer` go to 2047, one byte or two. (h) `__activemask()` in a
broadcast of the delta kernel (`qwen35_delta.cu:450`) is taken to be the whole warp.

## 4. Runs

| Run | Question | Bounds | Distinct states |
|---|---|---|---|
| `online_decode_attention` | Does every head see the whole context, by either launch, and does it merge only what this launch wrote? | context 7, bucket 2, partition 2, 2 heads | 2.7 thousand |
| `executor_driver` | Do cache, recurrent state, device position and logits stay together? | context 4, bucket 2, partition 2, 2 tokens, chunks 1 and 2 | 355 thousand |
| `session` | Do positions agree, does only success commit, is a session a token log? | as above, model context 5, 2 layers | 489 thousand |
| `session_torn_reset` | Is a healthy executor whole? No: a failed reset | as above | - |
| `generation` | Is generation the greedy continuation of its prompt, does every benchmark iteration do the same? | context 4, 3 tokens, one of them the stop token; 1 warmup, 2 measured iterations; prompts and requests up to one longer than the context | 1.4 million |
| `handle_lifetimes` | Is what a handle needs there, and released once? | 1 engine, 2 models, 2 sessions, 2 devices, each handle created once | 42 thousand |
| `executor_workspace` | Is the arena large enough, do kernels stay in their buffers? | 17 configurations, all 32 policies, words of 30 bits | 31 thousand |
| `gguf` | Is every accepted payload there, and no two share a byte? | words of 8 bits, files of 60 and 200 bytes, 1 metadata entry, 3 tensors of up to 2 dimensions | 620 thousand |
| `layer_kernels` | Do the kernels of a layer compute what the reference does, and do threads need an order? | shapes of 1 to 3 heads and widths to 4, all schedules and layouts; blocks of a few threads | 84 thousand |
| `forward_pass` | Is every row what the reference calls it, through shared buffers and chunks? | 2 layers of each kind, chunks of 1 and 2, context 4, 2 tokens | 43 thousand |
| `construction` | Does what loads fit, do blocks keep their state, do plans and graphs fit and give back, are schedules sound? | words 255 and 15; one field of a model odd, or any mixture of head counts; 3 models of up to 2 blocks for plans, 3 algorithms, 2 denials to guards and destroys (`MaxDenied`); 2 graph variants of 3 launches | 1.57 million |
| `interfaces` | Are descriptors, kernels, texts and metadata taken for what they are? | words of 4 bits; 6 kernels and 3 requests; texts to length 5; 7 tokenizers; every type of value | 876 thousand |

Why the bounds are enough. The constants scale 512 and 256 to 2; what matters is the
order of the thresholds. With context 7 the buckets are 2, 4 and 7 (the last cut), the
capacities 1, 2 and 4, the partition boundary is met exactly and with a remainder.
With context 4 there are three graph variants, so a greedy run can cross two variant
boundaries, find the next variant captured by an earlier run or not, and start eagerly
or by replay. Chunks of one and two tokens give prompts of several chunks with a
smaller last one. `ContextLength` is one more than `MaxContext`, so that the executor's
own check and the session's differ. Two tokens and an `Argmax` that depends on the
last token, and on whether both contexts are the same, make wrong context visible.

Generation needs prompts and requests that fit exactly, by one too many, and a
prediction that stops early; the context of 4 leaves room for each. Two models of one
engine and two sessions, of the same model or of different ones, give every sharing
two owners can have; the caller's device is not the engine's in half of the states.
`executor_workspace` uses the real constants: contexts of 1, 3, 20, 130, 255, 256, 511,
600 and 100000 lie on both sides of the chunk of 512 and of the partitions of 256 and
512; one configuration has a vocabulary whose logits wrap in the estimate, others an
intermediate size above and below the hidden size, every mixture of block kinds,
widths that `validate_config` refuses, and weights the executor refuses. In the
GGUF run words of eight bits make products of two dimensions and sums with an
offset overflow; the shortest file ends in the table, the others in the data or behind
it; alignments are zero, no multiple of eight, usable, or too wide; an array's reserved
storage is what meets the catalog limit. Three tensors are enough for a pair that is not
a pair of neighbours. The proofs below take the bounds away.

The shapes of `layer_kernels` have heads that share keys or not, tiles, warps and blocks that do
not fill, convolution windows longer and shorter than a chunk, and chunks after others. Its argmax has ties
within and across blocks, numbers that are none, and fewer logits than threads. In
`forward_pass` each kind of layer occurs twice, so that one could take another's
state, and a chunk of one follows a chunk of two, so that a row is left over. Models of
`construction` put each field at zero, at a misfit and beyond its word; its plans share a
configuration or do not, and one has too many columns for a descriptor; two denials let
one plan fail to go back to the caller's device and a later one fail to select its own.
In
`interfaces` a tensor's product, its sum, or only the last of several sums is too large;
one protected token is the beginning of another; merges are out of order.

Fairness. The calling thread continues a call it is in (weak fairness on the steps,
commit and surface of a call), and work enqueued on the stream is executed (weak
fairness on the kernels). Nobody has to call, nothing has to fail, nothing has to
succeed. Failure is not fair: `CallsEnd` holds because a call has finitely many steps.
In `HandleLifetimes` the fair action is the work of the call in progress, since
constructors and destructors run on the calling thread without waiting for another; in
`Generation` it is the loop itself. The other modules have no liveness property.
Deadlock is allowed in `handle_lifetimes`, where each handle is created once, in
`executor_workspace`, where construction ends, and in `gguf`, `construction` and
`interfaces`, whose parts end too. It is checked in `layer_kernels`, for the barriers, and in `forward_pass`.

`online_decode_attention`: `AttendsWholeContext` (the merge reads only what this launch
wrote, and outputs cover the context), `SameKernelAsEager`, `LaunchCompletes`.
`executor_driver`: `ReplayPositionAgrees`, `LogitsAreCurrent`.
`session`: `PositionsAgree`, `OnlySuccessCommits`, `CallsEnd`, `ImplementsTokenLog`.
`generation`: `GreedyContinuation`, `ValidatedIsNeverRefused`, `IterationsRepeat`,
`ProgramsEnd`.
`handle_lifetimes`: `SessionsReachTheirMemory`, `NothingLeftBehind` (with `LifetimeInv`,
who holds what between calls), `FreesAreSound`, `CallerDeviceKept`, `CallsOnHandlesEnd`.
`executor_workspace`: `EstimateSuffices`, `ArenaPassesCheck` (the executor's own check of
an arena the session sized never fails), `OperandsStayInBuffers` (kernels stay in buffers that do not overlap).
`gguf`: `PayloadsAreThere`, `TensorsDisjoint`.
`layer_kernels`: `DeltaMatchesReference`, `AttentionMatchesReference`, `ThreadsStayApart`,
`BarriersSuffice`, `ArgmaxIsFirst`.
`forward_pass`: `RowsMatch` (logits and traced rows), `StatesMatch`.
`construction`: `LoadedModelsFit`, `HostStateServes`, `PlansServe`, `GraphsServe`,
`TunedSchedulesServe`.
`interfaces`: `AcceptsExactly`, `AnswersWhatIsOwed`, `RoundTrips` (with the end of
encoding), `MergesInOrder`, `WrittenIsRead`.

Invariants that are proved for every value of the constants, and rest on the same
modules, are not among the runs' properties: `ExecInv`, `LayersAgree`, `SessionInv`,
`CommitAlwaysFits`, `StaysInContext`, `PoisonHoldsUntilReset`, `GenInv`, `NoExtraDecode`, `RefusedAtOnce`,
`WorkspaceInv`, `ReaderInv`, `TensorsInFile`. A configuration that names one of them
checks it too.

### A finding

`session_torn_reset`. `ensure_healthy` refuses a poisoned executor, "call reset before
reuse", and every operation that throws after it has changed device state poisons the
executor first; `reset` itself does not. If one of its memsets, or the synchronization
behind them, fails on a healthy executor, part of the state is zero, `position_` keeps
its value and `poisoned_` stays false: the next decode is accepted and answers from a
context that is partly gone. The trace has a prefill and a reset that fails after
its first memset. The other properties are stated for executors that no reset has torn
(`Trusted`), and `TokenLog` has a mode in which nothing is promised about the answers.

A comment that is out of date, without consequence: `qwen35_delta.cuh:62` has the delta
workspace hold one convolved token and one output; `validate_shape` makes it, and the
kernels use, that much for every token of a chunk (`qwen35_delta.cu:120`).

## 5. Proofs

Eight modules hold the proofs. Each theorem is about a specification, for every value of
its constants; what the constants have to be is named at each component (`...Assumption`),
and the modules of the runs evaluate it for their instances. The theorems of
`SessionProofs`, `HostProofs` (generation), `ConstructionProofs` (catalog), `ForwardProofs` (composition)
and `WorkspaceProofs` (arena) take the assumptions from the modules they extend, the others
as hypotheses.

None of the properties is inductive alone. What follows is, for each specification, the
invariant that is, and why it says what it does.

### Executor, session (`SessionProofs`)

One lemma per action. Of the constants: positive sizes, a partition no larger than the context, a
model context not smaller than the session's, a chunk size of one, and that `Argmax` yields a token.

The inductive invariant of the executor is `ExecInv`:

* `FrameOK` bounds the local variables of a call at each of its steps, among them
  `at + left <= MaxContext`, without which a replay could leave the cache;
* `DeviceNeverAhead` bounds device position and recurrent state without poison, even
  after a torn reset, where nothing else is known;
* `LayersAgree` ties cache, recurrent sequence and position together;
* `ReadyToReplay` is the argument for replay: wherever a captured variant is mapped to
  the position a call would start from, the device position is that position already.
  Prefill establishes it by its sync, an eager step by capturing or by uploading the
  position, a replay by the graph's last node, reset by zeroing;
* `LogitsFollow` holds at every step outside a prefill.

`SessionInv` adds `PositionsAgree` and `CallAccounted`: what a call in progress has
consumed and still has to is the session's position plus what it will commit. From it,
`CommitAlwaysFits` is immediate, and so is that a call never outruns the context.
The action properties `OnlySuccessCommits` and `PoisonHoldsUntilReset` are proved from
the same invariants.

`SessionIsATokenLog` is the refinement: `Spec => ImplementsTokenLog`. It needs more than
`SessionInv`, for the log answers in one step what a call makes token by token:
`CallAnswers` says of a call in progress that it has produced one token for each it has
consumed, each the model's prediction for what had been consumed by then, each but the
last fed back to it. A step of the session is then the log's step where a call is
surfaced or a reset takes effect, and a stutter elsewhere.

### Host (`HostProofs`)

Generation: `GenInv` is `CallOK`, the locals of a program at each of its calls,
and `FedByProgram`: the session's log is what this program has fed it since its reset,
and its last answer follows from just that. Without it none of the safety properties is inductive,
since a session may hold anything before a reset.

Host state: `HostInv` says that a layout nobody has edited is what `create` made of some
configuration, and `KeptInv` what a state keeps. That the spans of the blocks tile a
vector is a pigeonhole argument: the constructor checks that slots differ and are below
the number of layers of a kind, and as many different slots as there are layers are all
of them (`FiniteSetTheorems`). That the two computations of a layout agree uses only
that a checked product or sum is the product or sum.

Loading: `LoadInv` carries what each check found to the stages behind it. Its center is
`Derived`: once the configuration is derived, every width that the manifest and the
executor multiply without a check is bounded by one that was read from the file or
checked, so it has not wrapped, and the two lists of tensors agree entry by entry.

### Workspace and graphs (`WorkspaceProofs`)

For every configuration, word size, budget and bucket. `EstimateIsEnough` follows the two
passes: wherever a buffer has a size in both lists the sizes are equal, however their factors were
grouped and though the estimate leaves one product unchecked (`SameSize`: where the product wraps, the
allocation's own checked product throws); the estimate rounds each size and each total
to 256, allocation to 4, 16 or 256, so one step of allocation stays behind one step of
the estimate (`StepBehind`); resolving a policy twice changes nothing
(`ResolveTwice`); and the totals never fall, so what is reached at a buffer is at most
the capacity. `WorkspaceInv` is these facts as an invariant: `MarksChain`, `QueueOK` and
`RoomLeft`. The exception is a convolution of width 1, whose empty state takes one
byte in the arena and none in the estimate. Its theorem would be false: the slack of
earlier roundings pays for it in models of fewer than about five hundred such blocks,
and for no more. `BuffersNeverOverlap` follows from the same invariant.

`ArenaIsAccepted`: the executor computes the estimate a second time, from the policy that
was resolved, and the arena was sized by the first, so the two have to be the same
number. `OperandsAlwaysFit`: a buffer that was allocated was asked for by a checked
product, and each operand of a launch is a product of the same or of smaller factors;
one arithmetic lemma for each kind of buffer.

`DecodeGraphsServe`: `GraphInv` says that an owner has a whole graph twice or nothing,
and the driver what the owners have, and one more between the end of a capture and its
instantiation.

### Construction (`ConstructionProofs`)

The catalog, for any sizes, limits, names and values, and any number of tensors.
`ReaderInv` needs only what is required and charged before a step (`TakeFacts`). The
outcome of the checks is carried by the inductive invariant (`Checked`); the theorems on
accepted catalogs follow from it: a span that ends before its neighbour begins ends
before every later one begins (`OrderedApart`), whatever order equal beginnings have.
That no payload is empty is an induction over the dimensions of a tensor: a product
that still is a word is one of words above zero.

Matmul plans: `BindInv` (a matmul that has a plan has one of its own configuration),
`TuneInv` (what is tuned has an algorithm that fits, and the best so far is the first of
the fastest of those measured), `RunInv`, and three parts about taking down. `HoldInv`
says what may be held in each stage: a kept plan is whole until it goes as a whole, so that
one that is left behind is left with all its parts, and a preference goes before the plan
it was made for, so that it is found. `LeakInv` ties what is left behind to what was
denied; `DeviceInv` lets only a guard that had switched leave another device.

Delta schedules: `TuningInv` follows one trial, whose steps hand each other the runs of
one bucket from a cleared state; a diagnostic is `Truthful`, so a schedule other than
the current one has passed.

### Kernels (`KernelProofs`)

Decode attention: the planning is arithmetic (`ContextBucket` holds the context, the
partitions are enough and within the slots, and two positions with one variant have
equal plans, because the map from position to variant is monotone). `AttentionInv` then
is `SharesOK`: every block that has run has written its share, if that is not empty, to a
slot of its own in this launch. The merge reads exactly those.

Grids: `GridInv` says that whatever kernel is pending works for a valid shape, on a chunk
that fits behind the past and, in a delta layer, has a token. That is all the geometry
needs, since the calls check before they launch: no fact about what arrays hold takes part.
Every address is a number of several digits (token, head, place), which it has but once
(`DigitsApart`), and its bound is the bound of those digits. Two threads then meet only if
they have the same digits. The append is the exception, where in bf16 a thread stores its
neighbour's element with its own: `StoredOnce` shows that every cell is stored once
whatever the parity of a head's start and width. `LayerKernels` takes shapes, policies
and tiles as constants; its `KernelAssumption` asks of them what the kernels' constants
satisfy, and of the fields of a shape only that they are naturals, as the words of the
source are.

Attention: `AttentionIsTheReference`, for any shape, cache, context and tiling, and any
chunks. `AttendInv` says that the cache holds the reference's keys and values of all
tokens before, and after k kernels of a call (`Done`) that the arrays hold what k
kernels are for: queries split, queries turned, keys turned, the chunk appended, logits,
probabilities, output. One lemma for each kernel shows it makes its array from the ones
before (`SplitFills` to `OnlineDecodeFills`). The append needs that every cell of the
chunk is stored once and no other is (`AppendCells`), which keeps the rows of earlier
chunks. The online kernels need that a row ends whole: `WholeRow(K)` has its maximum over
the keys K and the weight of each relative to that maximum, adding keys and merging
rows keep it so (`WholeAdded`, `WholeMerged`), and tiles and warps leave out no key
(`ScannedIsWhole`, `DecodeRowIsWhole`). Floats are terms in
the model, so this says where every number comes from and not how it is rounded.

Gated delta: `DeltaIsTheReference`, for any shape, block, tile, warp and schedule that
`validate_policy` lets through, and any chunks. Between calls state and output are the
reference's, which is the property. It is not inductive, since within a call the
workspace, the convolution's past and the recurrent state change one kernel at a time.
`DeltaInv` therefore speaks of the state the chunk started from: `DeltaDone` says what k
of the four kernels have made of it, in terms of what the reference does token by token
(`After`). The convolution reads windows over past and chunk, and shifts the past in
place (`CellsAreWindows`, `ConvolutionRuns`); vectors are scaled in place, each by one
block, and values stay (`NormalizeRuns`); a column of the state belongs to one thread,
whose loop over the tokens is an induction (`ColumnGrows`, `RecurrenceRuns`); an output
is made of all raw outputs of its head (`OutputRuns`). Three schedules add the terms of a
column in three ways. `WarpSumIsAll` shows that shuffles by powers of two leave all
terms in lane 0, each once: the terms a lane has after a round are those at places that
leave its number when divided by the lanes that still count.

### Composition and blocks (`ForwardProofs`)

For any number and mixture of layers, any finite set of chunk sizes (a chunk is of at
least one token), any context and any tokens: `RowsAreTheReferences` (the logits, the
token and every tensor recorded are the reference's of the whole sequence) and
`StatesAreTheReferences` (so is what each layer keeps).

Neither is inductive: what a kernel makes depends on what other kernels, layers and
chunks left in the buffers it reads by name. The invariant says, by the place in the
program, what the buffers hold that a later kernel still reads. The program is a
sequence put together layer by layer, so its places come first: a layer begins at
`Offset`, and `Grouped`, `MixedAt`, `FfnAt` and `SwigluAt` are where its parts end, in both forms
in which a group of products is launched. `FrontFacts` and `BackFacts` then say what the
buffers hold at each place of a layer, `HeadFacts` at the end. `Kept` says which layers
already keep the chunk and which still only the sequence before it; a cache is turned
over only where the layer's own kernel runs (`KeptBy`), and no two layers of a kind have
one slot (`StateOfFacts`). That the hidden rows are in one of two buffers and the scratch
rows in the other follows the swaps (`Places`, `After`).

A step is proved by what kind of kernel runs: over all rows (`RowwiseEffect`), over the
last alone, in place, appending to a cache, or carrying a state from row to row; the last
is an induction over the rows of the chunk.

Argmax: `CellInv` says that a cell of shared memory holds the best of the logits its
thread has gathered by its stage (`Gathered`, by the strides of `BlockHalving`),
whichever threads are ahead; `PartialInv` and `ResultInv` the same of blocks and result. The shares of
threads and blocks leave no logit out, and the better of two bests is the best of both.
Norms: `SumInv` is `CellInv` for sums, where each element has to be added once;
`GivenInv` and `MadeInv` say that in place nothing is overwritten that is still read.
Rows of attention: `BarrierInv` says that the number of barriers a warp has come to tells
where it is, and that no warp is more than one ahead of another; `LogitInv` and `MixInv`
what the row and shared memory hold at each place.

### Interfaces (`InterfaceProofs`)

Handles, for any numbers of engines, models and sessions. The properties speak of the
states between two calls; `ReachInv` has to say what is so in the middle of one, where a
destructor has released some of its members. It counts as a holder of a reference also
the entry of the queue `todo` that is still to let go of it (`ModelHolder`,
`ContextHolder`, `ResourceHolder`), and `OwedOK` says that whoever owes is reached by
nothing else. Each step moves one holder from the objects to the queue or from the queue
to nowhere. `DeviceOK` follows the guards that select and restore a device.

Tensors, for any width of words, any number of dimensions up to four and
any descriptor: a descriptor is accepted if and only if every
element it reaches lies in its bytes. The invariant, `SumIsExact`, is that the running sum is the
sum over the dimensions seen, in unbounded arithmetic: the checked product and sum
refuse before it could wrap, and what they refuse would not have fitted.

Registry: what the loop of `resolve` holds after k registrations is the best of the first
k, an induction over k; a cached answer was owed by those registered when it was
given, and whatever registers another forgets it.

### Induction

`BoundedSeqLemmas` has the induction these proofs need over dimensions, strides, logits
and registrations: `BoundedInduction` takes the set of the numbers a statement holds
for, and `BoundedRecursion` says that a recursive function up to a bound exists and
computes its defining equation. Both follow from the least element of a set of naturals.
Beside it are the few facts about products, quotients and remainders that addresses,
partitions and strides need.

### Only model-checked

* Liveness (`LaunchCompletes`, `CallsEnd`, `ProgramsEnd`, `CallsOnHandlesEnd`): temporal
  reasoning under fairness is out of the prover's reach.
* `RoundTrips`, `MergesInOrder`, `WrittenIsRead`: recursion over texts and metadata.
* `HealthyStateIsWhole` does not hold (see the finding above).

## 6. Not modelled

* Floating-point rounding, and with it the parity of results across launch shapes, such as
  the number of warps of an eager and of a replayed decode (`qwen35_online_attention.cu:949`).
* What `__activemask()` returns (`qwen35_delta.cu:450`); the limits on launch grids that
  refuse further configurations during construction.
* The checks for unknown quantization formats and memory kinds of a descriptor
  (`tensor_validation.cpp:76-81`), on which the byte range does not depend.
* Pinned host buffers, the thread-local error message, the text of diagnostics.
* Several caller threads on one handle at once, which the interface does not allow.
* The tokenizer's chat template and its checks of the model's name; code points of more than two bytes.
* The copy of a tensor to the device and the map of views by name; the reference's
  dense operators on host tensors.
* The command line, benchmark records and scripts, which format and print.
