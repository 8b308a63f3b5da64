-------------------------- MODULE ExecutorWorkspace --------------------------
(***************************************************************************)
(* How a session's workspace comes to be.  The session asks the executor   *)
(* how many bytes it will need and makes an arena of that size; the        *)
(* executor asks itself again, compares, and then takes its buffers out of *)
(* the arena one by one.  The estimate and the allocations are two lists   *)
(* written independently, with sizes computed in different orders and      *)
(* rounded to different alignments, and nothing after construction checks  *)
(* that an operand lies inside its buffer.                                 *)
(*                                                                         *)
(* Sizes are machine words: a checked operation that does not fit throws   *)
(* (NoSize), an unchecked one wraps.                                       *)
(***************************************************************************)
EXTENDS Naturals, Sequences

CONSTANTS
  Config,             \* model configurations with a context and a weight type
  WordMax,            \* the largest size_t
  MatmulBudget,       \* kMatmulWorkspaceBudget
  MaxPrefillTokens,   \* kMaxPrefillTokens
  Bucket              \* kBuckets

\* Fields are words and none is zero: the loader refuses a model with one that
\* is, and the session a context of none.
Configuration ==
  [vocabulary : 1..WordMax, hidden : 1..WordMax, intermediate : 1..WordMax,
   context : 1..WordMax, maxContext : 1..WordMax, heads : 1..WordMax,
   kvHeads : 1..WordMax, headDim : 1..WordMax, keyHeads : 1..WordMax,
   valueHeads : 1..WordMax, linearDim : 1..WordMax, convWidth : 1..WordMax,
   blocks : Seq({"full", "linear"}), weight : {"f16", "bf16", "f32"}]

ASSUME ConfigAssumption == Config \subseteq Configuration
ASSUME WordAssumption == WordMax \in Nat /\ WordMax >= 65535
ASSUME BudgetAssumption == MatmulBudget \in 1..WordMax
ASSUME PrefillAssumption == MaxPrefillTokens \in Nat \ {0}
ASSUME BucketAssumption == Bucket \subseteq 1..MaxPrefillTokens

VARIABLES
  config,      \* the model and the context the caller asks for
  requested,   \* the execution policy the caller asks for
  policy,      \* policy_, once the executor has resolved it
  asker,       \* who is estimating: the session or the executor
  phase,       \* where construction is, or how it ended
  marks,       \* the estimate after each of its steps
  capacity,    \* bytes of the arena
  used,        \* used_ of the layout
  done,        \* steps of allocate_buffers begun
  queue,       \* buffers of the last of them still to place
  placed       \* the buffers taken so far

vars == <<config, requested, policy, asker, phase, marks, capacity, used, done,
          queue, placed>>

-----------------------------------------------------------------------------
(* Words *)

NoSize == WordMax + 1

WorkspaceAlignment == 256

Larger(a, b) == IF a >= b THEN a ELSE b
Smaller(a, b) == IF a <= b THEN a ELSE b

\* checked_mul, of sizes that may have failed already.
Mul(a, b) ==
  IF a # NoSize /\ b # NoSize /\ (a = 0 \/ b <= WordMax \div a)
  THEN a * b ELSE NoSize

\* checked_add
Add(a, b) ==
  IF a # NoSize /\ b # NoSize /\ b <= WordMax - a THEN a + b ELSE NoSize

\* The plain product in an argument of a checked one.
Unchecked(a, b) == IF a = NoSize THEN NoSize ELSE (a * b) % (WordMax + 1)

\* align_up
RoundUp(n, alignment) ==
  IF n <= WordMax - (alignment - 1)
  THEN ((n + alignment - 1) \div alignment) * alignment ELSE NoSize

-----------------------------------------------------------------------------
(* The execution policy *)

Policy == [attention : {"materialized", "online"}, cache : {"f32", "bf16"},
           layout : {"token_major", "head_major"},
           decode : {"auto", "single_block", "split_k_256", "split_k_512"}]

\* Mutation: the full-attention width is not compared with the hidden size.
MutSound(c) ==
  /\ c.maxContext \in 1..c.context
  /\ c.valueHeads * c.linearDim = c.hidden
  /\ c.heads % c.kvHeads = 0
  /\ c.valueHeads % c.keyHeads = 0

\* validate_config, of fields that are all positive.
Sound(c) ==
  /\ c.maxContext \in 1..c.context
  /\ c.blocks # <<>>
  /\ c.heads % c.kvHeads = 0
  /\ c.heads * c.headDim = c.hidden
  /\ c.valueHeads * c.linearDim = c.hidden
  /\ c.valueHeads % c.keyHeads = 0

Accepts(p) ==
  p.attention = "materialized" => p.cache = "f32" /\ p.layout = "token_major"

CacheBytes(c, p) ==
  Mul(Mul(2, Mul(c.maxContext, Mul(c.kvHeads, c.headDim))),
      IF p.cache = "f32" THEN 4 ELSE 2)

\* online_decode_supported and qwen35_online_attention_prefill_supported.
OnlineSupported(c, p) ==
  /\ c.heads = 16 /\ c.kvHeads = 4 /\ c.headDim = 256
  /\ c.maxContext > 1 => CacheBytes(c, p) # NoSize

PartitionTokens(mode) ==
  CASE mode = "split_k_256" -> 256
    [] mode = "split_k_512" -> 512
    [] OTHER -> 0

DecodeMode(c, p) ==
  LET mode == IF p.decode = "auto" THEN "split_k_256" ELSE p.decode IN
    IF c.maxContext < PartitionTokens(mode) THEN "single_block" ELSE mode

\* resolve_execution_policy: what the kernels support, or the reference.
Resolve(c, p) ==
  IF p.attention = "online" /\ OnlineSupported(c, p)
  THEN [p EXCEPT !.decode = DecodeMode(c, p)]
  ELSE [attention |-> "materialized", cache |-> "f32",
        layout |-> "token_major", decode |-> "single_block"]

-----------------------------------------------------------------------------
(* Sizes both lists share *)

MaxTokens(c) == Smaller(MaxPrefillTokens, c.maxContext)

\* linear_qkv_width
QkvWidth(c) ==
  Add(Mul(2, Mul(c.keyHeads, c.linearDim)), Mul(c.valueHeads, c.linearDim))
GateWidth(c) == Mul(c.valueHeads, c.linearDim)
PackWidth(c) ==
  Add(Add(QkvWidth(c), c.valueHeads), Add(c.valueHeads, GateWidth(c)))
QueryWidth(c) == Mul(c.heads, c.headDim)
KvWidth(c) == Mul(c.kvHeads, c.headDim)

\* Elements per token of the activations.
ActivationWidth(c, b) ==
  CASE b \in {"hidden_a", "hidden_b", "attention_out", "mixer_projected"} -> c.hidden
    [] b \in {"intermediate_a", "intermediate_b"} -> c.intermediate
    [] b = "linear_pack" -> PackWidth(c)
    [] b = "linear_qkv" -> QkvWidth(c)
    [] b \in {"linear_beta", "linear_alpha"} -> c.valueHeads
    [] b = "linear_gate" -> GateWidth(c)
    [] b = "full_query_gate" -> Mul(QueryWidth(c), 2)
    [] b \in {"full_query", "full_query_norm"} -> QueryWidth(c)
    [] b \in {"full_key", "full_key_norm", "full_value"} -> KvWidth(c)

\* qwen35_parallel_argmax_workspace_bytes, of indices that are int32.
ArgmaxBytes(c) ==
  IF c.vocabulary > 2147483647 THEN NoSize
  ELSE Smaller(256, (c.vocabulary + 255) \div 256) * 8

\* max_attention_workspace: the logits of the reference for its longest chunk,
\* or the partial results of split-K.
AttentionWorkspace(c, p) ==
  IF p.attention = "materialized"
  THEN Mul(Mul(Mul(MaxTokens(c), c.heads), c.maxContext), 4)
  ELSE LET n == PartitionTokens(p.decode)
           partials == Mul(c.heads, (c.maxContext + n - 1) \div n)
       IN IF n = 0 THEN 0
          ELSE Add(Mul(2, Mul(partials, 4)), Mul(Mul(partials, c.headDim), 4))

\* qwen35_gated_delta_workspace_bytes; the limits of its launch grids, which
\* refuse more configurations, are left out.
DeltaWorkspace(c) ==
  Mul(Mul(MaxTokens(c), Add(QkvWidth(c), c.hidden)), 4)

RecurrentBytes(c) == Mul(Mul(c.valueHeads, Mul(c.linearDim, c.linearDim)), 4)

-----------------------------------------------------------------------------
(* The two lists *)

FixedBuffers ==
  <<"tokens", "result", "argmax", "decode_token", "decode_position",
    "decode_results", "hidden_a", "hidden_b", "intermediate_a",
    "intermediate_b", "linear_pack", "linear_qkv", "linear_beta",
    "linear_alpha", "linear_gate", "full_query_gate", "full_query",
    "full_query_norm", "full_key", "full_key_norm", "full_value",
    "attention_out", "mixer_projected", "logits", "matmul_input",
    "matmul_workspace", "attention_workspace", "delta_workspace">>

Activations ==
  {"hidden_a", "hidden_b", "intermediate_a", "intermediate_b", "linear_pack",
   "linear_qkv", "linear_beta", "linear_alpha", "linear_gate",
   "full_query_gate", "full_query", "full_query_norm", "full_key",
   "full_key_norm", "full_value", "attention_out", "mixer_projected"}

Buffer ==
  Activations \cup
  {"tokens", "result", "argmax", "decode_token", "decode_position",
   "decode_results", "logits", "matmul_input", "matmul_workspace",
   "attention_workspace", "delta_workspace", "kv_cache", "convolution",
   "recurrent"}

\* One step per buffer and then one per block.
Steps(c) == 28 + Len(c.blocks)

BuffersOf(c, i) ==
  IF i <= 28 THEN <<FixedBuffers[i]>>
  ELSE IF c.blocks[i - 28] = "full" THEN <<"kv_cache">>
       ELSE <<"convolution", "recurrent">>

\* Sizes both lists compute alike.
SharedBytes(c, p, b) ==
  CASE b \in {"tokens", "decode_results"} -> Mul(c.maxContext, 4)
    [] b \in {"result", "decode_token", "decode_position"} -> 4
    [] b = "argmax" -> ArgmaxBytes(c)
    [] b = "matmul_workspace" -> MatmulBudget
    [] b = "attention_workspace" -> AttentionWorkspace(c, p)
    [] b = "delta_workspace" -> DeltaWorkspace(c)
    [] b = "kv_cache" -> CacheBytes(c, p)
    [] b = "recurrent" -> RecurrentBytes(c)

\* Mutation: of the packed input, only the convolution's part is estimated.
MutEstimatedActivation(c, b) ==
  Mul(MaxTokens(c),
      Unchecked(IF b = "linear_pack" THEN QkvWidth(c) ELSE ActivationWidth(c, b), 4))

EstimatedActivation(c, b) ==
  Mul(MaxTokens(c),
      IF b = "full_query_gate" THEN Unchecked(QueryWidth(c), 8)
      ELSE Unchecked(ActivationWidth(c, b), 4))

\* What workspace_estimate adds for a buffer.
Estimated(c, p, b) ==
  CASE b \in Activations -> EstimatedActivation(c, b)
    [] b = "logits" -> Unchecked(c.vocabulary, 4)
    [] b = "matmul_input" ->
         Mul(Mul(MaxTokens(c), Larger(c.hidden, c.intermediate)), 2)
    [] b = "convolution" -> Mul(c.convWidth - 1, Unchecked(QkvWidth(c), 4))
    [] OTHER -> SharedBytes(c, p, b)

WeightBytes(c) == IF c.weight = "f32" THEN 4 ELSE 2

\* What allocate_buffers asks for.
Allocated(c, p, b) ==
  CASE b \in Activations -> Mul(Mul(MaxTokens(c), ActivationWidth(c, b)), 4)
    [] b = "logits" -> Mul(c.vocabulary, 4)
    [] b = "matmul_input" ->
         Mul(Mul(MaxTokens(c), Larger(c.hidden, c.intermediate)), WeightBytes(c))
    [] b = "convolution" -> Mul(Mul(c.convWidth - 1, QkvWidth(c)), 4)
    [] OTHER -> SharedBytes(c, p, b)

AlignmentOf(b) ==
  CASE b \in Activations \cup {"logits", "matmul_input"} -> 16
    [] b = "matmul_workspace" -> WorkspaceAlignment
    [] OTHER -> 4

-----------------------------------------------------------------------------
(* Estimating *)

\* The lambda add of workspace_estimate.
Sum(total, bytes) ==
  IF total = NoSize \/ bytes = NoSize THEN NoSize
  ELSE Add(RoundUp(total, WorkspaceAlignment), RoundUp(bytes, WorkspaceAlignment))

\* Mutation: the recurrent state is left out of the estimate.
MutAfter(c, p, i, total) == Sum(total, Estimated(c, p, BuffersOf(c, i)[1]))

\* The estimate after step i, when it was total before it.
After(c, p, i, total) ==
  LET one == Sum(total, Estimated(c, p, BuffersOf(c, i)[1])) IN
    IF Len(BuffersOf(c, i)) = 1 THEN one
    ELSE Sum(one, Estimated(c, p, BuffersOf(c, i)[2]))

Mark(i) == IF i = 0 THEN 0 ELSE marks[i]

Init ==
  /\ config \in Config
  /\ requested \in Policy
  /\ policy = requested
  /\ asker = "session"
  /\ phase = "resolve"
  /\ marks = <<>>
  /\ capacity = 0
  /\ used = 0
  /\ done = 0
  /\ queue = <<>>
  /\ placed = <<>>

Goto(p) == phase' = p

\* Whoever asks, resolve_execution_policy first.
Begin ==
  /\ phase = "resolve"
  /\ Goto(IF Sound(config) /\ Accepts(requested) THEN "estimate" ELSE "refused")
  /\ marks' = <<>>
  /\ UNCHANGED <<config, requested, policy, asker, capacity, used, done, queue, placed>>

\* Mutation: the session estimates for the policy as it was asked for.
MutEstimatePolicy == IF asker = "session" THEN requested ELSE Resolve(config, policy)

\* The executor resolves the policy it resolved already once more.
EstimatePolicy == Resolve(config, IF asker = "session" THEN requested ELSE policy)

Estimate ==
  /\ phase = "estimate"
  /\ Len(marks) < Steps(config)
  /\ LET i == Len(marks) + 1
         total == After(config, EstimatePolicy, i, Mark(Len(marks)))
     IN IF total = NoSize THEN Goto("refused") /\ UNCHANGED marks
        ELSE marks' = Append(marks, total) /\ UNCHANGED phase
  /\ UNCHANGED <<config, requested, policy, asker, capacity, used, done, queue, placed>>

Total == RoundUp(marks[Len(marks)], WorkspaceAlignment)

AllAdded == phase = "estimate" /\ Len(marks) = Steps(config)

\* The session makes the arena, of a byte at least, if there is memory for it,
\* and an executor, which resolves the policy and looks at the weights.
MakeArena ==
  /\ AllAdded
  /\ asker = "session"
  /\ asker' = "executor"
  /\ \/ /\ Total # NoSize
        /\ capacity' = Larger(Total, 1)
        /\ policy' = Resolve(config, requested)
        /\ Goto(IF config.weight = "f32" THEN "refused" ELSE "resolve")
     \/ Goto("refused") /\ UNCHANGED <<capacity, policy>>
  /\ UNCHANGED <<config, requested, marks, used, done, queue, placed>>

\* The executor's check of the arena it was given.
CheckArena ==
  /\ AllAdded
  /\ asker = "executor"
  /\ Goto(IF Total = NoSize THEN "refused"
          ELSE IF capacity >= Total THEN "allocate" ELSE "exhausted")
  /\ UNCHANGED <<config, requested, policy, asker, marks, capacity, used, done,
                 queue, placed>>

-----------------------------------------------------------------------------
(* Allocating *)

\* Mutation: what alignment skips is not counted as used.
MutPlace(offset, bytes, b) ==
  /\ used' = used + bytes
  /\ placed' = Append(placed, [buffer |-> b, offset |-> offset, bytes |-> bytes])

Place(offset, bytes, b) ==
  /\ used' = offset + bytes
  /\ placed' = Append(placed, [buffer |-> b, offset |-> offset, bytes |-> bytes])

NextStep ==
  /\ phase = "allocate"
  /\ queue = <<>>
  /\ done < Steps(config)
  /\ done' = done + 1
  /\ queue' = BuffersOf(config, done + 1)
  /\ UNCHANGED <<config, requested, policy, asker, phase, marks, capacity, used, placed>>

\* No bytes are one byte, except that no attention workspace is none.
Allocate ==
  /\ phase = "allocate"
  /\ queue # <<>>
  /\ queue' = Tail(queue)
  /\ LET b == Head(queue)
         asked == Allocated(config, policy, b)
         bytes == IF asked = 0 THEN 1 ELSE RoundUp(asked, AlignmentOf(b))
         offset == RoundUp(used, AlignmentOf(b))
     IN \/ /\ asked = 0 /\ b = "attention_workspace"
           /\ UNCHANGED <<phase, used, placed>>
        \/ /\ ~(asked = 0 /\ b = "attention_workspace")
           /\ NoSize \in {asked, bytes, offset, Add(offset, bytes)}
           /\ Goto("refused") /\ UNCHANGED <<used, placed>>
        \/ /\ ~(asked = 0 /\ b = "attention_workspace")
           /\ NoSize \notin {asked, bytes, offset, Add(offset, bytes)}
           /\ IF offset + bytes > capacity
              THEN Goto("exceeded") /\ UNCHANGED <<used, placed>>
              ELSE Place(offset, bytes, b) /\ UNCHANGED phase
  /\ UNCHANGED <<config, requested, policy, asker, marks, capacity, done>>

\* Plans and schedules are tuned in these buffers; then reset.
Finish ==
  /\ phase = "allocate"
  /\ queue = <<>>
  /\ done = Steps(config)
  /\ Goto("ready")
  /\ UNCHANGED <<config, requested, policy, asker, marks, capacity, used, done,
                 queue, placed>>

Next == Begin \/ Estimate \/ MakeArena \/ CheckArena \/ NextStep \/ Allocate \/ Finish

Spec == Init /\ [][Next]_vars

-----------------------------------------------------------------------------
(* What the kernels touch *)

\* The bytes of each buffer that a chunk of some tokens, or a tuning run of as
\* many, reads or writes, as the kernels index them.  The chunk ends where the
\* context ends.
CommonOperands(c, tokens) ==
  LET activation == tokens * c.hidden * 4
      inner == tokens * c.intermediate * 4
      weight == WeightBytes(c)
  IN {<<"tokens", c.maxContext * 4>>, <<"decode_results", c.maxContext * 4>>,
      <<"hidden_a", activation>>, <<"hidden_b", activation>>,
      <<"mixer_projected", activation>>,
      <<"intermediate_a", inner>>, <<"intermediate_b", inner>>,
      <<"matmul_input", tokens * c.hidden * weight>>,
      <<"matmul_input", tokens * c.intermediate * weight>>,
      <<"logits", c.vocabulary * 4>>, <<"argmax", ArgmaxBytes(c)>>}

\* run_full_layer; the gate goes into the buffer of the linear layers.
FullOperands(c, p, tokens) ==
  LET query == tokens * c.heads * c.headDim
      keys == tokens * c.kvHeads * c.headDim
      n == PartitionTokens(p.decode)
      partials == c.heads * ((c.maxContext + n - 1) \div n)
  IN {<<"full_query_gate", query * 8>>, <<"full_query", query * 4>>,
      <<"linear_gate", query * 4>>, <<"full_query_norm", query * 4>>,
      <<"full_key", keys * 4>>, <<"full_key_norm", keys * 4>>,
      <<"full_value", keys * 4>>, <<"attention_out", query * 4>>,
      <<"matmul_input", query * WeightBytes(c)>>,
      <<"kv_cache", 2 * c.maxContext * c.kvHeads * c.headDim
                      * (IF p.cache = "f32" THEN 4 ELSE 2)>>}
     \cup IF p.attention = "materialized"
          THEN {<<"attention_workspace", tokens * c.heads * c.maxContext * 4>>}
          ELSE IF n = 0 THEN {}
          ELSE {<<"attention_workspace", partials * (2 + c.headDim) * 4>>}

\* run_linear_layer and the delta kernels.
LinearOperands(c, tokens) ==
  LET conv == 2 * c.keyHeads * c.linearDim + c.valueHeads * c.linearDim
      gate == tokens * c.valueHeads * c.linearDim
  IN {<<"linear_qkv", tokens * conv * 4>>,
      <<"linear_beta", tokens * c.valueHeads * 4>>,
      <<"linear_alpha", tokens * c.valueHeads * 4>>,
      <<"linear_gate", gate * 4>>,
      <<"linear_pack", tokens * (conv + 2 * c.valueHeads + c.hidden) * 4>>,
      <<"delta_workspace", tokens * (conv + c.hidden) * 4>>,
      <<"attention_out", tokens * c.hidden * 4>>,
      <<"matmul_input", gate * WeightBytes(c)>>,
      <<"convolution", (c.convWidth - 1) * conv * 4>>,
      <<"recurrent", c.valueHeads * c.linearDim * c.linearDim * 4>>}

Kinds(c) == {c.blocks[i] : i \in DOMAIN c.blocks}

Operands(c, p, tokens) ==
  CommonOperands(c, tokens)
    \cup (IF "full" \in Kinds(c) THEN FullOperands(c, p, tokens) ELSE {})
    \cup (IF "linear" \in Kinds(c) THEN LinearOperands(c, tokens) ELSE {})

-----------------------------------------------------------------------------
(* Properties *)

Phases == {"resolve", "estimate", "allocate", "ready", "refused", "exhausted",
           "exceeded"}

TypeOK ==
  /\ config \in Config /\ requested \in Policy /\ policy \in Policy
  /\ asker \in {"session", "executor"} /\ phase \in Phases
  /\ marks \in Seq(0..WordMax) /\ Len(marks) <= Steps(config)
  /\ capacity \in 0..WordMax /\ used \in 0..capacity
  /\ done \in 0..Steps(config)
  /\ queue \in Seq(Buffer)
  /\ placed \in Seq([buffer : Buffer, offset : 0..WordMax, bytes : 1..WordMax])

\* Nothing is estimated for a configuration that is not sound, and nothing
\* allocated but by an executor that has resolved the policy.
Checked ==
  /\ phase \in {"estimate", "allocate", "ready"} => Sound(config)
  /\ phase \in {"allocate", "ready"} => asker = "executor"
  /\ asker = "executor" /\ phase # "refused" =>
       /\ policy = Resolve(config, requested) /\ Sound(config)
       /\ config.weight # "f32"

\* Nothing is taken before the second estimate has passed, and before the first
\* there is nothing to take from.
NothingTaken ==
  /\ phase \in {"resolve", "estimate"} =>
       used = 0 /\ done = 0 /\ queue = <<>> /\ placed = <<>>
  /\ asker = "session" => capacity = 0 /\ used = 0

\* The estimate is a chain of sums that never falls and that the arena covers.
MarksChain ==
  phase \in {"estimate", "allocate"} =>
    /\ \A i \in 1..Len(marks) :
         marks[i] = After(config, EstimatePolicy, i, Mark(i - 1))
    /\ \A i, j \in 1..Len(marks) : i <= j => marks[i] <= marks[j]
    /\ phase = "allocate" =>
         Len(marks) = Steps(config) /\ marks[Steps(config)] <= capacity

\* The buffers still to place are those of the step, or the last of them.
QueueOK ==
  phase = "allocate" /\ queue # <<>> =>
    /\ done > 0
    /\ \/ queue = BuffersOf(config, done)
       \/ /\ queue = <<"recurrent">>
          /\ BuffersOf(config, done) = <<"convolution", "recurrent">>

\* What the estimate had reached where allocation stands.
Reached ==
  IF queue = <<>> THEN Mark(done)
  ELSE IF queue = BuffersOf(config, done) THEN Mark(done - 1)
  ELSE Sum(Mark(done - 1), Estimated(config, EstimatePolicy, "convolution"))

\* Allocation stays behind the estimate.  A configuration with an empty
\* convolution state is the exception: allocation takes a byte for nothing.
RoomLeft == phase = "allocate" /\ config.convWidth > 1 => used <= Reached

WorkspaceInv ==
  TypeOK /\ Checked /\ NothingTaken /\ MarksChain /\ QueueOK /\ RoomLeft

\* The arena is as large as the estimate says, so no allocation of the
\* executor's construction runs out of it, whatever the model, the context and
\* the policy; but for models whose convolution keeps no state.
EstimateSuffices == phase = "exceeded" => config.convWidth = 1

\* The executor's own estimate, for a policy that was resolved once more, is not
\* above that of the session which sized the arena.
ArenaPassesCheck == phase # "exhausted"

\* Buffers lie one behind the other in the arena, as aligned as asked for.
BuffersDisjoint ==
  \A i \in 1..Len(placed) :
    /\ placed[i].offset % AlignmentOf(placed[i].buffer) = 0
    /\ placed[i].offset + placed[i].bytes <= used
    /\ \A j \in 1..(i - 1) :
         placed[j].offset + placed[j].bytes <= placed[i].offset

\* No chunk, no tuning run and no replay reaches outside the buffers it works
\* on, which share nothing: the kernels trust the widths that validate_config
\* compares.
OperandsStayInBuffers ==
  /\ BuffersDisjoint
  /\ phase = "ready" =>
       \A tokens \in Bucket : tokens <= config.maxContext =>
         \A o \in Operands(config, policy, tokens) : o[2] > 0 =>
           /\ \E i \in 1..Len(placed) : placed[i].buffer = o[1]
           /\ \A i \in 1..Len(placed) :
                placed[i].buffer = o[1] => o[2] <= placed[i].bytes
=============================================================================
