---------------------------- MODULE LayerKernels ----------------------------
(***************************************************************************)
(* The kernels of a forward pass, each on its own, as a stream runs them:  *)
(* chunks through a gated delta layer and through attention, kernel by     *)
(* kernel; the threads of a norm, of a row of attention and of the argmax, *)
(* step by step.                                                           *)
(***************************************************************************)
EXTENDS ParallelArgmax, BlockBarriers

CONSTANTS
  DeltaShapes,       \* shapes of a gated delta layer
  DeltaPolicies,     \* launch policies a caller may ask for
  DeltaTokens,       \* the most tokens of a chunk
  DeltaTotal,        \* and of all chunks until a reset
  ConvolutionBlock, ValueTile, Columns, WarpBits, SmallDim, LargeDim,
  AttentionShapes,   \* shapes of an attention layer
  AttentionPolicies, \* implementations, cache types and layouts
  ModelLayer,        \* the shape that has kernels of its own
  AttentionContext,  \* tokens the cache has room for
  AttentionTokens,   \* the most tokens of a chunk
  Lanes, ValuesPerLane, QTile, KTile, OutputTile, ShortContext, ShortWarps, LongWarps

VARIABLES unit, shape, policy, tokens, kernels, phase, fed, state, work,
  promised, past, buffers, rowsKept

-----------------------------------------------------------------------------
(* The units; what is not of the unit at work is off *)

Delta == INSTANCE GatedDelta WITH
  Shape <- DeltaShapes, Policy <- DeltaPolicies, MaxTokens <- DeltaTokens,
  MaxTotal <- DeltaTotal, BlockSize <- ConvolutionBlock, pending <- kernels

Attention == INSTANCE FullAttention WITH
  Shape <- AttentionShapes, Policy <- AttentionPolicies, ModelShape <- ModelLayer,
  MaxContext <- AttentionContext, MaxTokens <- AttentionTokens, WarpSize <- Lanes,
  pending <- kernels, cache <- rowsKept

\* What the kernels take for granted of their constants.
ASSUME KernelAssumption ==
  /\ Delta!TokensAssumption /\ Delta!GridAssumption /\ Delta!WarpAssumption
  /\ Delta!RowsAssumption /\ Delta!DimAssumption /\ Delta!ShapeAssumption
  /\ Attention!ContextAssumption /\ Attention!TileAssumption /\ Attention!LaneAssumption
  /\ Attention!ShapeAssumption
  /\ BlockAssumption /\ SizeAssumption /\ WarpAssumption /\ RowAssumption
  /\ GridAssumption /\ LogitsAssumption

Off == "off"

\* Blocks that have yet to start.
NormOff ==
  /\ stages = [t \in Threads |-> 0]
  /\ kind = Off /\ size = Off /\ cursor = Off /\ sums = Off /\ array = Off

RowOff ==
  /\ warpAt = [w \in Warp |-> Off] /\ mixed = <<>>
  /\ dims = Off /\ keys = Off /\ key = Off /\ barrier = Off /\ cells = Off /\ row = Off

ArgmaxOff ==
  stage = <<>> /\ kernel = Off /\ shared = Off /\ partials = Off /\ result = Off

LayersOff ==
  /\ shape = Off /\ policy = Off /\ tokens = Off /\ kernels = Off /\ phase = Off
  /\ fed = Off /\ state = Off /\ work = Off /\ promised = Off
  /\ past = Off /\ buffers = Off /\ rowsKept = Off

KernelsInit ==
  \/ /\ unit = "delta" /\ Delta!Init
     /\ past = Off /\ buffers = Off /\ rowsKept = Off /\ logits = Off
     /\ NormOff /\ RowOff /\ ArgmaxOff
  \/ /\ unit = "attention" /\ Attention!Init
     /\ fed = Off /\ state = Off /\ work = Off /\ promised = Off
     /\ NormOff /\ RowOff /\ ArgmaxOff
  \/ /\ unit = "norm" /\ NormInit
     /\ LayersOff /\ logits = Off /\ RowOff /\ ArgmaxOff
  \/ /\ unit = "row" /\ RowInit
     /\ LayersOff /\ logits = Off /\ output = Off /\ NormOff /\ ArgmaxOff
  \/ /\ unit = "argmax" /\ ArgmaxInit
     /\ LayersOff /\ output = Off /\ NormOff /\ RowOff

normOnly == <<kind, size, stages, cursor, sums, array>>
rowOnly == <<dims, keys, warpAt, key, barrier, cells, row, mixed>>
argmaxOnly == <<kernel, stage, shared, partials, result>>
layersOnly == <<shape, policy, tokens, kernels, phase, fed, state, work, promised,
                past, buffers, rowsKept>>

KernelsNext ==
  \/ /\ unit = "delta" /\ Delta!Next
     /\ UNCHANGED <<unit, past, buffers, rowsKept, logits, normOnly, rowOnly, argmaxOnly>>
  \/ /\ unit = "attention" /\ Attention!Next
     /\ UNCHANGED <<unit, fed, state, work, promised, normOnly, rowOnly, argmaxOnly>>
  \/ /\ unit = "norm" /\ NormNext
     /\ UNCHANGED <<unit, layersOnly, logits, rowOnly, argmaxOnly>>
  \/ /\ unit = "row" /\ RowNext
     /\ UNCHANGED <<unit, layersOnly, logits, output, normOnly, argmaxOnly>>
  \/ /\ unit = "argmax" /\ ArgmaxNext
     /\ UNCHANGED <<unit, layersOnly, output, normOnly, rowOnly>>

kernelsVars == <<unit, layersOnly, output, logits, normOnly, rowOnly, argmaxOnly>>

KernelsSpec == KernelsInit /\ [][KernelsNext]_kernelsVars

-----------------------------------------------------------------------------
(* Properties *)

\* However tokens are cut into chunks and whichever schedules run them, a gated
\* delta layer leaves what the reference makes of the same tokens one by one.
DeltaMatchesReference == unit = "delta" => Delta!MatchesReference

\* However a sequence is cut, whichever attention kernels run and however the cache
\* is laid out, every token attends to itself and all before it and to nothing else.
AttentionMatchesReference == unit = "attention" => Attention!MatchesReference

\* The threads of the delta kernels and of the append never meet in a float, and
\* none leaves the workspace, the states, the logits or the rows of its chunk.
ThreadsStayApart ==
  /\ unit = "delta" => Delta!NoRace /\ Delta!StaysInside
  /\ unit = "attention" => Attention!AppendsOnce /\ Attention!LogitsStayInside

-----------------------------------------------------------------------------
(* Small instances *)

DeltaLayer(keyHeads, valueHeads, keyDim, valueDim, width) ==
  [keyHeads |-> keyHeads, valueHeads |-> valueHeads, keyDim |-> keyDim,
   valueDim |-> valueDim, width |-> width, hidden |-> valueHeads * valueDim]

\* Heads that share keys or not, rows with a kernel of their own or not, tiles
\* that do not fill, and windows of one to four tokens.
MCDeltaShapes ==
  {DeltaLayer(1, 2, 2, 2, 3), DeltaLayer(2, 2, 2, 2, 2), DeltaLayer(1, 1, 4, 4, 2),
   DeltaLayer(1, 1, 4, 3, 2), DeltaLayer(1, 2, 3, 4, 1), DeltaLayer(1, 1, 2, 4, 4),
   DeltaLayer(2, 3, 2, 2, 2)}

MCDeltaPolicies ==
  [schedule : {"current", "prefill_sm120", "decode_sm120"}, warps : {4},
   transposed : {FALSE}] \cup
  {[schedule |-> "current", warps |-> 8, transposed |-> FALSE],
   [schedule |-> "prefill_sm120", warps |-> 4, transposed |-> TRUE]}

AttentionLayer(queryHeads, kvHeads, headDim, rotary) ==
  [queryHeads |-> queryHeads, kvHeads |-> kvHeads, headDim |-> headDim, rotary |-> rotary]

MCModelLayer == AttentionLayer(2, 1, 4, 2)

\* The model's own shape, heads of odd width, groups of one head.
MCAttentionShapes ==
  {MCModelLayer, AttentionLayer(2, 2, 2, 2), AttentionLayer(2, 1, 3, 2),
   AttentionLayer(1, 1, 3, 2)}

MCAttentionPolicies ==
  [implementation : {"materialized", "online"}, cache : {"f32", "bf16"},
   layout : {"token_major", "head_major"}]

Vector(n, at, others, first) ==
  [i \in 0..(n - 1) |-> IF i \in at THEN 3 ELSE IF i = 0 THEN first ELSE others]

\* Ties within and across blocks, no numbers, infinities, and fewer logits than
\* threads.
MCVectors ==
  {Vector(10, {i, j}, 1, 1) : i \in {0, 3, 7, 9}, j \in {1, 4, 5, 8}}
  \cup {Vector(10, {}, Infinite, first) : first \in {NaN, Infinite}}
  \cup {Vector(10, {6}, NaN, NaN), Vector(3, {2}, Infinite, NaN), Vector(3, {1, 2}, 1, 1),
        Vector(5, {4}, NaN, 1), Vector(1, {}, 1, NaN)}
=============================================================================
