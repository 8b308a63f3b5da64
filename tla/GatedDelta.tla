----------------------------- MODULE GatedDelta -----------------------------
(***************************************************************************)
(* The gated delta layer on the device: a chunk of tokens is four kernels  *)
(* one after the other on a stream, each a grid of threads that find their *)
(* floats in flat arrays by index.  Convolution and recurrence keep their  *)
(* state across chunks, the workspace is shared by all of them, and one of *)
(* three schedules runs the recurrence.                                    *)
(*                                                                         *)
(* A kernel is one step: NoRace says that no order of its threads could    *)
(* make a difference.  A thread here is what works alone: a thread of the  *)
(* convolution and of the tiled recurrence, a warp of the other two, a     *)
(* block where threads meet at barriers.                                   *)
(***************************************************************************)
EXTENDS DeltaPolicy, Naturals, Sequences, Bags

CONSTANTS
  Shape,       \* shapes of a layer
  Policy,      \* launch policies a caller may ask for
  MaxTokens,   \* the most tokens of a chunk
  MaxTotal,    \* and of all chunks until a reset
  BlockSize,   \* kBlockSize
  ValueTile,   \* kValueTile
  Columns,     \* kColumnsPerBlock
  WarpBits     \* a warp has 2^WarpBits lanes

ShapeAssumption ==
  \A a \in Shape :
    {a.hidden, a.keyHeads, a.valueHeads, a.keyDim, a.valueDim, a.width} \subseteq Nat
TokensAssumption == MaxTokens \in Nat \ {0} /\ MaxTotal \in Nat
GridAssumption == {BlockSize, ValueTile, Columns} \subseteq Nat \ {0}
WarpAssumption == WarpBits \in Nat
RowsAssumption == SmallDim % 2^WarpBits = 0 /\ LargeDim % 2^WarpBits = 0

-----------------------------------------------------------------------------
(***************************************************************************)
(* The gated delta layer as the reference backend computes it: one token   *)
(* at a time, in program order.  It says what the layer is; below it is    *)
(* what the CUDA kernels make of it.                                       *)
(*                                                                         *)
(* A float is modelled by where it comes from, so that two floats are      *)
(* equal when they are made of the same inputs in the same way:            *)
(*   <<"zero">>                  what a reset leaves                       *)
(*   <<"in", t, i>>              element i of token t of the input         *)
(*   <<"window", cells>>         a convolution of these, oldest first      *)
(*   <<"unit", cell, over, q>>   a cell scaled by the norm of the cells    *)
(*                               over, and once more if it is a query      *)
(*   <<"raw", terms>>            a sum of products, a bag                  *)
(*   <<"out", raw, over, v, z>>  a raw output scaled by the norm of those  *)
(*                               over and by weight v, gated by z          *)
(* A float of the recurrent state is the sequence of its updates, each     *)
(* made of a key, a value, the two gates, and what the state recalled.     *)
(***************************************************************************)

KeySize(a) == a.keyHeads * a.keyDim
ValueSize(a) == a.valueHeads * a.valueDim
ConvDim(a) == 2 * KeySize(a) + ValueSize(a)
Stride(a) == ConvDim(a) + 2 * a.valueHeads + a.hidden

\* validate_delta_args, of a shape whose fields are words
ValidArgs(a) ==
  /\ 0 \notin {a.hidden, a.keyHeads, a.valueHeads, a.keyDim, a.valueDim, a.width}
  /\ a.valueHeads % a.keyHeads = 0
  /\ ValueSize(a) = a.hidden

Input(t, i) == <<"in", t, i>>

\* The state a session starts from.
ZeroState(a) ==
  [convolution |-> [i \in 0..(ConvDim(a) * (a.width - 1) - 1) |-> <<"zero">>],
   recurrent |-> [i \in 0..(ValueSize(a) * a.keyDim - 1) |-> <<>>]]

\* recurrent_at
RecurrentAt(a, head, k, v) == (head * a.keyDim + k) * a.valueDim + v

-----------------------------------------------------------------------------
(* A step *)

\* The channels of token t, with what the state remembers of those before it.
Convolved(a, state, t) ==
  [c \in 0..(ConvDim(a) - 1) |->
    <<"window", [h \in 1..a.width |->
       IF h = a.width THEN Input(t, c)
       ELSE state.convolution[c * (a.width - 1) + h - 1]]>>]

\* The oldest is forgotten, the token remembered.
Remembered(a, state, t) ==
  [i \in DOMAIN state.convolution |->
    IF (i + 1) % (a.width - 1) = 0 THEN Input(t, i \div (a.width - 1))
    ELSE state.convolution[i + 1]]

\* l2_normalize, of the n cells of a vector from base on.
Unit(cells, base, n, i, query) ==
  <<"unit", cells[base + i], {cells[base + j] : j \in 0..(n - 1)}, query>>

\* The values, keys and queries that one head of values works with.
KeyHead(a, head) == head % a.keyHeads
Query(a, cells, head, k) == Unit(cells, KeyHead(a, head) * a.keyDim, a.keyDim, k, TRUE)
Key(a, cells, head, k) ==
  Unit(cells, KeySize(a) + KeyHead(a, head) * a.keyDim, a.keyDim, k, FALSE)
Value(a, cells, head, v) == cells[2 * KeySize(a) + head * a.valueDim + v]

\* The decayed state is asked for what it holds under the key, and told the
\* rest of the value.
Updated(a, state, cells, t) ==
  [i \in DOMAIN state.recurrent |->
    LET head == i \div (a.keyDim * a.valueDim)
        v == i % a.valueDim
    IN Append(state.recurrent[i],
         <<Key(a, cells, head, (i \div a.valueDim) % a.keyDim), Value(a, cells, head, v),
           Input(t, ConvDim(a) + head), Input(t, ConvDim(a) + a.valueHeads + head),
           SetToBag({<<Len(state.recurrent[RecurrentAt(a, head, j, v)]),
                       Key(a, cells, head, j)>> : j \in 0..(a.keyDim - 1)})>>)]

\* What the query finds in the updated state.
RawOf(a, updated, cells, head, v) ==
  <<"raw", SetToBag({<<Len(updated[RecurrentAt(a, head, k, v)]), Query(a, cells, head, k)>> :
                      k \in 0..(a.keyDim - 1)})>>

\* rms_norm_with_multiplier over a head, and the gate.
Outputs(a, updated, cells, t) ==
  [i \in 0..(a.hidden - 1) |->
    LET head == i \div a.valueDim
        raw(v) == RawOf(a, updated, cells, head, v)
    IN <<"out", raw(i % a.valueDim), {raw(v) : v \in 0..(a.valueDim - 1)},
         i % a.valueDim, Input(t, ConvDim(a) + 2 * a.valueHeads + i)>>]

\* qwen35_gated_delta_step: the state after token t, and its outputs.
DeltaStep(a, state, t) ==
  LET cells == Convolved(a, state, t)
      updated == Updated(a, state, cells, t)
  IN [state |-> [convolution |-> Remembered(a, state, t), recurrent |-> updated],
      output |-> Outputs(a, updated, cells, t)]

\* qwen35_gated_delta_prefill: n tokens, of which first is the first.
Prefill(a, state, first, n) ==
  LET run[j \in 0..n] ==
        IF j = 0 THEN [state |-> state, outputs |-> <<>>]
        ELSE LET step == DeltaStep(a, run[j - 1].state, first + j - 1)
             IN [state |-> step.state, outputs |-> Append(run[j - 1].outputs, step.output)]
  IN run[n]

-----------------------------------------------------------------------------

VARIABLES
  shape,     \* the layer
  policy,    \* schedule, warps and state layout of the chunk
  tokens,    \* its tokens
  pending,   \* the kernels still to run
  phase,     \* "idle", "busy", or "poisoned" by a launch that failed
  fed,       \* tokens of earlier chunks
  state,     \* convolution and recurrent state
  work,      \* the workspace
  output,    \* the output of the chunk
  promised   \* what the reference makes of the tokens so far

vars == <<shape, policy, tokens, pending, phase, fed, state, work, output, promised>>

-----------------------------------------------------------------------------
(* What a call asks for *)

\* Mutation: a workspace of one token.
MutWorkspaceFloats(a, n) == ConvDim(a) + a.hidden

\* Floats the caller must bring.
WorkspaceFloats(a, n) == n * (ConvDim(a) + a.hidden)

Kernels(p, a) ==
  <<"convolution", "normalize",
    IF Registers(p) THEN "register" ELSE IF a.keyDim = LargeDim THEN "register_128" ELSE "tiled",
    "output">>

-----------------------------------------------------------------------------
(* Where floats are *)

Conv(a, token, channel) == token * ConvDim(a) + channel
QueryCell(a, token, head, k) == Conv(a, token, KeyHead(a, head) * a.keyDim + k)
KeyCell(a, token, head, k) == Conv(a, token, KeySize(a) + KeyHead(a, head) * a.keyDim + k)
ValueCell(a, token, head, v) == Conv(a, token, 2 * KeySize(a) + head * a.valueDim + v)

\* raw_output comes after the convolved tokens.
RawCell(a, n, token, head, v) ==
  n * ConvDim(a) + token * ValueSize(a) + head * a.valueDim + v

StateCell(a, head, k, v) == head * a.keyDim * a.valueDim + k * a.valueDim + v

\* The vectors of a token, queries before keys.
VectorBase(a, block) ==
  LET vector == block % (2 * a.keyHeads)
  IN Conv(a, block \div (2 * a.keyHeads),
          IF vector < a.keyHeads THEN vector * a.keyDim
          ELSE KeySize(a) + (vector - a.keyHeads) * a.keyDim)

IsQuery(a, block) == block % (2 * a.keyHeads) < a.keyHeads

\* The token of the stream that is token j of the chunk.
Packed(j, i) == Input(fed + j + 1, i)

-----------------------------------------------------------------------------
(* Threads *)

Blocks(n, size) == n \div size + (IF n % size = 0 THEN 0 ELSE 1)

\* Mutation: tiles overlap by a column.
MutTileColumn(tile, lane) == tile * (ValueTile - 1) + lane

TileColumn(tile, lane) == tile * ValueTile + lane

\* A thread of the tiled recurrence, <<block, lane>>, and a warp of the others,
\* <<x, y, warp>>, each have a column of the state of a head.
ColumnOf(kernel, a, thread) ==
  LET tiles == Blocks(a.valueDim, ValueTile) IN
    IF kernel = "tiled"
    THEN [head |-> thread[1] \div tiles, v |-> TileColumn(thread[1] % tiles, thread[2])]
    ELSE [head |-> thread[1], v |-> thread[2] * Columns + thread[3]]

\* Those of the grid that do not return at once.
Threads(kernel, a, n) ==
  CASE kernel = "convolution" ->
         {c \in 0..(Blocks(ConvDim(a), BlockSize) * BlockSize - 1) : c < ConvDim(a)}
    [] kernel = "normalize" -> 0..(n * 2 * a.keyHeads - 1)
    [] kernel = "output" -> 0..(n * a.valueHeads - 1)
    [] kernel = "tiled" ->
         {t \in (0..(a.valueHeads * Blocks(a.valueDim, ValueTile) - 1)) \X (0..(ValueTile - 1)) :
            ColumnOf(kernel, a, t).v < a.valueDim}
    [] kernel \in {"register", "register_128"} ->
         {t \in (0..(a.valueHeads - 1)) \X (0..(Blocks(a.valueDim, Columns) - 1))
                \X (0..(Columns - 1)) : ColumnOf(kernel, a, t).v < a.valueDim}

Recurrent == {"tiled", "register", "register_128"}

\* How many tokens a kernel of the recurrence goes through.
Steps(p, n) == IF p.schedule = "decode_sm120" THEN 1 ELSE n

\* The floats a thread reads and writes, by array and index.
Writes(kernel, a, p, n, t) ==
  CASE kernel = "convolution" ->
         {<<"work", Conv(a, j, t)>> : j \in 0..(n - 1)} \cup
         {<<"history", t * (a.width - 1) + h>> : h \in 0..(a.width - 2)}
    [] kernel = "normalize" ->
         {<<"work", VectorBase(a, t) + d>> : d \in 0..(a.keyDim - 1)}
    [] kernel = "output" -> {<<"output", t * a.valueDim + v>> : v \in 0..(a.valueDim - 1)}
    [] kernel \in Recurrent ->
         LET c == ColumnOf(kernel, a, t) IN
           {<<"recurrent", StateCell(a, c.head, k, c.v)>> : k \in 0..(a.keyDim - 1)} \cup
           {<<"work", RawCell(a, n, j, c.head, c.v)>> : j \in 0..(Steps(p, n) - 1)}

Reads(kernel, a, p, n, t) ==
  CASE kernel = "convolution" ->
         {<<"history", t * (a.width - 1) + h>> : h \in 0..(a.width - 2)}
    [] kernel = "normalize" -> Writes(kernel, a, p, n, t)
    [] kernel = "output" ->
         {<<"work", RawCell(a, n, t \div a.valueHeads, t % a.valueHeads, v)>> :
            v \in 0..(a.valueDim - 1)}
    [] kernel \in Recurrent ->
         LET c == ColumnOf(kernel, a, t) IN
           UNION {{<<"work", QueryCell(a, j, c.head, k)>>, <<"work", KeyCell(a, j, c.head, k)>>,
                   <<"work", ValueCell(a, j, c.head, c.v)>>,
                   <<"recurrent", StateCell(a, c.head, k, c.v)>>} :
                   j \in 0..(Steps(p, n) - 1), k \in 0..(a.keyDim - 1)}

-----------------------------------------------------------------------------
(* What threads do *)

\* One array after threads have each written some of its cells.
Written(array, writes) ==
  [i \in DOMAIN array |->
    IF \E t \in DOMAIN writes : i \in DOMAIN writes[t]
    THEN writes[CHOOSE t \in DOMAIN writes : i \in DOMAIN writes[t]][i] ELSE array[i]]

Over(threads, cells(_), value(_, _)) ==
  [t \in threads |-> [i \in cells(t) |-> value(t, i)]]

\* A channel h tokens after the oldest the state remembers.
Past(history, channel, h) ==
  IF h < shape.width - 1 THEN history[channel * (shape.width - 1) + h]
  ELSE Packed(h - (shape.width - 1), channel)

\* The state of a channel is shifted in place, the oldest cell first.
Shifted(channel) ==
  LET shift[h \in 0..(shape.width - 1)] ==
        IF h = 0 THEN state.convolution
        ELSE [shift[h - 1] EXCEPT ![channel * (shape.width - 1) + h - 1] =
                Past(shift[h - 1], channel, tokens + h - 1)]
  IN shift[shape.width - 1]

\* batched_convolution_kernel
Convolution ==
  LET threads == Threads("convolution", shape, tokens) IN
    /\ work' = Written(work, Over(threads,
         LAMBDA c : {Conv(shape, j, c) : j \in 0..(tokens - 1)},
         LAMBDA c, i : <<"window", [h \in 1..shape.width |->
                          Past(state.convolution, c, i \div ConvDim(shape) + h - 1)]>>))
    /\ state' = [state EXCEPT !.convolution = Written(@, Over(threads,
         LAMBDA c : {c * (shape.width - 1) + h : h \in 0..(shape.width - 2)},
         LAMBDA c, i : Shifted(c)[i]))]
    /\ UNCHANGED output

\* batched_qk_normalize_kernel: a block sums before it scales, in place.
Normalize ==
  /\ work' = Written(work, Over(Threads("normalize", shape, tokens),
       LAMBDA b : {VectorBase(shape, b) + d : d \in 0..(shape.keyDim - 1)},
       LAMBDA b, i : Unit(work, VectorBase(shape, b), shape.keyDim,
                          i - VectorBase(shape, b), IsQuery(shape, b))))
  /\ UNCHANGED <<state, output>>

\* Mutation: the last round of the shuffles is missing.
MutRounds == 1

Rounds == 0

\* Each lane adds the terms of its rows, and in each round those of the lane so
\* many places up, or its own where there is none; lane 0 has the sum.
WarpSum(terms) ==
  LET lanes == 0..(2^WarpBits - 1)
      sum[r \in Rounds..WarpBits] ==
        IF r = WarpBits
        THEN [l \in lanes |-> SetToBag({terms[k] : k \in {i \in DOMAIN terms : i % 2^WarpBits = l}})]
        ELSE [l \in lanes |->
               sum[r + 1][l] (+) sum[r + 1][IF l + 2^r \in lanes THEN l + 2^r ELSE l]]
  IN sum[Rounds][0]

SumOf(kernel, terms) ==
  IF kernel = "tiled" THEN SetToBag({terms[k] : k \in DOMAIN terms}) ELSE WarpSum(terms)

\* The column of a thread after j tokens, by key.
Column(kernel, c, j) ==
  LET keys == 0..(shape.keyDim - 1)
      after[i \in 0..j] ==
        IF i = 0 THEN [k \in keys |-> state.recurrent[StateCell(shape, c.head, k, c.v)]]
        ELSE LET memory == SumOf(kernel,
                   [k \in keys |-> <<Len(after[i - 1][k]), work[KeyCell(shape, i - 1, c.head, k)]>>])
             IN [k \in keys |-> Append(after[i - 1][k],
                   <<work[KeyCell(shape, i - 1, c.head, k)],
                     work[ValueCell(shape, i - 1, c.head, c.v)],
                     Packed(i - 1, ConvDim(shape) + c.head),
                     Packed(i - 1, ConvDim(shape) + shape.valueHeads + c.head), memory>>)]
  IN after[j]

Raw(kernel, c, j) ==
  LET column == Column(kernel, c, j + 1)
  IN <<"raw", SumOf(kernel, [k \in DOMAIN column |->
        <<Len(column[k]), work[QueryCell(shape, j, c.head, k)]>>])>>

\* The recurrence, whichever kernel runs it.
Recur(kernel) ==
  LET threads == Threads(kernel, shape, tokens)
      column(t) == ColumnOf(kernel, shape, t)
      count == Steps(policy, tokens)
      base(t) == RawCell(shape, tokens, 0, column(t).head, column(t).v)
  IN /\ work' = Written(work, Over(threads,
          LAMBDA t : {base(t) + j * ValueSize(shape) : j \in 0..(count - 1)},
          LAMBDA t, i : Raw(kernel, column(t), (i - base(t)) \div ValueSize(shape))))
     /\ state' = [state EXCEPT !.recurrent = Written(@, Over(threads,
          LAMBDA t : {StateCell(shape, column(t).head, k, column(t).v) : k \in 0..(shape.keyDim - 1)},
          LAMBDA t, i : Column(kernel, column(t), count)[(i \div shape.valueDim) % shape.keyDim]))]
     /\ UNCHANGED output

\* batched_output_norm_gate_kernel
Output ==
  /\ output' = Written(output, Over(Threads("output", shape, tokens),
       LAMBDA b : {b * shape.valueDim + v : v \in 0..(shape.valueDim - 1)},
       LAMBDA b, i :
         LET raw(v) == work[RawCell(shape, tokens, b \div shape.valueHeads,
                                    b % shape.valueHeads, v)]
             v == i % shape.valueDim
         IN <<"out", raw(v), {raw(u) : u \in 0..(shape.valueDim - 1)}, v,
              Packed(b \div shape.valueHeads, ConvDim(shape) + 2 * shape.valueHeads
                       + (b % shape.valueHeads) * shape.valueDim + v)>>))
  /\ UNCHANGED <<state, work>>

-----------------------------------------------------------------------------
(* Calls *)

Spent(a) ==
  [work |-> [i \in 0..(MaxTokens * (ConvDim(a) + a.hidden) - 1) |-> <<"junk">>],
   output |-> [i \in 0..(MaxTokens * a.hidden - 1) |-> <<"junk">>]]

Init ==
  /\ shape \in {a \in Shape : ValidArgs(a)}
  /\ policy = CHOOSE p \in Policy : TRUE
  /\ tokens = 0 /\ pending = <<>> /\ phase = "idle" /\ fed = 0
  /\ state = ZeroState(shape)
  /\ work = Spent(shape).work /\ output = Spent(shape).output
  /\ promised = [state |-> ZeroState(shape), outputs |-> <<>>]

\* qwen35_gated_delta, of a shape and a policy that pass its checks.  All the
\* layers share a workspace and an output, so they hold whatever others left.
Call ==
  /\ phase = "idle"
  /\ \E n \in 1..MaxTokens, p \in Policy :
       /\ fed + n <= MaxTotal
       /\ Allowed(p, shape, n)
       /\ tokens' = n /\ policy' = p
       /\ promised' = Prefill(shape, promised.state, fed + 1, n)
       /\ pending' = Kernels(p, shape)
  /\ phase' = "busy"
  /\ work' = Spent(shape).work /\ output' = Spent(shape).output
  /\ UNCHANGED <<shape, fed, state>>

Run(kernel) ==
  CASE kernel = "convolution" -> Convolution
    [] kernel = "normalize" -> Normalize
    [] kernel = "output" -> Output
    [] kernel = "register" ->
         \* launch_register_candidate has kernels for two shapes only.
         IF shape.keyDim = shape.valueDim /\ shape.keyDim \in {SmallDim, LargeDim}
         THEN Recur(kernel) ELSE UNCHANGED <<state, work, output>>
    [] kernel \in {"register_128", "tiled"} -> Recur(kernel)

Launch ==
  /\ phase = "busy" /\ pending # <<>>
  /\ Run(Head(pending))
  /\ pending' = Tail(pending)
  /\ UNCHANGED <<shape, policy, tokens, phase, fed, promised>>

\* check_launch throws, and the executor is poisoned.
LaunchFails ==
  /\ phase = "busy" /\ pending # <<>>
  /\ phase' = "poisoned"
  /\ UNCHANGED <<shape, policy, tokens, pending, fed, state, work, output, promised>>

Return ==
  /\ phase = "busy" /\ pending = <<>>
  /\ phase' = "idle" /\ tokens' = 0 /\ fed' = fed + tokens
  /\ UNCHANGED <<shape, policy, pending, state, work, output, promised>>

\* The executor's reset, of the states of this layer.
Reset ==
  /\ phase \in {"idle", "poisoned"}
  /\ state' = ZeroState(shape)
  /\ tokens' = 0 /\ fed' = 0 /\ pending' = <<>> /\ phase' = "idle"
  /\ promised' = [state |-> ZeroState(shape), outputs |-> <<>>]
  /\ UNCHANGED <<shape, policy, work, output>>

Next == Call \/ Launch \/ LaunchFails \/ Return \/ Reset

Spec == Init /\ [][Next]_vars

-----------------------------------------------------------------------------
(* Properties *)

\* However tokens are cut into chunks and whichever schedules run them, a chunk
\* leaves in the state and in the output what the reference makes of the same
\* tokens one after the other.
MatchesReference ==
  phase = "idle" =>
    /\ state = promised.state
    /\ \A j \in DOMAIN promised.outputs : \A i \in 0..(shape.hidden - 1) :
         output[(j - 1) * shape.hidden + i] = promised.outputs[j][i]

\* No two threads of a kernel write the same float, and none reads what another
\* writes: the kernels need no order among their threads.
NoRace ==
  pending # <<>> =>
    LET kernel == Head(pending)
        threads == Threads(kernel, shape, tokens)
    IN \A t, u \in threads : t # u =>
         Writes(kernel, shape, policy, tokens, t) \cap
           (Writes(kernel, shape, policy, tokens, u) \cup
            Reads(kernel, shape, policy, tokens, u)) = {}

\* No thread leaves the workspace the caller was asked for, the states, or the
\* output, and the raw outputs never reach into the convolved tokens.
StaysInside ==
  pending # <<>> =>
    LET kernel == Head(pending)
        touched(t) == Writes(kernel, shape, policy, tokens, t) \cup
                      Reads(kernel, shape, policy, tokens, t)
        floats == [work |-> WorkspaceFloats(shape, tokens), output |-> tokens * shape.hidden,
                   history |-> ConvDim(shape) * (shape.width - 1),
                   recurrent |-> ValueSize(shape) * shape.keyDim]
    IN \A t \in Threads(kernel, shape, tokens) : \A cell \in touched(t) :
         cell[2] < floats[cell[1]]
=============================================================================
