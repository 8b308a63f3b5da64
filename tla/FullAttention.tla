---------------------------- MODULE FullAttention ----------------------------
(***************************************************************************)
(* The full attention layer on the device: the query projection is split,  *)
(* queries and keys are normalized and turned, keys and values appended to *)
(* the cache, and then one of four ways to attend runs: two kernels or,    *)
(* for one token, three with the logits in a workspace, or one that goes   *)
(* over the cache in tiles and never stores a logit, or over one token     *)
(* with several warps.  The kernels find their floats in flat arrays.      *)
(*                                                                         *)
(* A kernel is one step of the stream.  Rounding to the type of the cache  *)
(* is left out.                                                            *)
(***************************************************************************)
EXTENDS Integers, Sequences

CONSTANTS
  Shape,          \* shapes of a layer
  Policy,         \* attention implementations, cache types and layouts
  MaxContext,     \* tokens the cache has room for
  MaxTokens,      \* the most tokens of a chunk
  ModelShape,     \* the shape that has kernels of its own
  WarpSize, ValuesPerLane, QTile, KTile, OutputTile,
  ShortContext,   \* the longest context for the fewer warps
  ShortWarps, LongWarps

ShapeAssumption ==
  \A a \in Shape : {a.queryHeads, a.kvHeads, a.headDim, a.rotary} \subseteq Nat
ContextAssumption == MaxTokens \in Nat \ {0} /\ MaxContext \in Nat \ {0}
TileAssumption ==
  {WarpSize, ValuesPerLane, QTile, KTile, OutputTile, ShortWarps, LongWarps} \subseteq Nat \ {0}
LaneAssumption == ModelShape.headDim = WarpSize * ValuesPerLane

VARIABLES
  shape, policy,
  tokens,     \* the tokens of the chunk, 0 between chunks
  past,       \* and of those before it
  pending,    \* kernels still to run
  phase,      \* "idle", "busy", or "poisoned" by a launch that failed
  buffers,    \* query, key, gate: what the attention kernels read
  cache,      \* keys, then values
  logits,     \* the workspace
  output

vars == <<shape, policy, tokens, past, pending, phase, buffers, cache, logits, output>>

-----------------------------------------------------------------------------
(***************************************************************************)
(* The full attention layer as the reference backend computes it: the      *)
(* whole sequence at once, from the first token.  It says what the layer   *)
(* is; below it is what the CUDA kernels make of it.                       *)
(*                                                                         *)
(* A float is modelled by where it comes from:                             *)
(*   <<"zero">>                        what a reset leaves                 *)
(*   <<t, projection, i>>              element i of a projection of token t*)
(*   <<"normed", cell, i, over>>       a cell scaled by weight i and the   *)
(*                                     norm of the cells over              *)
(*   <<"turned", half, x, y, pair, p>> one of a pair after the rotation of *)
(*                                     position p                          *)
(*   <<"p", logit, most, all>>         the probability of a logit, with the*)
(*                                     keys the maximum and the sum are    *)
(*                                     taken over                          *)
(*   <<"mix", terms, gate>>            values weighted by probabilities    *)
(* A logit is the set of the products that it sums.                        *)
(***************************************************************************)

QuerySize(a) == a.queryHeads * a.headDim
KvSize(a) == a.kvHeads * a.headDim

\* validate_full_args, of a shape of words; the hidden size is the query size.
ValidFull(a) ==
  /\ 0 \notin {a.queryHeads, a.kvHeads, a.headDim}
  /\ a.rotary <= a.headDim /\ a.rotary % 2 = 0
  /\ a.queryHeads % a.kvHeads = 0

Projected(t, projection, i) == <<t, projection, i>>

\* rms_norm_with_multiplier, of one vector
Normed(vector) ==
  [i \in DOMAIN vector |-> <<"normed", vector[i], i, {vector[j] : j \in DOMAIN vector}>>]

\* apply_partial_rope
Turned(a, vector, position) ==
  LET pairs == a.rotary \div 2 IN
    [i \in DOMAIN vector |->
      IF i >= a.rotary THEN vector[i]
      ELSE <<"turned", i < pairs, vector[i % pairs], vector[(i % pairs) + pairs],
             i % pairs, position>>]

\* Queries and gates alternate in their projection, by head.
QueryOf(a, t, head) ==
  [i \in 0..(a.headDim - 1) |-> Projected(t, "query_gate", head * 2 * a.headDim + i)]
GateOf(a, t, head, i) == Projected(t, "query_gate", head * 2 * a.headDim + a.headDim + i)
KeyOf(a, t, head) == [i \in 0..(a.headDim - 1) |-> Projected(t, "key", head * a.headDim + i)]
ValueOf(a, t, head, i) == Projected(t, "value", head * a.headDim + i)

KvHead(a, head) == head \div (a.queryHeads \div a.kvHeads)

Dot(x, y) == {<<x[i], y[i]>> : i \in DOMAIN x}

\* qwen35_gated_full_attention, of token t, as far as the output projection: it
\* sees the tokens up to itself.
Attended(a, t) ==
  [i \in 0..(QuerySize(a) - 1) |->
    LET head == i \div a.headDim
        query == Turned(a, Normed(QueryOf(a, t, head)), t)
        key(k) == Turned(a, Normed(KeyOf(a, k, KvHead(a, head))), k)
    IN <<"mix",
         {<<<<"p", Dot(query, key(k)), 0..t, 0..t>>,
            ValueOf(a, k, KvHead(a, head), i % a.headDim)>> : k \in 0..t},
         GateOf(a, t, head, i % a.headDim)>>]

-----------------------------------------------------------------------------
(* What a call asks for *)

Context == past + tokens
Plane == MaxContext * KvSize(shape)
WorkspaceFloats(a, n, context) == n * a.queryHeads * context

Materialized(p) == p.implementation = "materialized"

\* Which kernels serve a chunk, or none: qwen35_causal_attention throws before
\* it appends.
Attend(a, p, n) ==
  CASE Materialized(p) /\ (p.cache # "f32" \/ p.layout # "token_major") -> <<>>
    [] Materialized(p) /\ n = 1 -> <<"decode_logits", "decode_softmax", "decode_output">>
    [] Materialized(p) /\ n > 1 -> <<"logits", "output">>
    [] ~Materialized(p) /\ n = 1 -> IF a = ModelShape THEN <<"online_decode">> ELSE <<>>
    [] ~Materialized(p) /\ n > 1 ->
         IF a.headDim > ModelShape.headDim THEN <<>>
         ELSE IF a = ModelShape THEN <<"online_model">> ELSE <<"online_generic">>

Kernels(a, p, n) == <<"split", "norm_query", "norm_key", "append">> \o Attend(a, p, n)

-----------------------------------------------------------------------------
(* Where floats are *)

\* cache_element_index
CacheIndex(token, head, i) ==
  IF policy.layout = "token_major"
  THEN (token * shape.kvHeads + head) * shape.headDim + i
  ELSE (head * MaxContext + token) * shape.headDim + i

\* Mutation: rows of logits for the longest context.
MutLogitIndex(token, head, key) == (token * shape.queryHeads + head) * MaxContext + key

LogitIndex(token, head, key) == (token * shape.queryHeads + head) * Context + key

OutputIndex(token, head, i) == (token * shape.queryHeads + head) * shape.headDim + i

\* An array after some of its cells are written.
With(array, cells) == [x \in DOMAIN array |-> IF x \in DOMAIN cells THEN cells[x] ELSE array[x]]

Range0(n) == 0..(n - 1)
Ceil(n, size) == n \div size + (IF n % size = 0 THEN 0 ELSE 1)

-----------------------------------------------------------------------------
(* Before attention *)

\* split_full_query_gate_kernel, one thread for each element
Split ==
  LET size == QuerySize(shape)
      source(index) ==
        (index \div size) * 2 * size
          + ((index % size) \div shape.headDim) * 2 * shape.headDim
          + (index % shape.headDim)
      from(j) == Projected(past + j \div (2 * size), "query_gate", j % (2 * size))
  IN buffers' = [buffers EXCEPT
       !.query = [index \in Range0(tokens * size) |-> from(source(index))],
       !.gate = [index \in Range0(tokens * size) |-> from(source(index) + shape.headDim)]]

\* The reference turns nothing when there is nothing to turn; qwen35_qk_norm_rope
\* refuses.
Valid(a) == ValidFull(a) /\ a.rotary > 0

\* qk_norm_rope_kernel, one block for each vector of a token
NormRope(cells, heads) ==
  LET vector(n) == [i \in Range0(shape.headDim) |-> cells[n * shape.headDim + i]]
      pairs == shape.rotary \div 2
      value(n, i) ==
        LET normed == Normed(vector(n)) IN
          IF i >= shape.rotary THEN normed[i]
          ELSE LET first == i < pairs
                   partner == IF first THEN i + pairs ELSE i - pairs
               IN <<"turned", first,
                    IF first THEN normed[i] ELSE normed[partner],
                    IF first THEN normed[partner] ELSE normed[i],
                    IF first THEN i ELSE i - pairs, past + n \div heads>>
  IN [index \in DOMAIN cells |-> value(index \div shape.headDim, index % shape.headDim)]

\* The projections of the chunk, packed by token.
Packed(projection) ==
  [j \in Range0(tokens * KvSize(shape)) |->
    Projected(past + j \div KvSize(shape), projection, j % KvSize(shape))]

-----------------------------------------------------------------------------
(* The cache *)

\* Two neighbours of a bf16 cache are stored at once.
Pairs(source, destination, i) ==
  i + 1 < shape.headDim /\ i % 2 = 0 /\ source % 2 = 0 /\ destination % 2 = 0

\* Mutation: where the cell lies is not looked at.
MutSkips(source, destination, i) == i % 2 = 1 /\ source % 2 = 1

\* One of them was stored by the thread before.
Skips(source, destination, i) ==
  i % 2 = 1 /\ source % 2 = 1 /\ destination % 2 = 1

\* The cells that a thread stores its element, and perhaps the next, in.
Stored(source, destination, i) ==
  IF policy.cache = "f32" THEN {destination}
  ELSE IF Pairs(source, destination, i) THEN {destination, destination + 1}
  ELSE IF Skips(source, destination, i) THEN {}
  ELSE {destination}

\* Mutation: rows are counted from the start of the chunk.
MutRow(token) == token

Row(token) == past + token

\* Where the key of an element of the chunk goes; its value goes a plane on.
KeyCell(element) ==
  LET token == element \div KvSize(shape)
      within == element % KvSize(shape)
  IN CacheIndex(Row(token), within \div shape.headDim, within % shape.headDim)

\* What the thread of an element stores, by cell.
AppendOf(element) ==
  LET i == element % shape.headDim
      keys == Stored(element, KeyCell(element), i)
      values == Stored(element, Plane + KeyCell(element), i)
      value == Packed("value")
  IN [cell \in keys \cup values |->
       IF cell \in keys THEN buffers.key[element + cell - KeyCell(element)]
       ELSE value[element + cell - Plane - KeyCell(element)]]

Elements == Range0(tokens * KvSize(shape))

\* append_cache_kernel and append_online_cache_kernel
AppendCache ==
  LET stores == [e \in Elements |-> DOMAIN AppendOf(e)]
      written == UNION {stores[e] : e \in Elements}
  IN cache' = With(cache, [cell \in written |->
       AppendOf(CHOOSE e \in Elements : cell \in stores[e])[cell]])

-----------------------------------------------------------------------------
(* Attention *)

\* Mutation: every token of the chunk sees all of the chunk.
MutVisible(token) == Range0(Context)

\* The keys that a token of the chunk sees.
Visible(token) == 0..(past + token)

Query(token, head) == [i \in Range0(shape.headDim) |-> buffers.query[OutputIndex(token, head, i)]]
Key(key, head) ==
  [i \in Range0(shape.headDim) |-> cache[CacheIndex(key, KvHead(shape, head), i)]]
Value(key, head, i) == cache[Plane + CacheIndex(key, KvHead(shape, head), i)]
Gate(token, head, i) == buffers.gate[OutputIndex(token, head, i)]

Cells == Range0(tokens) \X Range0(shape.queryHeads)

\* logits_kernel, one block for each token and head, and decode_logits_kernel,
\* one for each head and key
Logits ==
  logits' = With(logits,
    [index \in {LogitIndex(c[1], c[2], k) : c \in Cells, k \in Visible(tokens - 1)} |->
      LET key == index % Context
          pair == index \div Context
          token == pair \div shape.queryHeads
      IN IF key \in Visible(token)
         THEN Dot(Query(token, pair % shape.queryHeads), Key(key, pair % shape.queryHeads))
         ELSE logits[index]])

\* One row of logits made probabilities, in place.
Softmax(row, keys) ==
  [k \in keys |-> <<"p", row[k], keys, keys>>]

RowOf(token, head) == [k \in Visible(token) |-> logits[LogitIndex(token, head, k)]]

\* decode_softmax_kernel
DecodeSoftmax ==
  logits' = With(logits,
    [index \in {LogitIndex(0, head, k) : head \in Range0(shape.queryHeads), k \in Range0(Context)} |->
      Softmax(RowOf(0, index \div Context), Visible(0))[index % Context]])

\* The values of the keys a token sees, weighted by probabilities p.
Mixed(p, token, head, i) ==
  <<"mix", {<<p[k], Value(k, head, i)>> : k \in DOMAIN p}, Gate(token, head, i)>>

\* decode_output_kernel: tiles of a head, the last not full
DecodeOutput ==
  LET tiles == Ceil(shape.headDim, OutputTile)
      served == {c \in (Range0(shape.queryHeads * tiles) \X Range0(OutputTile)) :
                  (c[1] % tiles) * OutputTile + c[2] < shape.headDim}
      index(c) == (c[1] \div tiles) * shape.headDim + (c[1] % tiles) * OutputTile + c[2]
  IN output' = With(output, [j \in {index(c) : c \in served} |->
       Mixed(RowOf(0, j \div shape.headDim), 0, j \div shape.headDim, j % shape.headDim)])

\* output_kernel: a block makes probabilities of its row, and then mixes.
Output ==
  /\ logits' = With(logits,
       [index \in {LogitIndex(c[1], c[2], k) : c \in Cells, k \in Visible(tokens - 1)} |->
         LET pair == index \div Context
             token == pair \div shape.queryHeads
         IN IF index % Context \in Visible(token)
            THEN Softmax(RowOf(token, pair % shape.queryHeads), Visible(token))[index % Context]
            ELSE logits[index]])
  /\ output' = With(output, [j \in Range0(tokens * QuerySize(shape)) |->
       LET pair == j \div shape.headDim
           token == pair \div shape.queryHeads
           head == pair % shape.queryHeads
       IN Mixed(Softmax(RowOf(token, head), Visible(token)), token, head, j % shape.headDim)])

-----------------------------------------------------------------------------
(* Attention without stored logits *)

\* What a warp has of a row: the keys its maximum is over and, for each key that
\* is in its sum and its values, the keys of the maximum its weight is relative to.
NoRow == [most |-> {}, weights |-> <<>>]

\* Mutation: what is there is not scaled to the new maximum.
MutScaled(row, most) == row.weights

\* Weights are scaled from the maximum of the row to another; without a maximum
\* the scale is zero.
Scaled(row, most) ==
  [k \in (IF row.most = {} THEN {} ELSE DOMAIN row.weights) |->
    IF row.weights[k] = row.most THEN most ELSE {}]

\* The weights of two sets of keys.
Joined(left, right) ==
  [k \in DOMAIN left \cup DOMAIN right |-> IF k \in DOMAIN left THEN left[k] ELSE right[k]]

\* Keys are added to a row: a tile of them, or one.
Added(row, keys) ==
  LET most == row.most \cup keys
  IN [most |-> most, weights |-> Joined(Scaled(row, most), [k \in keys |-> most])]

\* The row of a token of the chunk, tile by tile.
Scanned(token) ==
  LET row[n \in 0..Ceil(past + token + 1, KTile)] ==
        IF n = 0 THEN NoRow
        ELSE Added(row[n - 1], ((n - 1) * KTile .. n * KTile - 1) \cap Visible(token))
  IN row[Ceil(past + token + 1, KTile)]

ActiveWarps == IF Context <= ShortContext THEN ShortWarps ELSE LongWarps

\* scan_online_decode_range: every so many keys, one at a time
ScannedBy(warp) ==
  LET keys == {k \in Range0(Context) : k >= warp /\ (k - warp) % ActiveWarps = 0}
      row[n \in -1..(Context - 1)] ==
        IF n = -1 THEN NoRow ELSE IF n \in keys THEN Added(row[n - 1], {n}) ELSE row[n - 1]
  IN row[Context - 1]

Merged(left, right) ==
  LET most == left.most \cup right.most
  IN [most |-> most, weights |-> Joined(Scaled(left, most), Scaled(right, most))]

\* The rows of the active warps, merged in order by warp 0.
DecodeRow ==
  LET row[warp \in Range0(ActiveWarps)] ==
        IF warp = 0 THEN ScannedBy(0) ELSE Merged(row[warp - 1], ScannedBy(warp))
  IN row[ActiveWarps - 1]

\* The weights of a row divided by their sum.
Divided(row, token, head) ==
  [k \in DOMAIN row.weights |->
    <<"p", Dot(Query(token, head), Key(k, head)), row.weights[k],
      {j \in DOMAIN row.weights : row.weights[j] = row.weights[k]}>>]

\* The elements of a head that lanes have, each with so many components.
LaneElements ==
  {i \in {lane + component * WarpSize : lane \in Range0(WarpSize), component \in Range0(ValuesPerLane)} :
     i < shape.headDim}

OnlineOutput(served, row) ==
  output' = With(output,
    [j \in {OutputIndex(t, h, i) : t \in served, h \in Range0(shape.queryHeads), i \in LaneElements} |->
      LET token == j \div QuerySize(shape)
          head == (j \div shape.headDim) % shape.queryHeads
      IN Mixed(Divided(row[token], token, head), token, head, j % shape.headDim)])

\* online_prefill_model_kernel and online_prefill_generic_kernel: a warp for each
\* token of a tile, the last tile not full
OnlinePrefill ==
  LET served == {t \in {tile * QTile + q : tile \in Range0(Ceil(tokens, QTile)), q \in Range0(QTile)} :
                   t < tokens}
  IN OnlineOutput(served, [token \in served |-> Scanned(token)])

\* append_online_decode_cache_kernel ran before; online_decode_model_kernel
OnlineDecode == OnlineOutput({0}, [token \in {0} |-> DecodeRow])

-----------------------------------------------------------------------------
(* Calls *)

\* All layers share buffers, workspace and output.
Spent(a) ==
  [buffers |-> [query |-> <<>>, key |-> <<>>, gate |-> <<>>],
   logits |-> [i \in Range0(WorkspaceFloats(a, MaxTokens, MaxContext)) |-> <<"junk">>],
   output |-> [i \in Range0(MaxTokens * QuerySize(a)) |-> <<"junk">>]]

Leave(a) ==
  buffers' = Spent(a).buffers /\ logits' = Spent(a).logits /\ output' = Spent(a).output

Zeroed(a) == [cell \in Range0(2 * MaxContext * KvSize(a)) |-> <<"zero">>]

Init ==
  /\ shape \in {a \in Shape : Valid(a)}
  /\ policy \in Policy
  /\ tokens = 0 /\ past = 0 /\ pending = <<>> /\ phase = "idle"
  /\ buffers = Spent(shape).buffers
  /\ cache = Zeroed(shape)
  /\ logits = Spent(shape).logits /\ output = Spent(shape).output

\* run_full_layer, of a chunk that the policy has kernels for
Call ==
  /\ phase = "idle"
  /\ \E n \in 1..MaxTokens :
       /\ past + n <= MaxContext
       /\ Attend(shape, policy, n) # <<>>
       /\ tokens' = n
       /\ pending' = Kernels(shape, policy, n)
  /\ phase' = "busy"
  /\ UNCHANGED <<shape, policy, past, buffers, cache, logits, output>>

Run(kernel) ==
  CASE kernel = "split" -> Split /\ UNCHANGED <<cache, logits, output>>
    [] kernel = "norm_query" ->
         /\ buffers' = [buffers EXCEPT !.query = NormRope(@, shape.queryHeads)]
         /\ UNCHANGED <<cache, logits, output>>
    [] kernel = "norm_key" ->
         /\ buffers' = [buffers EXCEPT !.key = NormRope(Packed("key"), shape.kvHeads)]
         /\ UNCHANGED <<cache, logits, output>>
    [] kernel = "append" -> AppendCache /\ UNCHANGED <<buffers, logits, output>>
    [] kernel \in {"logits", "decode_logits"} -> Logits /\ UNCHANGED <<buffers, cache, output>>
    [] kernel = "decode_softmax" -> DecodeSoftmax /\ UNCHANGED <<buffers, cache, output>>
    [] kernel = "decode_output" -> DecodeOutput /\ UNCHANGED <<buffers, cache, logits>>
    [] kernel = "output" -> Output /\ UNCHANGED <<buffers, cache>>
    [] kernel \in {"online_model", "online_generic"} ->
         OnlinePrefill /\ UNCHANGED <<buffers, cache, logits>>
    [] kernel = "online_decode" -> OnlineDecode /\ UNCHANGED <<buffers, cache, logits>>

Launch ==
  /\ phase = "busy" /\ pending # <<>>
  /\ Run(Head(pending))
  /\ pending' = Tail(pending)
  /\ UNCHANGED <<shape, policy, tokens, past, phase>>

\* check_launch throws, and the executor is poisoned.
LaunchFails ==
  /\ phase = "busy" /\ pending # <<>>
  /\ phase' = "poisoned" /\ pending' = <<>> /\ tokens' = 0
  /\ Leave(shape)
  /\ UNCHANGED <<shape, policy, past, cache>>

\* The executor commits its position when all layers are through.
Return ==
  /\ phase = "busy" /\ pending = <<>>
  /\ phase' = "idle" /\ past' = Context /\ tokens' = 0
  /\ Leave(shape)
  /\ UNCHANGED <<shape, policy, pending, cache>>

Reset ==
  /\ phase \in {"idle", "poisoned"}
  /\ cache' = Zeroed(shape)
  /\ past' = 0 /\ phase' = "idle"
  /\ UNCHANGED <<shape, policy, tokens, pending, buffers, logits, output>>

Next == Call \/ Launch \/ LaunchFails \/ Return \/ Reset

Spec == Init /\ [][Next]_vars

-----------------------------------------------------------------------------
(* Properties *)

\* However a sequence is cut into chunks, whichever kernels attend and however the
\* cache is laid out, a chunk leaves in the output what the reference makes of
\* the whole sequence: every token attends to itself and all before it, turned
\* by their own positions, and to nothing else.
MatchesReference ==
  phase = "busy" /\ pending = <<>> =>
    \A t \in Range0(tokens) : LET attended == Attended(shape, past + t) IN
      \A i \in Range0(QuerySize(shape)) : output[t * QuerySize(shape) + i] = attended[i]

\* The threads that append fill the rows of the chunk, and only these, and no two
\* of them store the same float, although some store two and others none.
AppendsOnce ==
  pending # <<>> /\ Head(pending) = "append" =>
    LET stores == [e \in Elements |-> DOMAIN AppendOf(e)]
        rows == {CacheIndex(past + t, h, i) :
                   t \in Range0(tokens), h \in Range0(shape.kvHeads), i \in Range0(shape.headDim)}
    IN /\ UNION {stores[e] : e \in Elements} = rows \cup {Plane + cell : cell \in rows}
       /\ \A e, f \in Elements : e # f => stores[e] \cap stores[f] = {}

\* Rows of logits stay inside the workspace the chunk needs, and that inside the
\* one a session has; no two keys of a chunk have the same cell.
LogitsStayInside ==
  tokens > 0 /\ Materialized(policy) =>
    LET pairs == {p \in Cells \X Range0(Context) : p[2] \in Visible(p[1][1])}
        index(p) == LogitIndex(p[1][1], p[1][2], p[2])
    IN /\ \A p \in pairs : index(p) < WorkspaceFloats(shape, tokens, Context)
       /\ \A p, q \in pairs : index(p) = index(q) => p = q
       /\ WorkspaceFloats(shape, tokens, Context) <= WorkspaceFloats(shape, MaxTokens, MaxContext)
=============================================================================
