----------------------------- MODULE ForwardPass -----------------------------
(***************************************************************************)
(* A chunk of tokens goes through all layers, one kernel after another, in *)
(* one set of buffers that every layer and every chunk uses again: two for *)
(* the hidden rows, which change places after each residual, one for the   *)
(* input of every matrix product, and others that full and linear layers   *)
(* share.  A kernel writes the rows of the chunk and leaves those below as *)
(* they are.  What a layer keeps from chunk to chunk is in a state of its  *)
(* own, found through a table by kind.                                     *)
(*                                                                         *)
(* A row is what the reference calls it, or wrong.  Rounding for a matrix  *)
(* product is kept as a cast and otherwise left out.                       *)
(***************************************************************************)
EXTENDS Integers, Sequences, FiniteSets

CONSTANTS
  Layers,         \* the kinds of the layers, "full" or "linear"
  Token,
  MaxContext,
  ChunkSizes      \* the buckets there are plans for

ASSUME LayersAssumption == Layers \in Seq({"full", "linear"}) /\ Len(Layers) > 0
ASSUME ChunkAssumption ==
  ChunkSizes \subseteq Nat \ {0} /\ IsFiniteSet(ChunkSizes) /\ 1 \in ChunkSizes
ASSUME ContextAssumption == MaxContext \in Nat

-----------------------------------------------------------------------------
(***************************************************************************)
(* The model as the reference backend computes it, qwen35_execute_model:   *)
(* every row of every tensor, named by what it is.  A value is             *)
(* <<stage, layer, prefix>>: the row, of this tensor of this layer, of the *)
(* last token of a prefix of the sequence.  Made says from what the        *)
(* reference makes it, one operation at a time.                            *)
(***************************************************************************)

Upto(prefix, k) == SubSeq(prefix, 1, k)

Zero == <<"zero">>

\* What a linear layer has folded of a prefix.
State(l, prefix) == IF prefix = <<>> THEN Zero ELSE <<"state", l, prefix>>

\* residual_add of a layer makes the hidden rows of the next.
Made(stage, l, prefix) ==
  LET value(s) == <<s, l, prefix>>
      linear(weight, s) == <<"matmul", weight, l, value(s)>>
      before(k) == Upto(prefix, k)
      hidden == <<"hidden", l - 1, prefix>>
  IN CASE stage = "hidden" /\ l = 0 -> <<"embed", prefix[Len(prefix)]>>
       [] stage = "hidden" /\ l > 0 -> <<"add", value("mixed_hidden"), value("down")>>
       [] stage = "input" -> <<"norm", "input_norm", l, hidden>>
       \* run_full_mixer
       [] stage \in {"query_gate", "key", "value", "qkv", "beta", "alpha", "linear_gate"} ->
            linear(stage, "input")
       [] stage \in {"query", "gate"} -> <<"split", stage, value("query_gate")>>
       [] stage \in {"query_norm", "key_norm"} ->
            <<"turn", stage, l, Len(prefix), value(IF stage = "query_norm" THEN "query" ELSE "key")>>
       [] stage = "attended" ->
            <<"attend", value("query_norm"), value("gate"),
              [k \in 1..Len(prefix) |-> <<<<"key_norm", l, before(k)>>, <<"value", l, before(k)>>>>]>>
       \* run_linear_mixer
       [] stage = "pack" ->
            <<"pack", value("qkv"), value("beta"), value("alpha"), value("linear_gate")>>
       [] stage = "state" -> <<"fold", l, State(l, before(Len(prefix) - 1)), value("pack")>>
       [] stage = "read" -> <<"read", l, State(l, before(Len(prefix) - 1)), value("pack")>>
       [] stage = "mixed" ->
            linear("output", IF Layers[l] = "full" THEN "attended" ELSE "read")
       [] stage = "mixed_hidden" -> <<"add", hidden, value("mixed")>>
       [] stage = "post" -> <<"norm", "post_norm", l, value("mixed_hidden")>>
       [] stage \in {"ffn_gate", "ffn_up"} -> linear(stage, "post")
       [] stage = "swiglu" -> <<"swiglu", value("ffn_gate"), value("ffn_up")>>
       [] stage = "down" -> linear("ffn_down", "swiglu")
       \* with the last layer for l
       [] stage = "final" -> <<"norm", "output_norm", l, <<"hidden", Len(Layers), prefix>>>>
       [] stage = "logits" -> linear("lm_head", "final")
       [] stage = "token" -> <<"argmax", value("logits")>>

Wrong == <<"wrong">>

\* The name of what an operation makes, if it is what the reference makes there.
Named(term, stage, l, prefix) ==
  IF term = Made(stage, l, prefix) THEN <<stage, l, prefix>> ELSE Wrong

-----------------------------------------------------------------------------

VARIABLES
  grouped,    \* policy: products of one input share its cast
  traced,     \* whether tensors are recorded
  log,        \* the tokens of the sequence so far
  chunk,      \* the tokens in flight
  wanted,     \* whether the chunk produces logits
  at,         \* the next kernel
  phase,      \* "idle", "busy" or "poisoned"
  hidden,     \* which of the two buffers has the hidden rows
  rows,       \* what is in the buffers, row by row
  states,     \* what the layers keep
  trace       \* the last tensor recorded

vars == <<grouped, traced, log, chunk, wanted, at, phase, hidden, rows, states, trace>>

Last(s) == s[Len(s)]
MaxChunk == CHOOSE n \in ChunkSizes : \A m \in ChunkSizes : m <= n

-----------------------------------------------------------------------------
(* The kernels of a chunk *)

\* A kernel: its operation, weight and layer, the buffers it reads and, of those
\* it writes, the tensors they are to hold; "hidden" and "scratch" are the two
\* hidden buffers, by what they are at the time.
Kernel(op, weight, l, from, to, stage) ==
  [op |-> op, weight |-> weight, layer |-> l, from |-> from, to |-> to, stage |-> stage,
   single |-> FALSE]

Cast(from, l) == Kernel("cast", "none", l, <<from>>, <<"matmul_input">>, <<"none">>)
Product(weight, l, to, stage) ==
  Kernel("matmul", weight, l, <<"matmul_input">>, <<to>>, <<stage>>)

\* run_matmul
Matmul(from, weight, l, to, stage) == <<Cast(from, l), Product(weight, l, to, stage)>>

\* Products of one input; products are pairs of a stage and a buffer, their weight
\* is named as the stage.
Group(g, from, l, products) ==
  LET product(k) == Product(products[k][1], l, products[k][2], products[k][1])
  IN IF g THEN <<Cast(from, l)>> \o [k \in 1..Len(products) |-> product(k)]
     ELSE [k \in 1..(2 * Len(products)) |->
             IF k % 2 = 1 THEN Cast(from, l) ELSE product(k \div 2)]

\* run_full_layer
FullLayer(g, l) ==
  Group(g, "scratch", l, <<<<"query_gate", "query_gate">>, <<"key", "key">>, <<"value", "value">>>>)
  \o <<Kernel("split", "none", l, <<"query_gate">>, <<"query", "gate">>, <<"query", "gate">>),
       Kernel("turn", "query_norm", l, <<"query">>, <<"query_norm">>, <<"query_norm">>),
       Kernel("turn", "key_norm", l, <<"key">>, <<"key_norm">>, <<"key_norm">>),
       Kernel("append", "none", l, <<"key_norm", "value">>, <<>>, <<>>),
       Kernel("attend", "none", l, <<"query_norm", "gate">>, <<"attention_out">>, <<"attended">>)>>
  \o Matmul("attention_out", "output", l, "projected", "mixed")

\* run_linear_layer
LinearLayer(g, l) ==
  Group(g, "scratch", l,
    <<<<"qkv", "qkv">>, <<"beta", "beta">>, <<"alpha", "alpha">>, <<"linear_gate", "gate">>>>)
  \o <<Kernel("pack", "none", l, <<"qkv", "beta", "alpha", "gate">>, <<"pack">>, <<"pack">>),
       Kernel("delta", "none", l, <<"pack">>, <<"attention_out">>, <<"read">>)>>
  \o Matmul("attention_out", "output", l, "projected", "mixed")

Residual(l, stage) ==
  <<Kernel("add", "none", l, <<"hidden", "projected">>, <<"scratch">>, <<stage>>)>>

Layer(g, l) ==
  <<Kernel("norm", "input_norm", l, <<"hidden">>, <<"scratch">>, <<"input">>)>>
  \o (IF Layers[l] = "full" THEN FullLayer(g, l) ELSE LinearLayer(g, l))
  \o Residual(l, "mixed_hidden")
  \o <<Kernel("norm", "post_norm", l, <<"hidden">>, <<"scratch">>, <<"post">>)>>
  \o Group(g, "scratch", l, <<<<"ffn_gate", "intermediate_a">>, <<"ffn_up", "intermediate_b">>>>)
  \o <<Kernel("swiglu", "none", l, <<"intermediate_a", "intermediate_b">>, <<"intermediate_a">>,
              <<"swiglu">>)>>
  \o Matmul("intermediate_a", "ffn_down", l, "projected", "down")
  \o Residual(l, "hidden")

\* The end of a chunk that produces logits is about a single row.
OutputHead(l) ==
  LET kernels ==
        <<Kernel("last_norm", "output_norm", l, <<"hidden">>, <<"scratch">>, <<"final">>)>>
        \o Matmul("scratch", "lm_head", l, "logits", "logits")
        \o <<Kernel("argmax", "none", l, <<"logits">>, <<"result">>, <<"token">>)>>
  IN [k \in DOMAIN kernels |-> [kernels[k] EXCEPT !.single = TRUE]]

\* The kernels of the first layers.
LayersTo(g) ==
  LET kernels[l \in 0..Len(Layers)] == IF l = 0 THEN <<>> ELSE kernels[l - 1] \o Layer(g, l)
  IN kernels

\* run_chunk
ProgramOf(g, produce) ==
  <<Kernel("embed", "none", 0, <<"ids">>, <<"hidden">>, <<"hidden">>)>>
  \o LayersTo(g)[Len(Layers)]
  \o (IF produce THEN OutputHead(Len(Layers)) ELSE <<>>)

Programs == [choice \in BOOLEAN \X BOOLEAN |-> ProgramOf(choice[1], choice[2])]
Program == Programs[<<grouped, wanted>>]

-----------------------------------------------------------------------------
(* What a kernel does *)

Buffer ==
  {"ids", "hidden_a", "hidden_b", "matmul_input", "query_gate", "query", "gate", "query_norm",
   "key", "key_norm", "value", "qkv", "beta", "alpha", "pack", "attention_out", "projected",
   "intermediate_a", "intermediate_b", "logits", "result"}

Other(b) == IF b = "hidden_a" THEN "hidden_b" ELSE "hidden_a"
Place(b) == CASE b = "hidden" -> hidden [] b = "scratch" -> Other(hidden) [] OTHER -> b

Position == Len(log)
Sequence == log \o chunk
Prefix(row) == Upto(Sequence, Position + row)

Read(k, i, row) == rows[Place(k.from[i])][row]

\* Mutation: the last row of the largest chunk there is.
MutLastRow == MaxChunk

\* The row that logits are made from.
LastRow == Len(chunk)

RowsOf(k) == IF k.single THEN {1} ELSE 1..Len(chunk)
PrefixOf(k, row) == IF k.single THEN Sequence ELSE Prefix(row)

\* The states of a kind are numbered in the order of their layers.
Numbered(kind, l) == Cardinality({m \in 1..l : Layers[m] = kind})

\* Mutation: a linear layer goes by the number of the full ones before it.
MutStateOf(l) == IF Numbered("full", l) = 0 THEN 1 ELSE Numbered("full", l)

\* full_state_by_layer_ and linear_state_by_layer_
StateOf(l) == Numbered(Layers[l], l)

Cache(l) == states.full[StateOf(l)]

\* A row that a kernel makes, as the term of its operation.
Term(k, row) ==
  CASE k.op = "embed" -> <<"embed", Read(k, 1, row)>>
    [] k.op = "norm" -> <<"norm", k.weight, k.layer, Read(k, 1, row)>>
    [] k.op = "last_norm" -> <<"norm", k.weight, k.layer, Read(k, 1, LastRow)>>
    [] k.op = "matmul" ->
         <<"matmul", k.weight, k.layer,
           IF Read(k, 1, row)[1] = "cast" THEN Read(k, 1, row)[2] ELSE Wrong>>
    [] k.op = "turn" -> <<"turn", k.weight, k.layer, Position + row, Read(k, 1, row)>>
    [] k.op = "attend" ->
         <<"attend", Read(k, 1, row), Read(k, 2, row), Upto(Cache(k.layer), Position + row)>>
    [] k.op = "pack" -> <<"pack", Read(k, 1, row), Read(k, 2, row), Read(k, 3, row), Read(k, 4, row)>>
    [] k.op = "add" -> <<"add", Read(k, 1, row), Read(k, 2, row)>>
    [] k.op = "swiglu" -> <<"swiglu", Read(k, 1, row), Read(k, 2, row)>>
    [] k.op = "argmax" -> <<"argmax", Read(k, 1, row)>>

\* Rows made and those left below.
Over(buffer, k, made) ==
  [row \in 1..MaxChunk |-> IF row \in RowsOf(k) THEN made[row] ELSE rows[Place(buffer)][row]]

\* One output.
Rowwise(k) ==
  rows' = [rows EXCEPT ![Place(k.to[1])] =
    Over(k.to[1], k, [row \in RowsOf(k) |-> Named(Term(k, row), k.stage[1], k.layer, PrefixOf(k, row))])]

CastRows(k) ==
  rows' = [rows EXCEPT !["matmul_input"] =
    Over("matmul_input", k, [row \in RowsOf(k) |-> <<"cast", Read(k, 1, row)>>])]

Split(k) ==
  LET half(i) == Over(k.to[i], k, [row \in RowsOf(k) |->
        Named(<<"split", k.stage[i], Read(k, 1, row)>>, k.stage[i], k.layer, PrefixOf(k, row))])
  IN rows' = [rows EXCEPT ![k.to[1]] = half(1), ![k.to[2]] = half(2)]

\* The keys and values of the chunk, after those that were there.
AppendCache(k) ==
  states' = [states EXCEPT !.full[StateOf(k.layer)] =
    [p \in 1..MaxContext |->
      IF p \in Position + 1 .. Position + Len(chunk)
      THEN <<Read(k, 1, p - Position), Read(k, 2, p - Position)>> ELSE @[p]]]

\* The state goes on from token to token; a token reads it together with its own
\* row.
Delta(k) ==
  LET before[row \in 1..(Len(chunk) + 1)] ==
        IF row = 1 THEN states.linear[StateOf(k.layer)]
        ELSE Named(<<"fold", k.layer, before[row - 1], Read(k, 1, row - 1)>>, "state", k.layer,
                   Prefix(row - 1))
  IN /\ rows' = [rows EXCEPT ![k.to[1]] =
          Over(k.to[1], k, [row \in RowsOf(k) |->
            Named(<<"read", k.layer, before[row], Read(k, 1, row)>>, "read", k.layer, Prefix(row))])]
     /\ states' = [states EXCEPT !.linear[StateOf(k.layer)] = before[Len(chunk) + 1]]

Run(k) ==
  CASE k.op = "cast" -> CastRows(k) /\ UNCHANGED states
    [] k.op = "split" -> Split(k) /\ UNCHANGED states
    [] k.op = "append" -> AppendCache(k) /\ UNCHANGED rows
    [] k.op = "delta" -> Delta(k)
    [] OTHER -> Rowwise(k) /\ UNCHANGED states

\* The names that tensors are recorded under, with the buffer they are read from
\* after the kernel that made them.
Recorded(k) ==
  CASE k.op = "embed" -> <<"input_embed", "hidden">>
    [] k.op = "norm" /\ k.weight = "input_norm" -> <<"attn_norm", "scratch">>
    [] k.op = "norm" /\ k.weight = "post_norm" -> <<"attn_post_norm", "scratch">>
    [] k.op = "add" /\ k.stage[1] = "mixed_hidden" -> <<"attn_residual", "hidden">>
    [] k.op = "add" /\ k.stage[1] = "hidden" -> <<"l_out", "hidden">>
    [] k.op = "swiglu" -> <<"ffn_swiglu", "intermediate_a">>
    [] k.op = "delta" -> <<"final_output", "attention_out">>
    [] k.op = "matmul" /\ k.weight = "output" ->
         <<IF Layers[k.layer] = "full" THEN "attn_out" ELSE "linear_attn_out", "projected">>
    [] k.op = "matmul" /\ k.weight = "linear_gate" ->
         <<"linear_attn_qkv_mixed", "qkv">>
    [] OTHER -> <<"none", "none">>

-----------------------------------------------------------------------------
(* Calls *)

\* Nothing that an earlier chunk left is of any use to a later one.
Old == [b \in Buffer |-> [row \in 1..MaxChunk |-> <<"old">>]]
None == <<"none", 0, <<>>>>

Fresh ==
  [full |-> [n \in 1..Numbered("full", Len(Layers)) |-> [p \in 1..MaxContext |-> <<Zero, Zero>>]],
   linear |-> [n \in 1..Numbered("linear", Len(Layers)) |-> Zero]]

Init ==
  /\ grouped \in BOOLEAN /\ traced \in BOOLEAN
  /\ log = <<>> /\ chunk = <<>> /\ wanted = FALSE /\ at = 0
  /\ phase = "idle" /\ hidden = "hidden_a"
  /\ rows = Old /\ states = Fresh /\ trace = None

\* run_chunk begins: the tokens are uploaded, the pointers set.
Call ==
  /\ phase = "idle"
  /\ \E n \in ChunkSizes, produce \in BOOLEAN : \E tokens \in [1..n -> Token] :
       /\ Position + n <= MaxContext
       /\ chunk' = tokens /\ wanted' = produce
       /\ rows' = [rows EXCEPT !["ids"] =
            [row \in 1..MaxChunk |-> IF row <= n THEN tokens[row] ELSE @[row]]]
  /\ at' = 1 /\ phase' = "busy" /\ hidden' = "hidden_a"
  /\ UNCHANGED <<grouped, traced, log, states, trace>>

\* Mutation: the buffers do not change places.
MutSwapped(k) == hidden

\* std::swap of hidden and scratch, after a residual
Swapped(k) == IF k.op = "add" THEN Other(hidden) ELSE hidden

Launch ==
  /\ phase = "busy" /\ at <= Len(Program)
  /\ LET k == Program[at] IN
       /\ Run(k)
       /\ hidden' = Swapped(k)
       /\ trace' = IF ~traced \/ Recorded(k)[1] = "none" THEN trace
                   ELSE LET name == Recorded(k)[1]
                            b == Recorded(k)[2]
                            place == CASE b = "hidden" -> hidden' [] b = "scratch" -> Other(hidden')
                                       [] OTHER -> b
                        IN <<name, k.layer, [row \in 1..Len(chunk) |-> rows'[place][row]]>>
  /\ at' = at + 1
  /\ UNCHANGED <<grouped, traced, log, chunk, wanted, phase>>

\* A launch, a product or a download throws.
LaunchFails ==
  /\ phase = "busy" /\ at <= Len(Program)
  /\ phase' = "poisoned" /\ at' = 0
  /\ chunk' = <<>> /\ wanted' = FALSE /\ rows' = Old /\ hidden' = "hidden_a" /\ trace' = None
  /\ UNCHANGED <<grouped, traced, log, states>>

\* The caller commits the chunk.
Return ==
  /\ phase = "busy" /\ at > Len(Program)
  /\ phase' = "idle" /\ at' = 0
  /\ log' = Sequence /\ chunk' = <<>> /\ wanted' = FALSE
  /\ rows' = Old /\ hidden' = "hidden_a" /\ trace' = None
  /\ UNCHANGED <<grouped, traced, states>>

Reset ==
  /\ phase \in {"idle", "poisoned"}
  /\ states' = Fresh /\ log' = <<>> /\ phase' = "idle"
  /\ UNCHANGED <<grouped, traced, chunk, wanted, at, hidden, rows, trace>>

Next == Call \/ Launch \/ LaunchFails \/ Return \/ Reset

Spec == Init /\ [][Next]_vars

-----------------------------------------------------------------------------
(* Properties *)

\* Logits and token are those the reference makes of the whole sequence, whatever
\* chunks it came in, although every buffer between has held other layers' rows.
LogitsMatch ==
  phase = "busy" /\ wanted /\ at > Len(Program) =>
    /\ rows["logits"][1] = <<"logits", Len(Layers), Sequence>>
    /\ rows["result"][1] = <<"token", Len(Layers), Sequence>>

\* After a chunk, with logits or without, every layer keeps what the reference has
\* of it for the whole sequence: no layer writes another's state.
StatesMatch ==
  phase = "idle" =>
    \A l \in 1..Len(Layers) :
      IF Layers[l] = "linear" THEN states.linear[StateOf(l)] = State(l, log)
      ELSE \A p \in 1..Position :
             Cache(l)[p] = <<<<"key_norm", l, Upto(log, p)>>, <<"value", l, Upto(log, p)>>>>

\* The tensor of a name in a trace.
StageOf(name) ==
  CASE name = "input_embed" -> "hidden"
    [] name = "attn_norm" -> "input"
    [] name = "attn_post_norm" -> "post"
    [] name = "attn_residual" -> "mixed_hidden"
    [] name = "l_out" -> "hidden"
    [] name = "ffn_swiglu" -> "swiglu"
    [] name = "final_output" -> "read"
    [] name \in {"attn_out", "linear_attn_out"} -> "mixed"
    [] name = "linear_attn_qkv_mixed" -> "qkv"

\* What is recorded under a name is that tensor of that layer, for all rows of the
\* chunk, and not what its buffer held before or holds by then.
TraceIsTrue ==
  trace # None /\ phase = "busy" =>
    \A row \in 1..Len(chunk) : trace[3][row] = <<StageOf(trace[1]), trace[2], Prefix(row)>>

\* A chunk makes of every row what the reference makes of it, in its tensors on
\* the way, as far as they are recorded, and in its logits.
RowsMatch == LogitsMatch /\ TraceIsTrue
=============================================================================
