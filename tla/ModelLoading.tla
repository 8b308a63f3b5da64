---------------------------- MODULE ModelLoading ----------------------------
(***************************************************************************)
(* From a file to a session: Model maps the file, derives a configuration  *)
(* from its metadata and requires a manifest of tensors; CudaWeightPlan    *)
(* uploads what the manifest names; a session and its executor then take   *)
(* configuration and weights as they are.  Each step checks what the next  *)
(* ones rely on, in words of its own width.                                *)
(*                                                                         *)
(* A metadata value is a number; NoWord is a key there is not, and what is *)
(* above HalfMax also stands for a value of another type.                  *)
(***************************************************************************)
EXTENDS StateLayout

CONSTANTS
  Metadata,   \* what a file may say
  Type,       \* types of tensors the catalog accepts
  ContextSize \* context sizes callers ask for

Numbers == {"embedding", "feedForward", "context", "blockCount", "nextn", "headCount",
            "kvHeadCount", "keyLength", "valueLength", "rotary", "convKernel", "stateSize",
            "groupCount", "timeStepRank", "innerSize", "interval", "tokens"}

LoadingAssumption ==
  /\ (HalfMax + 1) * (HalfMax + 1) = WordMax + 1
  /\ \A m \in Metadata : \A f \in Numbers : m[f] \in 0..NoWord
  /\ Type = {"f32", "f16", "bf16"} /\ ContextSize \subseteq 0..HalfMax

VARIABLES
  stage,       \* how far loading is, or refused
  descriptor,  \* of the file: none, open or closed
  mapped,      \* is the file mapped
  meta,        \* the metadata of the file
  config,      \* Qwen35Config
  catalog,     \* dimensions and type of each tensor of the manifest
  maxContext   \* of the session

loadVars == <<stage, descriptor, mapped, meta, config, catalog, maxContext>>

LoadInit ==
  /\ stage = "closed"
  /\ descriptor = "none"
  /\ mapped = FALSE
  /\ meta \in Metadata
  /\ config = <<>>
  /\ catalog = <<>>
  /\ maxContext = 0

\* A constructor that throws destroys the members it has: the mapping goes with them.
Refuse ==
  /\ stage' = "refused"
  /\ mapped' = FALSE
  /\ UNCHANGED <<descriptor, meta, config, catalog, maxContext>>

-----------------------------------------------------------------------------
(* MappedFile *)

OpenFile ==
  /\ stage = "closed"
  /\ \/ descriptor' = "open" /\ stage' = "opened"
     \/ descriptor' = "none" /\ stage' = "refused"
  /\ UNCHANGED <<mapped, meta, config, catalog, maxContext>>

\* Mutation: an exception leaves the descriptor open.
MutInspectFile ==
  /\ stage = "opened"
  /\ \/ stage' = "inspected" /\ UNCHANGED descriptor
     \/ stage' = "refused" /\ UNCHANGED descriptor
  /\ UNCHANGED <<mapped, meta, config, catalog, maxContext>>

\* fstat fails, or finds no regular file with something in it.
InspectFile ==
  /\ stage = "opened"
  /\ \/ stage' = "inspected" /\ UNCHANGED descriptor
     \/ stage' = "refused" /\ descriptor' = "closed"
  /\ UNCHANGED <<mapped, meta, config, catalog, maxContext>>

\* The descriptor is closed whether or not there is a mapping; read_catalog is next.
MapFile ==
  /\ stage = "inspected"
  /\ descriptor' = "closed"
  /\ \/ stage' = "metadata" /\ mapped' = TRUE
     \/ stage' = "refused" /\ UNCHANGED mapped
  /\ UNCHANGED <<meta, config, catalog, maxContext>>

-----------------------------------------------------------------------------
(* derive_qwen35_config *)

Required == Numbers \ {"nextn"}

\* optional_u32
NextnLayers(m) == IF m.nextn = NoWord THEN 0 ELSE m.nextn

MainBlocks(m) == m.blockCount - NextnLayers(m)

KindAt(m, index) == IF (index + 1) % m.interval = 0 THEN "full" ELSE "linear"

\* Mutation: value heads need not be a multiple of key heads.
MutLinearHeadsMatch(m) == m.timeStepRank = m.innerSize \div m.stateSize

LinearHeadsMatch(m) ==
  /\ m.innerSize % m.stateSize = 0
  /\ m.innerSize \div m.stateSize >= m.groupCount
  /\ (m.innerSize \div m.stateSize) % m.groupCount = 0
  /\ m.timeStepRank = m.innerSize \div m.stateSize

\* What derive_qwen35_config does not throw for.
Derivable(m) ==
  /\ m.architecture = "qwen35"
  /\ \A f \in Required : m[f] \in 0..HalfMax
  /\ NextnLayers(m) <= HalfMax
  /\ \A f \in Required \ {"rotary"} : m[f] # 0
  /\ m.keyLength = m.valueLength
  /\ m.headCount % m.kvHeadCount = 0
  /\ m.headCount * m.keyLength = m.embedding
  /\ LinearHeadsMatch(m)
  /\ m.rotary \in 1..m.keyLength /\ m.rotary % 2 = 0
  /\ m.epsilon = "positive" /\ m.ropeBase = "positive"
  /\ NextnLayers(m) < m.blockCount
  /\ MainBlocks(m) % m.interval = 0
  /\ m.layerTypes # <<>> =>
       /\ Len(m.layerTypes) = MainBlocks(m)
       /\ \A b \in 1..MainBlocks(m) : m.layerTypes[b] = KindAt(m, b - 1)

DerivedConfig(m) ==
  [vocabulary |-> m.tokens, hidden |-> m.embedding, intermediate |-> m.feedForward,
   contextLength |-> m.context, heads |-> m.headCount, kvHeads |-> m.kvHeadCount,
   headDim |-> m.keyLength, keyHeads |-> m.groupCount,
   valueHeads |-> m.innerSize \div m.stateSize, linearDim |-> m.stateSize,
   convWidth |-> m.convKernel, rotary |-> m.rotary,
   blocks |-> [b \in 1..MainBlocks(m) |-> [index |-> b - 1, kind |-> KindAt(m, b - 1)]]]

Derive ==
  /\ stage = "metadata"
  /\ IF Derivable(meta)
     THEN /\ config' = DerivedConfig(meta)
          /\ stage' = "config"
          /\ UNCHANGED <<descriptor, mapped, meta, catalog, maxContext>>
     ELSE Refuse

-----------------------------------------------------------------------------
(* validate_qwen35_manifest *)

\* Products and sums of 64 bits, unchecked.
Wrap(n) == n % (WordMax + 1)

CommonTensors == {"input_norm", "post_attention_norm", "ffn_gate", "ffn_down", "ffn_up"}
FullTensors == {"query", "key", "value", "output", "query_norm", "key_norm"}
LinearTensors == {"qkv", "gate", "convolution", "time_step_bias", "recurrent_a",
                  "beta", "alpha", "output_norm", "output"}
ModelTensors == {"token_embedding", "output_norm", "output"}

TensorsOf(kind) == CommonTensors \cup (IF kind = "full" THEN FullTensors ELSE LinearTensors)

\* Every tensor of a model: its block, 0 for none, and its name.
Tensors(c) ==
  ({0} \X ModelTensors)
    \cup UNION {{b} \X TensorsOf(c.blocks[b].kind) : b \in DOMAIN c.blocks}

\* Mutation: the query projection without its gate.
MutQueryRows(c) == Wrap(c.heads * c.headDim)

\* Each query head comes with a gate.
QueryRows(c) == Wrap(Wrap(c.heads * c.headDim) * 2)

\* The dimensions require_tensor asks for.
ManifestDims(c, tensor) ==
  LET queryWidth == Wrap(c.heads * c.headDim)
      kvWidth == Wrap(c.kvHeads * c.headDim)
      valueWidth == Wrap(c.valueHeads * c.linearDim)
      qkvWidth == Wrap(Wrap(Wrap(c.keyHeads * c.linearDim) * 2) + valueWidth) IN
  CASE tensor[2] \in {"input_norm", "post_attention_norm"} -> <<c.hidden>>
    [] tensor[2] \in {"ffn_gate", "ffn_up"} -> <<c.hidden, c.intermediate>>
    [] tensor[2] = "ffn_down" -> <<c.intermediate, c.hidden>>
    [] tensor[2] = "token_embedding" -> <<c.hidden, c.vocabulary>>
    [] tensor = <<0, "output">> -> <<c.hidden, c.vocabulary>>
    [] tensor = <<0, "output_norm">> -> <<c.hidden>>
    [] tensor[2] = "query" -> <<c.hidden, QueryRows(c)>>
    [] tensor[2] \in {"key", "value"} -> <<c.hidden, kvWidth>>
    [] tensor[2] \in {"query_norm", "key_norm"} -> <<c.headDim>>
    [] tensor[2] = "qkv" -> <<c.hidden, qkvWidth>>
    [] tensor[2] = "gate" -> <<c.hidden, valueWidth>>
    [] tensor[2] = "convolution" -> <<c.convWidth, qkvWidth>>
    [] tensor[2] \in {"time_step_bias", "recurrent_a"} -> <<c.valueHeads>>
    [] tensor[2] \in {"beta", "alpha"} -> <<c.hidden, c.valueHeads>>
    [] tensor[1] # 0 /\ tensor[2] = "output_norm" -> <<c.linearDim>>
    [] tensor[1] # 0 /\ tensor[2] = "output" ->
         IF c.blocks[tensor[1]].kind = "full" THEN <<queryWidth, c.hidden>>
         ELSE <<valueWidth, c.hidden>>

Auxiliary ==
  {"input_norm", "post_attention_norm", "query_norm", "key_norm", "convolution",
   "time_step_bias", "recurrent_a", "output_norm"}

\* A tensor the file does not have, or has with another shape, is a ManifestError.  A
\* file with the right shapes has some type for its matrices, one for its vectors, and
\* at most one tensor of a type of its own.
ValidateManifest ==
  /\ stage = "config"
  /\ \/ /\ \E matrices, vectors, odd \in Type, one \in Tensors(config) :
             catalog' = [t \in Tensors(config) |->
               [dims |-> ManifestDims(config, t),
                type |-> IF t = one THEN odd
                         ELSE IF t[2] \in Auxiliary THEN vectors ELSE matrices]]
        /\ stage' = "manifest"
        /\ UNCHANGED <<descriptor, mapped, meta, config, maxContext>>
     \/ Refuse

\* serialize_tokenizer_spec; a nested array and a text too long throw.
SerializeTokenizer ==
  /\ stage = "manifest"
  /\ \/ /\ stage' = "model"
        /\ UNCHANGED <<descriptor, mapped, meta, config, catalog, maxContext>>
     \/ Refuse

-----------------------------------------------------------------------------
(* CudaWeightPlan::upload *)

PrimaryType == catalog[<<0, "token_embedding">>].type

Uploadable ==
  /\ PrimaryType \in {"f16", "bf16"}
  /\ \A t \in DOMAIN catalog :
       catalog[t].type = PrimaryType \/ (t[2] \in Auxiliary /\ catalog[t].type = "f32")

\* load_model: a model whose weights are not taken is destroyed.
Upload ==
  /\ stage = "model"
  /\ \/ /\ Uploadable
        /\ stage' = "weights"
        /\ UNCHANGED <<descriptor, mapped, meta, config, catalog, maxContext>>
     \/ ~Uploadable /\ Refuse

-----------------------------------------------------------------------------
(* Session and executor *)

\* validate_config
ConfigServes(c, context) ==
  /\ \A f \in {"vocabulary", "hidden", "intermediate", "contextLength", "convWidth",
               "keyHeads", "valueHeads", "linearDim", "heads", "kvHeads", "headDim"} :
       c[f] # 0
  /\ context \in 1..c.contextLength
  /\ c.blocks # <<>>
  /\ c.rotary \in 1..c.headDim /\ c.rotary % 2 = 0
  /\ c.heads % c.kvHeads = 0
  /\ Times(c.heads, c.headDim) = c.hidden
  /\ Times(c.valueHeads, c.linearDim) = c.hidden
  /\ c.valueHeads % c.keyHeads = 0
  /\ \A b \in DOMAIN c.blocks : c.blocks[b].index = b - 1

\* Mutation: each vector of a linear block is checked for itself only.
MutTypesServe(c) ==
  \A t \in DOMAIN catalog :
    catalog[t].type = PrimaryType \/ (t[2] \in Auxiliary /\ catalog[t].type = "f32")

\* validate_weight_dtypes: the vectors of a linear block share one type.
TypesServe(c) ==
  /\ PrimaryType \in {"f16", "bf16"}
  /\ \A t \in DOMAIN catalog :
       catalog[t].type = PrimaryType \/ (t[2] \in Auxiliary /\ catalog[t].type = "f32")
  /\ \A b \in BlocksOf(c, "linear") :
       \A name \in {"time_step_bias", "recurrent_a", "output_norm"} :
         catalog[<<b, name>>].type = catalog[<<b, "convolution">>].type

\* create_session_layout, then the executor's constructor as far as its checks.
CreateSession ==
  /\ stage = "weights"
  /\ \E context \in ContextSize :
       /\ maxContext' = context
       /\ stage' = IF /\ context <= config.contextLength
                      /\ Creatable(config, context)
                      /\ ConfigServes(config, context)
                      /\ TypesServe(config)
                   THEN "session" ELSE "unserved"
  /\ UNCHANGED <<descriptor, mapped, meta, config, catalog>>

LoadNext ==
  \/ OpenFile \/ InspectFile \/ MapFile
  \/ Derive \/ ValidateManifest \/ SerializeTokenizer
  \/ Upload \/ CreateSession

LoadSpec == LoadInit /\ [][LoadNext]_loadVars

-----------------------------------------------------------------------------
(* What the executor reads *)

\* create_plans: a matrix is read as n rows of k; the other kernels read vectors, the
\* convolution a row of taps for each channel.
ReadAs(c, tensor) ==
  LET qWidth == c.heads * c.headDim
      kvWidth == c.kvHeads * c.headDim
      qkvWidth == Plus(Times(2, Times(c.keyHeads, c.linearDim)),
                       Times(c.valueHeads, c.linearDim))
      gateWidth == c.valueHeads * c.linearDim
      Matrix(n, k) == <<k, n>> IN
  CASE tensor[2] \in {"ffn_gate", "ffn_up"} -> Matrix(c.intermediate, c.hidden)
    [] tensor[2] = "ffn_down" -> Matrix(c.hidden, c.intermediate)
    [] tensor[2] = "query" -> Matrix(qWidth * 2, c.hidden)
    [] tensor[2] \in {"key", "value"} -> Matrix(kvWidth, c.hidden)
    [] tensor[2] = "qkv" -> Matrix(qkvWidth, c.hidden)
    [] tensor[2] \in {"beta", "alpha"} -> Matrix(c.valueHeads, c.hidden)
    [] tensor[2] = "gate" -> Matrix(gateWidth, c.hidden)
    [] tensor[2] = "convolution" -> Matrix(qkvWidth, c.convWidth)
    [] tensor[1] # 0 /\ tensor[2] = "output" ->
         Matrix(c.hidden, IF c.blocks[tensor[1]].kind = "full" THEN qWidth ELSE gateWidth)
    [] tensor[2] = "token_embedding" \/ tensor = <<0, "output">> ->
         Matrix(c.vocabulary, c.hidden)
    [] tensor[2] \in {"query_norm", "key_norm"} -> <<c.headDim>>
    [] tensor[2] \in {"time_step_bias", "recurrent_a"} -> <<c.valueHeads>>
    [] tensor[1] # 0 /\ tensor[2] = "output_norm" -> <<c.linearDim>>
    [] OTHER -> <<c.hidden>>

\* The type a kernel is told: plans know only the embedding's, the gated delta kernels
\* only the convolution's, every norm that of its own weight.
ToldType(c, tensor) ==
  CASE tensor[2] \notin Auxiliary -> PrimaryType
    [] tensor[1] # 0 /\ tensor[2] \in Auxiliary \cap LinearTensors ->
         catalog[<<tensor[1], "convolution">>].type
    [] OTHER -> catalog[tensor].type

-----------------------------------------------------------------------------
(* Properties *)

Loaded == stage \in {"manifest", "model", "weights", "unserved", "session"}

\* A session's kernels read every weight in the shape it has in the file: the manifest
\* and the executor list tensors each on their own, and no launch compares the two.
ShapesFitKernels ==
  stage = "session" => \A t \in DOMAIN catalog : catalog[t].dims = ReadAs(config, t)

\* Every kernel is told the type its weight was uploaded with, though a plan knows only
\* the embedding's and the gated delta kernels only the convolution's.
TypesFitKernels ==
  stage = "session" => \A t \in DOMAIN catalog : catalog[t].type = ToldType(config, t)

\* The widths the manifest multiplies without a check are the true ones: what was
\* derived bounds every one of them.
WidthsAreTrue ==
  Loaded =>
    /\ config.heads * config.headDim * 2 <= WordMax
    /\ config.kvHeads * config.headDim <= WordMax
    /\ 2 * config.keyHeads * config.linearDim + config.valueHeads * config.linearDim <= WordMax

\* A model that loads has weights of one kind in the right types and a context that
\* fits is turned away for three reasons only: linear layers of another width than the
\* model, vectors of mixed types, and a state too large to be counted.
LoaderCoversExecutor ==
  stage = "unserved" /\ maxContext \in 1..config.contextLength =>
    \/ config.valueHeads * config.linearDim # config.hidden
    \/ ~TypesServe(config)
    \/ \E f \in SizeFields : Created(config, maxContext)[f] = NoWord
    \/ TotalBytes(Created(config, maxContext)) = NoWord

\* A file is left neither open nor, when it was refused, mapped.
NothingStaysOpen ==
  /\ stage = "refused" => descriptor # "open" /\ ~mapped
  /\ Loaded => descriptor = "closed" /\ mapped

LoadedModelsFit ==
  /\ ShapesFitKernels /\ TypesFitKernels /\ WidthsAreTrue
  /\ LoaderCoversExecutor /\ NothingStaysOpen
=============================================================================
