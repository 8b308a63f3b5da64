----------------------------- MODULE StateLayout -----------------------------
(***************************************************************************)
(* Qwen35StateLayout: how much state a session keeps and which slot of it  *)
(* belongs to which block.  create computes a layout from a configuration; *)
(* require_valid_layout, of anyone's layout, computes all of it again.     *)
(*                                                                         *)
(* A checked operation that does not fit its word is NoWord.               *)
(***************************************************************************)
EXTENDS Naturals, Sequences, FiniteSets

CONSTANTS
  WordMax,    \* the largest size_t and uint64
  HalfMax,    \* the largest uint32
  MaxFloats   \* std::vector<float>::max_size

LayoutWordsAssumption ==
  /\ HalfMax \in Nat /\ HalfMax >= 4 /\ WordMax \in Nat /\ WordMax >= HalfMax
  /\ MaxFloats \in 0..WordMax

NoWord == WordMax + 1
NoSlot == HalfMax

\* Mutation: products wrap.
MutTimes(a, b) == (a * b) % (WordMax + 1)

\* checked_mul, checked_add, checked_u32
Times(a, b) ==
  IF a # NoWord /\ b # NoWord /\ (a = 0 \/ b <= WordMax \div a) THEN a * b ELSE NoWord
Plus(a, b) == IF a # NoWord /\ b # NoWord /\ b <= WordMax - a THEN a + b ELSE NoWord
Half(a) == IF a <= HalfMax THEN a ELSE NoWord

\* checked_bytes
Bytes(floats) == Times(floats, 4)

-----------------------------------------------------------------------------
(* create *)

BlocksOf(config, kind) == {b \in DOMAIN config.blocks : config.blocks[b].kind = kind}

\* Slots go up in the order of the blocks of a kind; blocks count from 0.
SlotsOf(config, kind) ==
  [b \in DOMAIN config.blocks |->
     IF config.blocks[b].kind = kind
     THEN Cardinality({e \in BlocksOf(config, kind) : e < b}) ELSE NoSlot]

\* Mutation: the convolution keeps a whole window, not what comes before a token.
MutCreated(config, context) ==
  LET qkv == Half(Plus(Times(Times(2, config.keyHeads), config.linearDim),
                       Times(config.valueHeads, config.linearDim)))
      convolution == Times(qkv, config.convWidth)
      recurrent == Times(config.valueHeads, Times(config.linearDim, config.linearDim))
      kv == Times(Times(2, context), Times(config.kvHeads, config.headDim))
      linear == Cardinality(BlocksOf(config, "linear"))
      full == Cardinality(BlocksOf(config, "full")) IN
    [maxContext |-> context, blockCount |-> Len(config.blocks),
     linearLayers |-> linear, fullLayers |-> full, convWidth |-> config.convWidth,
     keyHeads |-> config.keyHeads, valueHeads |-> config.valueHeads,
     linearDim |-> config.linearDim, kvHeads |-> config.kvHeads, headDim |-> config.headDim,
     qkv |-> qkv, convolution |-> convolution, recurrent |-> recurrent, kv |-> kv,
     convolutionBytes |-> Bytes(Times(linear, convolution)),
     recurrentBytes |-> Bytes(Times(linear, recurrent)), kvBytes |-> Bytes(Times(full, kv)),
     linearSlots |-> SlotsOf(config, "linear"), fullSlots |-> SlotsOf(config, "full")]

\* The layout that create fills in; a field is NoWord if its size does not fit.
Created(config, context) ==
  LET qkv == Half(Plus(Times(Times(2, config.keyHeads), config.linearDim),
                       Times(config.valueHeads, config.linearDim)))
      convolution == Times(qkv, config.convWidth - 1)
      recurrent == Times(config.valueHeads, Times(config.linearDim, config.linearDim))
      kv == Times(Times(2, context), Times(config.kvHeads, config.headDim))
      linear == Cardinality(BlocksOf(config, "linear"))
      full == Cardinality(BlocksOf(config, "full")) IN
    [maxContext |-> context, blockCount |-> Len(config.blocks),
     linearLayers |-> linear, fullLayers |-> full, convWidth |-> config.convWidth,
     keyHeads |-> config.keyHeads, valueHeads |-> config.valueHeads,
     linearDim |-> config.linearDim, kvHeads |-> config.kvHeads, headDim |-> config.headDim,
     qkv |-> qkv, convolution |-> convolution, recurrent |-> recurrent, kv |-> kv,
     convolutionBytes |-> Bytes(Times(linear, convolution)),
     recurrentBytes |-> Bytes(Times(linear, recurrent)), kvBytes |-> Bytes(Times(full, kv)),
     linearSlots |-> SlotsOf(config, "linear"), fullSlots |-> SlotsOf(config, "full")]

SizeFields == {"qkv", "convolution", "recurrent", "kv",
               "convolutionBytes", "recurrentBytes", "kvBytes"}

TotalBytes(layout) ==
  Plus(Plus(layout.convolutionBytes, layout.recurrentBytes), layout.kvBytes)

\* What create does not throw for.
Creatable(config, context) ==
  /\ context # 0
  /\ \A f \in {"convWidth", "valueHeads", "keyHeads", "linearDim", "kvHeads", "headDim"} :
       config[f] # 0
  /\ Len(config.blocks) \in 1..HalfMax
  /\ \A b \in DOMAIN config.blocks : config.blocks[b].index = b - 1
  /\ \A f \in SizeFields : Created(config, context)[f] # NoWord
  /\ TotalBytes(Created(config, context)) # NoWord

-----------------------------------------------------------------------------
(* require_valid_layout *)

NonzeroFields == {"blockCount", "maxContext", "convWidth", "valueHeads", "keyHeads",
                  "linearDim", "kvHeads", "headDim"}

\* The sizes a layout must have, computed from the layout itself.
SizesMatch(layout) ==
  LET qkv == Half(Plus(Times(Times(2, layout.keyHeads), layout.linearDim),
                       Times(layout.valueHeads, layout.linearDim))) IN
    /\ layout.qkv = qkv
    /\ layout.convolution = Times(qkv, layout.convWidth - 1)
    /\ layout.recurrent =
         Times(layout.valueHeads, Times(layout.linearDim, layout.linearDim))
    /\ layout.kv = Times(Times(2, layout.maxContext), Times(layout.kvHeads, layout.headDim))

BytesMatch(layout) ==
  LET convolution == Bytes(Times(layout.linearLayers, layout.convolution))
      recurrent == Bytes(Times(layout.linearLayers, layout.recurrent))
      kv == Bytes(Times(layout.fullLayers, layout.kv)) IN
    /\ Plus(Plus(convolution, recurrent), kv) # NoWord
    /\ layout.convolutionBytes = convolution
    /\ layout.recurrentBytes = recurrent
    /\ layout.kvBytes = kv

\* Mutation: two blocks may have one slot.
MutSlotsApart(slots) == TRUE

\* No slot twice.
SlotsApart(slots) ==
  \A a, b \in DOMAIN slots : a # b /\ slots[a] # NoSlot => slots[a] # slots[b]

TakenSlots(slots) == {b \in DOMAIN slots : slots[b] # NoSlot}

\* Every block has a slot of one kind, and every slot of either kind is one block's.
SlotsMatch(layout) ==
  /\ \A b \in 1..layout.blockCount :
       (layout.linearSlots[b] # NoSlot) # (layout.fullSlots[b] # NoSlot)
  /\ \A b \in TakenSlots(layout.linearSlots) : layout.linearSlots[b] < layout.linearLayers
  /\ \A b \in TakenSlots(layout.fullSlots) : layout.fullSlots[b] < layout.fullLayers
  /\ SlotsApart(layout.linearSlots) /\ SlotsApart(layout.fullSlots)
  /\ Cardinality(TakenSlots(layout.linearSlots)) = layout.linearLayers
  /\ Cardinality(TakenSlots(layout.fullSlots)) = layout.fullLayers

\* require_vector_capacity
FitsVectors(layout) ==
  /\ Times(layout.linearLayers, layout.convolution) <= MaxFloats
  /\ Times(layout.linearLayers, layout.recurrent) <= MaxFloats
  /\ Times(layout.fullLayers, layout.kv) <= MaxFloats

ValidLayout(layout) ==
  /\ \A f \in NonzeroFields : layout[f] # 0
  /\ Len(layout.linearSlots) = layout.blockCount
  /\ Len(layout.fullSlots) = layout.blockCount
  /\ SizesMatch(layout) /\ SlotsMatch(layout) /\ BytesMatch(layout)
  /\ FitsVectors(layout)
=============================================================================
