------------------------------ MODULE HostState ------------------------------
(***************************************************************************)
(* Qwen35HostState: the position, the key/value lengths and, when storage  *)
(* is Full, one vector of floats for each of the three kinds of state,     *)
(* shared by all blocks of a kind.  A block reaches its part through its   *)
(* slot.  The layout is anyone's: one that create made, or one edited      *)
(* since.  A float holds 0 or the block that wrote it last.                *)
(***************************************************************************)
EXTENDS StateLayout

CONSTANTS
  Configs,      \* configurations
  ContextSizes, \* context sizes a caller asks for
  EditValue,    \* values a caller may put into a field of a layout
  MaxEdits,     \* Bound: fields and slots edited
  Counts        \* how many tokens a commit may be of

HostStateAssumption ==
  /\ ContextSizes \subseteq 0..HalfMax /\ EditValue \subseteq 0..HalfMax
  /\ Counts \subseteq 0..HalfMax /\ MaxEdits \in Nat
  /\ Configs \subseteq
       [keyHeads : 0..HalfMax, valueHeads : 0..HalfMax, linearDim : 0..HalfMax,
        convWidth : 0..HalfMax, kvHeads : 0..HalfMax, headDim : 0..HalfMax,
        blocks : Seq([index : 0..HalfMax, kind : {"linear", "full"}])]

VARIABLES
  phase,      \* none, layout, state; or refused
  layout,     \* the layout a caller holds, then layout_
  edits,      \* fields edited since create
  storage,    \* storage_: Full or LogicalOnly
  position,   \* position_
  lengths,    \* full_kv_lengths_, by slot
  floats      \* linear_convolution_, linear_recurrent_, full_kv_: by index

hostVars == <<phase, layout, edits, storage, position, lengths, floats>>

Arrays == {"convolution", "recurrent", "kv"}

\* Floats a slot of an array has, the slots of the blocks, how many slots there are.
PerSlot(array) == layout[array]
SlotsIn(array) == IF array = "kv" THEN layout.fullSlots ELSE layout.linearSlots
Layers(array) == IF array = "kv" THEN layout.fullLayers ELSE layout.linearLayers

\* slot_span
SpanOf(array, block) ==
  LET first == SlotsIn(array)[block] * PerSlot(array) IN first..(first + PerSlot(array) - 1)

Owners(array) == TakenSlots(SlotsIn(array))

\* full_kv_length, of a block that has one.
FullKvLength(block) == lengths[layout.fullSlots[block]]

HostInit ==
  /\ phase = "none"
  /\ layout = <<>>
  /\ edits = 0
  /\ storage = "LogicalOnly"
  /\ position = 0
  /\ lengths = <<>>
  /\ floats = [a \in Arrays |-> <<>>]

\* Qwen35StateLayout::create
Create ==
  /\ phase = "none"
  /\ \E c \in Configs, n \in ContextSizes :
       \/ /\ Creatable(c, n)
          /\ layout' = Created(c, n)
          /\ phase' = "layout"
       \/ /\ ~Creatable(c, n)
          /\ phase' = "refused"
          /\ UNCHANGED layout
  /\ UNCHANGED <<edits, storage, position, lengths, floats>>

\* The layout is a plain struct: a caller may change any of it.
EditField ==
  /\ phase = "layout" /\ edits < MaxEdits
  /\ \E f \in NonzeroFields \cup SizeFields \cup {"linearLayers", "fullLayers"},
        v \in EditValue : layout' = [layout EXCEPT ![f] = v]
  /\ edits' = edits + 1
  /\ UNCHANGED <<phase, storage, position, lengths, floats>>

EditSlot ==
  /\ phase = "layout" /\ edits < MaxEdits
  /\ \E f \in {"linearSlots", "fullSlots"}, v \in EditValue \cup {NoSlot} :
       \E b \in DOMAIN layout[f] : layout' = [layout EXCEPT ![f][b] = v]
  /\ edits' = edits + 1
  /\ UNCHANGED <<phase, storage, position, lengths, floats>>

\* The constructor; vectors begin as zeros.
Construct ==
  /\ phase = "layout"
  /\ IF ValidLayout(layout)
     THEN /\ phase' = "state"
          /\ storage' \in {"Full", "LogicalOnly"}
          /\ position' = 0
          /\ lengths' = [s \in 0..(layout.fullLayers - 1) |-> 0]
          /\ floats' = [a \in Arrays |->
               IF storage' = "Full" THEN [i \in 0..(Layers(a) * PerSlot(a) - 1) |-> 0]
               ELSE <<>>]
     ELSE phase' = "refused" /\ UNCHANGED <<storage, position, lengths, floats>>
  /\ UNCHANGED <<layout, edits>>

\* A block's part, through linear_convolution, linear_recurrent or full_kv, which
\* throw for a state without storage, a block there is not and a block of the other kind.
Write(array, block) ==
  /\ phase = "state" /\ storage = "Full"
  /\ block \in Owners(array)
  /\ floats' = [floats EXCEPT ![array] =
       [i \in DOMAIN @ |-> IF i \in SpanOf(array, block) THEN block ELSE @[i]]]
  /\ UNCHANGED <<phase, layout, edits, storage, position, lengths>>

FitsContext(length, count) == count <= layout.maxContext /\ length <= layout.maxContext - count

\* uint32 addition
Advance(length, count) == (length + count) % (HalfMax + 1)

\* commit_tokens: everything is checked before anything moves; what does not fit throws.
CommitTokens(count) ==
  /\ phase = "state"
  /\ FitsContext(position, count) /\ \A s \in DOMAIN lengths : FitsContext(lengths[s], count)
  /\ position' = Advance(position, count)
  /\ lengths' = [s \in DOMAIN lengths |-> Advance(lengths[s], count)]
  /\ UNCHANGED <<phase, layout, edits, storage, floats>>

\* Mutation: the lengths and the recurrent state survive.
MutReset ==
  /\ phase = "state"
  /\ position' = 0
  /\ lengths' = lengths
  /\ floats' = [a \in Arrays |->
                 IF a = "recurrent" THEN floats[a] ELSE [i \in DOMAIN floats[a] |-> 0]]
  /\ UNCHANGED <<phase, layout, edits, storage>>

Reset ==
  /\ phase = "state"
  /\ position' = 0
  /\ lengths' = [s \in DOMAIN lengths |-> 0]
  /\ floats' = [a \in Arrays |-> [i \in DOMAIN floats[a] |-> 0]]
  /\ UNCHANGED <<phase, layout, edits, storage>>

HostNext ==
  \/ Create \/ EditField \/ EditSlot \/ Construct
  \/ \E a \in Arrays, b \in 1..HalfMax : Write(a, b)
  \/ \E count \in Counts : CommitTokens(count)
  \/ Reset

HostSpec == HostInit /\ [][HostNext]_hostVars

-----------------------------------------------------------------------------
(* Properties *)

\* Whatever create returns, the constructor takes, unless a vector cannot be that
\* long: the two computations of every size, slot and byte count agree.
CreatedIsAccepted ==
  phase = "layout" /\ edits = 0 /\ FitsVectors(layout) => ValidLayout(layout)

\* No accepted layout has a size that wrapped: each is the product a reader would
\* compute by hand, and all of them together can be counted in bytes.
SizesAreTrue ==
  phase = "state" =>
    /\ layout.qkv = 2 * layout.keyHeads * layout.linearDim + layout.valueHeads * layout.linearDim
    /\ layout.convolution = layout.qkv * (layout.convWidth - 1)
    /\ layout.recurrent = layout.valueHeads * layout.linearDim * layout.linearDim
    /\ layout.kv = 2 * layout.maxContext * layout.kvHeads * layout.headDim
    /\ 4 * (layout.linearLayers * (layout.convolution + layout.recurrent)
              + layout.fullLayers * layout.kv) <= WordMax

\* The spans of the blocks tile each vector: every float is one block's, none is
\* outside.  slot_span does no check of its own.
SpansTile ==
  phase = "state" /\ storage = "Full" =>
    \A a \in Arrays :
      /\ UNION {SpanOf(a, b) : b \in Owners(a)} = DOMAIN floats[a]
      /\ \A b, d \in Owners(a) : b # d => SpanOf(a, b) \cap SpanOf(a, d) = {}

\* What a block finds in its part of the state it wrote itself, whatever the other
\* blocks have written since and in whatever order.
BlocksKeepTheirState ==
  phase = "state" /\ storage = "Full" =>
    \A a \in Arrays : \A b \in Owners(a) : \A i \in SpanOf(a, b) : floats[a][i] \in {0, b}

\* Every full-attention block has as many keys as there are tokens, and no more than
\* the context holds; a block is asked for its length exactly if it has one.
LengthsFollowPosition ==
  phase = "state" =>
    /\ position <= layout.maxContext
    /\ \A b \in Owners("kv") : FullKvLength(b) = position

HostStateServes ==
  CreatedIsAccepted /\ SizesAreTrue /\ SpansTile /\ BlocksKeepTheirState /\ LengthsFollowPosition
=============================================================================
