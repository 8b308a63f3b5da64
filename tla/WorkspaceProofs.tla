--------------------------- MODULE WorkspaceProofs ---------------------------
(***************************************************************************)
(* The estimate is enough: for every configuration, context and policy the *)
(* executor takes its buffers out of the arena without running out of it,  *)
(* unless the convolution keeps no state.  The argument follows the two    *)
(* passes.  Wherever both sizes of a buffer exist they are equal, however  *)
(* their factors were grouped; the estimate rounds to 256 what allocation  *)
(* rounds to 4, 16 or 256; so allocation stays behind the estimate at      *)
(* every buffer, and the estimate never falls on its way to the capacity.  *)
(* What the session sized the arena by is that estimate, so the executor   *)
(* accepts it; and a buffer allocated of it holds every operand that a     *)
(* launch for a chunk within the context takes from it.                    *)
(*                                                                         *)
(* Decode graphs: whichever call of a capture fails, an owner has a whole  *)
(* graph or none, and the driver none but those; what is replayed is whole.*)
(***************************************************************************)
EXTENDS ExecutorWorkspace, GraphOwner, SequenceTheorems, TLAPS

Size == 0..NoSize

-----------------------------------------------------------------------------
(* Words *)

\* A product grows with a factor.
LEMMA ProductMonotone ==
  ASSUME NEW a \in Nat, NEW b \in Nat, NEW q \in Nat, b <= q
  PROVE  a * b <= a * q
<1>1. PICK d \in Nat : q = b + d
  BY SMT
<1>2. a * q = a * b + a * d
  BY <1>1, SMT
<1>3. a * b \in Nat /\ a * d \in Nat
  BY SMT
<1> QED
  BY <1>2, <1>3, SMT

LEMMA QuotientFits ==
  ASSUME NEW a \in Nat \ {0}, NEW w \in Nat
  PROVE  a * (w \div a) <= w /\ w \div a \in Nat
BY SMT

\* A checked product is the product or none.
LEMMA MulFacts ==
  ASSUME NEW a \in Size, NEW b \in Size
  PROVE  /\ Mul(a, b) \in Size
         /\ Mul(a, b) # NoSize => /\ a # NoSize /\ b # NoSize
                                  /\ Mul(a, b) = a * b /\ a * b <= WordMax
<1> USE WordAssumption DEF Size, NoSize
<1>1. CASE ~(a # NoSize /\ b # NoSize /\ (a = 0 \/ b <= WordMax \div a))
  BY <1>1 DEF Mul
<1>2. CASE a # NoSize /\ b # NoSize /\ a = 0
  <2>1. Mul(a, b) = 0 /\ a * b = 0
    BY <1>2, SMT DEF Mul
  <2> QED
    BY <2>1, <1>2
<1>3. CASE a # NoSize /\ b # NoSize /\ a # 0 /\ b <= WordMax \div a
  <2>1. a \in Nat \ {0} /\ b \in Nat
    BY <1>3
  <2>2. WordMax \div a \in Nat /\ a * (WordMax \div a) <= WordMax
    BY <2>1, QuotientFits
  <2>3. a * b <= a * (WordMax \div a)
    BY <2>1, <2>2, <1>3, ProductMonotone
  <2>4. a * b \in Nat /\ a * (WordMax \div a) \in Nat
    BY <2>1, <2>2, SMT
  <2>5. a * b <= WordMax
    BY <2>2, <2>3, <2>4
  <2>6. Mul(a, b) = a * b
    BY <1>3 DEF Mul
  <2> QED
    BY <2>4, <2>5, <2>6, <1>3
<1> QED
  BY <1>1, <1>2, <1>3

LEMMA AddFacts ==
  ASSUME NEW a \in Size, NEW b \in Size
  PROVE  /\ Add(a, b) \in Size
         /\ Add(a, b) # NoSize => /\ a # NoSize /\ b # NoSize
                                  /\ Add(a, b) = a + b /\ a + b <= WordMax
BY WordAssumption DEF Add, Size, NoSize

LEMMA UncheckedFacts ==
  ASSUME NEW a \in Size, NEW k \in {4, 8}
  PROVE  /\ Unchecked(a, k) \in Size
         /\ Unchecked(a, k) # NoSize => a # NoSize
         /\ a # NoSize /\ a * k <= WordMax => Unchecked(a, k) = a * k
<1> USE WordAssumption DEF Size, NoSize
<1>1. CASE a = NoSize
  BY <1>1 DEF Unchecked
<1>2. CASE a # NoSize
  <2>1. a * k \in Nat
    BY SMT
  <2>2. Unchecked(a, k) = (a * k) % (WordMax + 1)
    BY <1>2 DEF Unchecked
  <2>3. \A n \in Nat : n % (WordMax + 1) \in 0..WordMax
    BY SMT
  <2>4. \A n \in Nat : n <= WordMax => n % (WordMax + 1) = n
    BY SMT
  <2> QED
    BY <1>2, <2>1, <2>2, <2>3, <2>4
<1> QED
  BY <1>1, <1>2

\* Rounding up, to any of the alignments in use.
LEMMA RoundFacts ==
  ASSUME NEW n \in 0..WordMax, NEW k \in {4, 16, 256}
  PROVE  /\ RoundUp(n, k) \in Size
         /\ RoundUp(n, k) # NoSize =>
              n <= RoundUp(n, k) /\ RoundUp(n, k) % k = 0
<1> USE WordAssumption DEF Size, NoSize, RoundUp
<1>1. CASE k = 4
  BY <1>1, SMT
<1>2. CASE k = 16
  BY <1>2, SMT
<1>3. CASE k = 256
  BY <1>3, SMT
<1> QED
  BY <1>1, <1>2, <1>3

\* To a smaller alignment, less is left out.
LEMMA RoundMonotone ==
  ASSUME NEW m \in 0..WordMax, NEW n \in 0..WordMax, n <= m,
         NEW k \in {4, 16, 256}, RoundUp(m, 256) # NoSize
  PROVE  RoundUp(n, k) # NoSize /\ RoundUp(n, k) <= RoundUp(m, 256)
<1> USE WordAssumption DEF NoSize, RoundUp
<1>1. m <= WordMax - 255
  BY SMT
<1>2. CASE k = 4
  BY <1>1, <1>2, SMT
<1>3. CASE k = 16
  BY <1>1, <1>3, SMT
<1>4. CASE k = 256
  BY <1>1, <1>4, SMT
<1> QED
  BY <1>2, <1>3, <1>4

LEMMA SumFacts ==
  ASSUME NEW t \in Size, NEW v \in Size
  PROVE  /\ Sum(t, v) \in Size
         /\ Sum(t, v) # NoSize =>
              /\ t \in 0..WordMax /\ v \in 0..WordMax
              /\ RoundUp(t, 256) # NoSize /\ RoundUp(v, 256) # NoSize
              /\ Sum(t, v) = RoundUp(t, 256) + RoundUp(v, 256)
              /\ t <= Sum(t, v)
<1>1. CASE t = NoSize \/ v = NoSize
  BY <1>1, WordAssumption DEF Sum, Size, NoSize
<1>2. CASE t # NoSize /\ v # NoSize
  <2>1. t \in 0..WordMax /\ v \in 0..WordMax
    BY <1>2, WordAssumption DEF Size, NoSize
  <2>2. /\ RoundUp(t, 256) \in Size /\ RoundUp(v, 256) \in Size
        /\ RoundUp(t, 256) # NoSize => t <= RoundUp(t, 256)
    BY <2>1, RoundFacts
  <2>3. Sum(t, v) = Add(RoundUp(t, 256), RoundUp(v, 256))
    BY <1>2 DEF Sum, WorkspaceAlignment
  <2>4. /\ Sum(t, v) \in Size
        /\ Sum(t, v) # NoSize =>
             /\ RoundUp(t, 256) # NoSize /\ RoundUp(v, 256) # NoSize
             /\ Sum(t, v) = RoundUp(t, 256) + RoundUp(v, 256)
    BY <2>2, <2>3, AddFacts
  <2> QED
    BY <2>1, <2>2, <2>4, WordAssumption DEF Size, NoSize
<1> QED
  BY <1>1, <1>2

-----------------------------------------------------------------------------
(* Sizes *)

Positive == 1..NoSize

LEMMA MulPositive ==
  ASSUME NEW a \in Positive, NEW b \in Positive
  PROVE  Mul(a, b) \in Positive
<1>1. a \in Size /\ b \in Size
  BY WordAssumption DEF Positive, Size, NoSize
<1>2. CASE Mul(a, b) = NoSize
  BY <1>2, WordAssumption DEF Positive, NoSize
<1>3. CASE Mul(a, b) # NoSize
  <2>1. Mul(a, b) = a * b /\ Mul(a, b) \in Size
    BY <1>1, <1>3, MulFacts
  <2>2. a \in Nat \ {0} /\ b \in Nat \ {0}
    BY WordAssumption DEF Positive, NoSize
  <2>3. a * b \in Nat \ {0}
    BY <2>2, SMT
  <2> QED
    BY <2>1, <2>3, WordAssumption DEF Positive, Size, NoSize
<1> QED
  BY <1>2, <1>3

LEMMA AddPositive ==
  ASSUME NEW a \in Positive, NEW b \in Positive
  PROVE  Add(a, b) \in Positive
BY WordAssumption DEF Add, Positive, NoSize

LEMMA UncheckedSize ==
  ASSUME NEW a \in Positive, NEW k \in {4, 8}
  PROVE  Unchecked(a, k) \in Size
<1>1. a \in Size
  BY WordAssumption DEF Positive, Size, NoSize
<1> QED
  BY <1>1, UncheckedFacts

\* Constants of the code are words, and small.
LEMMA Literals ==
  /\ 2 \in Positive /\ 4 \in Positive /\ MatmulBudget \in Positive
  /\ 2 # NoSize /\ 4 # NoSize
  /\ Positive \subseteq Size /\ 0..WordMax \subseteq Size
  /\ 1..WordMax \subseteq Positive
BY WordAssumption, BudgetAssumption DEF Positive, Size, NoSize

LEMMA FieldFacts ==
  ASSUME NEW c \in Config
  PROVE  /\ c.vocabulary \in Positive /\ c.hidden \in Positive
         /\ c.intermediate \in Positive /\ c.maxContext \in Positive
         /\ c.heads \in Positive /\ c.kvHeads \in Positive
         /\ c.headDim \in Positive /\ c.keyHeads \in Positive
         /\ c.valueHeads \in Positive /\ c.linearDim \in Positive
         /\ c.convWidth \in 1..WordMax
         /\ MaxTokens(c) \in Positive
         /\ Larger(c.hidden, c.intermediate) \in Positive
         /\ c.blocks \in Seq({"full", "linear"})
         /\ c.weight \in {"f16", "bf16", "f32"}
<1>1. c \in Configuration
  BY ConfigAssumption
<1>2. \A f \in 1..WordMax : f \in Positive
  BY Literals
<1>3. /\ c.vocabulary \in 1..WordMax /\ c.hidden \in 1..WordMax
      /\ c.intermediate \in 1..WordMax /\ c.maxContext \in 1..WordMax
      /\ c.heads \in 1..WordMax /\ c.kvHeads \in 1..WordMax
      /\ c.headDim \in 1..WordMax /\ c.keyHeads \in 1..WordMax
      /\ c.valueHeads \in 1..WordMax /\ c.linearDim \in 1..WordMax
      /\ c.convWidth \in 1..WordMax
      /\ c.blocks \in Seq({"full", "linear"})
      /\ c.weight \in {"f16", "bf16", "f32"}
  BY <1>1 DEF Configuration
<1>4. MaxTokens(c) \in 1..WordMax
  BY <1>3, WordAssumption, PrefillAssumption DEF MaxTokens, Smaller
<1>5. Larger(c.hidden, c.intermediate) \in 1..WordMax
  BY <1>3 DEF Larger
<1> QED
  BY <1>2, <1>3, <1>4, <1>5

LEMMA WidthFacts ==
  ASSUME NEW c \in Config
  PROVE  /\ QkvWidth(c) \in Positive /\ GateWidth(c) \in Positive
         /\ PackWidth(c) \in Positive /\ QueryWidth(c) \in Positive
         /\ KvWidth(c) \in Positive
<1>1. /\ Mul(c.keyHeads, c.linearDim) \in Positive
      /\ Mul(c.valueHeads, c.linearDim) \in Positive
      /\ QueryWidth(c) \in Positive /\ KvWidth(c) \in Positive
  BY FieldFacts, MulPositive DEF QueryWidth, KvWidth
<1>2. QkvWidth(c) \in Positive /\ GateWidth(c) \in Positive
  BY <1>1, Literals, MulPositive, AddPositive DEF QkvWidth, GateWidth
<1>3. PackWidth(c) \in Positive
  BY <1>2, FieldFacts, AddPositive DEF PackWidth
<1> QED
  BY <1>1, <1>2, <1>3

LEMMA ActivationFacts ==
  ASSUME NEW c \in Config, NEW b \in Activations
  PROVE  ActivationWidth(c, b) \in Positive
<1>1. Mul(QueryWidth(c), 2) \in Positive
  BY WidthFacts, Literals, MulPositive
<1>2. /\ c.hidden \in Positive /\ c.intermediate \in Positive
      /\ c.valueHeads \in Positive
  BY FieldFacts
<1> QED
  BY <1>1, <1>2, WidthFacts DEF ActivationWidth, Activations

Shared == {"tokens", "result", "argmax", "decode_token", "decode_position",
           "decode_results", "matmul_workspace", "attention_workspace",
           "delta_workspace", "kv_cache", "recurrent"}

LEMMA ArgmaxFacts ==
  ASSUME NEW c \in Config
  PROVE  ArgmaxBytes(c) \in Positive
<1>1. c.vocabulary \in Nat \ {0}
  BY FieldFacts, WordAssumption DEF Positive, NoSize
<1>2. (c.vocabulary + 255) \div 256 \in Nat \ {0}
  BY <1>1, SMT
<1>3. Smaller(256, (c.vocabulary + 255) \div 256) \in 1..256
  BY <1>2 DEF Smaller
<1> QED
  BY <1>3, WordAssumption, SMT DEF ArgmaxBytes, Positive, NoSize

\* A workspace of the attention may be empty; no other buffer of these is.
LEMMA WorkspaceFacts ==
  ASSUME NEW c \in Config, NEW p \in Policy
  PROVE  AttentionWorkspace(c, p) \in Size
<1>1. CASE p.attention = "materialized"
  <2>1. Mul(Mul(Mul(MaxTokens(c), c.heads), c.maxContext), 4) \in Positive
    BY FieldFacts, Literals, MulPositive
  <2> QED
    BY <1>1, <2>1, Literals DEF AttentionWorkspace
<1>2. CASE p.attention # "materialized" /\ PartitionTokens(p.decode) = 0
  BY <1>2, Literals, WordAssumption DEF AttentionWorkspace, Size, NoSize
<1>3. CASE p.attention # "materialized" /\ PartitionTokens(p.decode) # 0
  <2> DEFINE n == PartitionTokens(p.decode)
             partials == Mul(c.heads, (c.maxContext + n - 1) \div n)
  <2>1. n \in {256, 512}
    BY <1>3 DEF PartitionTokens
  <2>2. c.maxContext \in 1..NoSize
    BY FieldFacts DEF Positive
  <2>3. (c.maxContext + n - 1) \div n \in 1..NoSize
    <3>1. CASE n = 256
      BY <3>1, <2>2, WordAssumption, SMT DEF NoSize
    <3>2. CASE n = 512
      BY <3>2, <2>2, WordAssumption, SMT DEF NoSize
    <3> QED
      BY <3>1, <3>2, <2>1
  <2>4. partials \in Positive
    BY <2>3, FieldFacts, MulPositive DEF Positive
  <2> HIDE DEF partials
  <2>5. /\ Mul(2, Mul(partials, 4)) \in Positive
        /\ Mul(Mul(partials, c.headDim), 4) \in Positive
    BY <2>4, FieldFacts, Literals, MulPositive
  <2>6. Add(Mul(2, Mul(partials, 4)), Mul(Mul(partials, c.headDim), 4)) \in Positive
    BY <2>5, AddPositive
  <2> QED
    BY <1>3, <2>6, Literals DEF AttentionWorkspace, partials
<1> QED
  BY <1>1, <1>2, <1>3

LEMMA SharedFacts ==
  ASSUME NEW c \in Config, NEW p \in Policy, NEW b \in Shared
  PROVE  /\ SharedBytes(c, p, b) \in Size
         /\ b # "attention_workspace" => SharedBytes(c, p, b) \in Positive
<1>1. Mul(c.maxContext, 4) \in Positive /\ MatmulBudget \in Positive
  BY FieldFacts, Literals, MulPositive
<1>2. ArgmaxBytes(c) \in Positive
  BY ArgmaxFacts
<1>3. DeltaWorkspace(c) \in Positive
  BY FieldFacts, WidthFacts, Literals, MulPositive, AddPositive DEF DeltaWorkspace
<1>4. CacheBytes(c, p) \in Positive
  BY FieldFacts, Literals, MulPositive DEF CacheBytes
<1>5. RecurrentBytes(c) \in Positive
  BY FieldFacts, Literals, MulPositive DEF RecurrentBytes
<1>6. SharedBytes(c, p, b) = AttentionWorkspace(c, p) \/ b # "attention_workspace"
  BY DEF SharedBytes
<1>7. b # "attention_workspace" => SharedBytes(c, p, b) \in Positive
  BY <1>1, <1>2, <1>3, <1>4, <1>5, Literals DEF SharedBytes, Shared
<1> QED
  BY <1>6, <1>7, WorkspaceFacts, Literals

LEMMA BufferKinds ==
  ASSUME NEW b \in Buffer
  PROVE  b \in Activations \cup Shared \cup {"logits", "matmul_input", "convolution"}
BY DEF Buffer, Shared

\* Every size is one, and empty only where it may be.
LEMMA AllocatedFacts ==
  ASSUME NEW c \in Config, NEW p \in Policy, NEW b \in Buffer
  PROVE  /\ Allocated(c, p, b) \in Size
         /\ b # "attention_workspace" /\ (c.convWidth > 1 \/ b # "convolution")
              => Allocated(c, p, b) \in Positive
<1>1. CASE b \in Activations
  <2>1. Mul(Mul(MaxTokens(c), ActivationWidth(c, b)), 4) \in Positive
    BY <1>1, ActivationFacts, FieldFacts, Literals, MulPositive
  <2> QED
    BY <1>1, <2>1, Literals DEF Allocated, Activations
<1>2. CASE b = "logits"
  <2>1. Mul(c.vocabulary, 4) \in Positive
    BY FieldFacts, Literals, MulPositive
  <2> QED
    BY <1>2, <2>1, Literals DEF Allocated, Activations
<1>3. CASE b = "matmul_input"
  <2>1. WeightBytes(c) \in Positive
    BY Literals DEF WeightBytes
  <2>2. Mul(Mul(MaxTokens(c), Larger(c.hidden, c.intermediate)), WeightBytes(c))
          \in Positive
    BY <2>1, FieldFacts, MulPositive
  <2> QED
    BY <1>3, <2>2, Literals DEF Allocated, Activations
<1>4. CASE b = "convolution"
  <2>1. Allocated(c, p, b) = Mul(Mul(c.convWidth - 1, QkvWidth(c)), 4)
    BY <1>4 DEF Allocated, Activations
  <2>2. c.convWidth - 1 \in Size /\ (c.convWidth > 1 => c.convWidth - 1 \in Positive)
    BY FieldFacts, WordAssumption DEF Size, Positive, NoSize
  <2>3. Allocated(c, p, b) \in Size
    BY <2>1, <2>2, WidthFacts, Literals, MulFacts
  <2>4. c.convWidth > 1 => Allocated(c, p, b) \in Positive
    BY <2>1, <2>2, WidthFacts, Literals, MulPositive
  <2> QED
    BY <1>4, <2>3, <2>4
<1>5. CASE b \in Shared
  <2>1. Allocated(c, p, b) = SharedBytes(c, p, b)
    BY <1>5 DEF Allocated, Activations, Shared
  <2> QED
    BY <1>5, <2>1, SharedFacts DEF Shared
<1> QED
  BY <1>1, <1>2, <1>3, <1>4, <1>5, BufferKinds

LEMMA EstimatedFacts ==
  ASSUME NEW c \in Config, NEW p \in Policy, NEW b \in Buffer
  PROVE  Estimated(c, p, b) \in Size
<1>1. CASE b \in Activations
  <2>1. /\ Unchecked(QueryWidth(c), 8) \in Size
        /\ Unchecked(ActivationWidth(c, b), 4) \in Size
    BY <1>1, WidthFacts, ActivationFacts, UncheckedSize
  <2>2. EstimatedActivation(c, b) \in Size
    BY <2>1, FieldFacts, Literals, MulFacts DEF EstimatedActivation
  <2> QED
    BY <1>1, <2>2 DEF Estimated, Activations
<1>2. CASE b = "logits"
  BY <1>2, FieldFacts, UncheckedSize DEF Estimated, Activations
<1>3. CASE b = "matmul_input"
  <2>1. Mul(Mul(MaxTokens(c), Larger(c.hidden, c.intermediate)), 2) \in Positive
    BY FieldFacts, Literals, MulPositive
  <2> QED
    BY <1>3, <2>1, Literals DEF Estimated, Activations
<1>4. CASE b = "convolution"
  <2>1. c.convWidth - 1 \in Size
    BY FieldFacts, WordAssumption DEF Size, NoSize
  <2>2. Mul(c.convWidth - 1, Unchecked(QkvWidth(c), 4)) \in Size
    BY <2>1, WidthFacts, UncheckedSize, MulFacts
  <2> QED
    BY <1>4, <2>2 DEF Estimated, Activations
<1>5. CASE b \in Shared
  <2>1. Estimated(c, p, b) = SharedBytes(c, p, b)
    BY <1>5 DEF Estimated, Activations, Shared
  <2> QED
    BY <1>5, <2>1, SharedFacts
<1> QED
  BY <1>1, <1>2, <1>3, <1>4, <1>5, BufferKinds

-----------------------------------------------------------------------------
(* One buffer in both lists *)

\* However its factors are grouped, and though one product of the estimate may
\* wrap: where the allocation has a size, the estimate has the same.
LEMMA SameProduct ==
  ASSUME NEW t \in Positive, NEW w \in Positive, NEW k \in {4, 8},
         NEW est, est = Mul(t, Unchecked(w, k)), est # NoSize,
         w # NoSize, t # NoSize, t * w * k <= WordMax
  PROVE  est = t * w * k
<1>1. t \in Nat \ {0} /\ w \in Nat /\ t \in Size /\ w \in Size
  BY WordAssumption DEF Positive, Size, NoSize
<1>2. w * k \in Nat /\ t * w * k = t * (w * k)
  <2>1. CASE k = 4
    BY <1>1, <2>1, SMT
  <2>2. CASE k = 8
    BY <1>1, <2>2, SMT
  <2> QED
    BY <2>1, <2>2
<1>3. w * k <= t * (w * k)
  <2>1. \A x \in Nat : x <= t * x
    BY <1>1, SMT
  <2> QED
    BY <1>2, <2>1
<1>4. t * (w * k) \in Nat
  BY <1>1, <1>2, SMT
<1>5. w * k <= WordMax
  BY <1>2, <1>3, <1>4, WordAssumption
<1>6. Unchecked(w, k) = w * k
  BY <1>1, <1>5, UncheckedFacts
<1>7. w * k \in Size
  BY <1>2, <1>5, WordAssumption DEF Size, NoSize
<1>8. est = t * (w * k)
  BY <1>1, <1>6, <1>7, MulFacts
<1> QED
  BY <1>2, <1>8

LEMMA SameSize ==
  ASSUME NEW c \in Config, NEW p \in Policy, NEW b \in Buffer, c.weight # "f32",
         Allocated(c, p, b) # NoSize, Estimated(c, p, b) # NoSize
  PROVE  Allocated(c, p, b) = Estimated(c, p, b)
<1>1. CASE b \in Activations
  <2> DEFINE t == MaxTokens(c)
             w == ActivationWidth(c, b)
  <2>1. t \in Positive /\ w \in Positive /\ t \in Size /\ w \in Size
    BY <1>1, FieldFacts, ActivationFacts, Literals
  <2>2. Allocated(c, p, b) = Mul(Mul(t, w), 4)
    BY <1>1 DEF Allocated, Activations
  <2>3. Estimated(c, p, b) = EstimatedActivation(c, b)
    BY <1>1 DEF Estimated, Activations
  <2>4. Mul(t, w) \in Size /\ 4 \in Size
    BY <2>1, Literals, MulFacts
  <2>5. /\ Mul(t, w) # NoSize
        /\ Allocated(c, p, b) = Mul(t, w) * 4 /\ Mul(t, w) * 4 <= WordMax
    BY <2>2, <2>4, MulFacts
  <2>6. t # NoSize /\ w # NoSize /\ Mul(t, w) = t * w
    BY <2>1, <2>5, MulFacts
  <2>7. Allocated(c, p, b) = t * w * 4 /\ t * w * 4 <= WordMax
    BY <2>5, <2>6
  <2> HIDE DEF t
  <2>8. CASE b # "full_query_gate"
    <3> HIDE DEF w
    <3>1. Estimated(c, p, b) = Mul(t, Unchecked(w, 4))
      BY <2>3, <2>8 DEF EstimatedActivation, t, w
    <3> QED
      BY <2>1, <2>6, <2>7, <3>1, SameProduct
  <2>9. CASE b = "full_query_gate"
    <3> DEFINE q == QueryWidth(c)
    <3>1. w = Mul(q, 2)
      BY <2>9 DEF ActivationWidth
    <3>2. q \in Positive /\ q \in Size /\ 2 \in Size
      BY WidthFacts, Literals
    <3>3. Estimated(c, p, b) = Mul(t, Unchecked(q, 8))
      BY <2>3, <2>9 DEF EstimatedActivation, t
    <3> HIDE DEF q, w
    <3>4. q # NoSize /\ w = q * 2
      BY <2>6, <3>1, <3>2, MulFacts
    <3>5. t \in Nat /\ q \in Nat
      BY <2>1, <3>2, WordAssumption DEF Size, NoSize
    <3>6. t * w * 4 = t * q * 8
      BY <3>4, <3>5, SMT
    <3>7. Estimated(c, p, b) = t * q * 8
      BY <2>1, <2>6, <2>7, <3>2, <3>3, <3>4, <3>6, SameProduct
    <3> QED
      BY <2>7, <3>6, <3>7
  <2> QED
    BY <2>8, <2>9
<1>2. CASE b = "logits"
  <2>1. /\ Allocated(c, p, b) = Mul(c.vocabulary, 4)
        /\ Estimated(c, p, b) = Unchecked(c.vocabulary, 4)
    BY <1>2 DEF Allocated, Estimated, Activations
  <2>2. c.vocabulary \in Size /\ 4 \in Size
    BY FieldFacts, Literals
  <2>3. /\ c.vocabulary # NoSize /\ c.vocabulary * 4 <= WordMax
        /\ Allocated(c, p, b) = c.vocabulary * 4
    BY <2>1, <2>2, MulFacts
  <2> QED
    BY <2>1, <2>2, <2>3, UncheckedFacts
<1>3. CASE b = "matmul_input"
  BY <1>3, FieldFacts DEF Allocated, Estimated, WeightBytes, Activations
<1>4. CASE b = "convolution"
  <2> DEFINE n == c.convWidth - 1
             q == QkvWidth(c)
  <2>1. /\ Allocated(c, p, b) = Mul(Mul(n, q), 4)
        /\ Estimated(c, p, b) = Mul(n, Unchecked(q, 4))
    BY <1>4 DEF Allocated, Estimated, Activations
  <2>2. n \in 0..WordMax /\ q \in Positive
    BY FieldFacts, WidthFacts, WordAssumption
  <2> HIDE DEF n, q
  <2>3. n \in Size /\ q \in Size /\ 4 \in Size
    BY <2>2, Literals
  <2>4. Mul(n, q) \in Size
    BY <2>3, MulFacts
  <2>5. /\ Mul(n, q) # NoSize
        /\ Allocated(c, p, b) = Mul(n, q) * 4 /\ Mul(n, q) * 4 <= WordMax
    BY <2>1, <2>3, <2>4, MulFacts
  <2>6. n # NoSize /\ q # NoSize /\ Mul(n, q) = n * q
    BY <2>3, <2>5, MulFacts
  <2>7. CASE n = 0
    <3>1. Unchecked(q, 4) \in Size
      BY <2>2, UncheckedSize
    <3>2. Estimated(c, p, b) = 0 * Unchecked(q, 4)
      BY <2>1, <2>3, <2>7, <3>1, MulFacts
    <3>3. q \in Nat /\ Unchecked(q, 4) \in Nat
      BY <2>3, <3>1, WordAssumption DEF Size, NoSize
    <3> QED
      BY <2>5, <2>6, <2>7, <3>2, <3>3, SMT
  <2>8. CASE n # 0
    <3>1. n \in Positive
      BY <2>2, <2>8, WordAssumption DEF Positive, NoSize
    <3> QED
      BY <2>1, <2>2, <2>5, <2>6, <3>1, SameProduct
  <2> QED
    BY <2>7, <2>8
<1>5. CASE b \in Shared
  BY <1>5 DEF Allocated, Estimated, Activations, Shared
<1> QED
  BY <1>1, <1>2, <1>3, <1>4, <1>5, BufferKinds

\* A buffer that fits behind the estimate fits behind it again once both have
\* taken it in.
LEMMA StepBehind ==
  ASSUME NEW c \in Config, NEW p \in Policy, NEW b \in Buffer, c.weight # "f32",
         NEW m \in 0..WordMax, NEW u \in 0..WordMax, u <= m,
         NEW n, n = Allocated(c, p, b), n # NoSize, n \in Positive,
         NEW next, next = Sum(m, Estimated(c, p, b)), next # NoSize
  PROVE  /\ RoundUp(u, AlignmentOf(b)) # NoSize
         /\ RoundUp(n, AlignmentOf(b)) # NoSize
         /\ RoundUp(u, AlignmentOf(b)) + RoundUp(n, AlignmentOf(b)) <= next
<1>1. AlignmentOf(b) \in {4, 16, 256}
  BY DEF AlignmentOf, WorkspaceAlignment
<1>2. Estimated(c, p, b) \in Size /\ m \in Size
  BY EstimatedFacts, Literals
<1>3. /\ Estimated(c, p, b) # NoSize /\ Estimated(c, p, b) \in 0..WordMax
      /\ RoundUp(m, 256) # NoSize /\ RoundUp(Estimated(c, p, b), 256) # NoSize
      /\ next = RoundUp(m, 256) + RoundUp(Estimated(c, p, b), 256)
  <2> DEFINE e == Estimated(c, p, b)
  <2>1. e \in Size /\ Sum(m, e) # NoSize
    BY <1>2
  <2> HIDE DEF e
  <2>2. /\ e \in 0..WordMax /\ RoundUp(m, 256) # NoSize /\ RoundUp(e, 256) # NoSize
        /\ Sum(m, e) = RoundUp(m, 256) + RoundUp(e, 256)
    BY <1>2, <2>1, SumFacts
  <2>3. e # NoSize
    BY <2>2, WordAssumption DEF NoSize
  <2> QED
    BY <2>2, <2>3 DEF e
<1>4. n = Estimated(c, p, b)
  BY <1>3, SameSize
<1>5. /\ RoundUp(u, AlignmentOf(b)) # NoSize
      /\ RoundUp(u, AlignmentOf(b)) <= RoundUp(m, 256)
  BY <1>1, <1>3, RoundMonotone
<1>6. /\ RoundUp(n, AlignmentOf(b)) # NoSize
      /\ RoundUp(n, AlignmentOf(b)) <= RoundUp(n, 256)
  BY <1>1, <1>3, <1>4, RoundMonotone
<1>7. /\ RoundUp(u, AlignmentOf(b)) \in Size /\ RoundUp(n, AlignmentOf(b)) \in Size
      /\ RoundUp(m, 256) \in Size /\ RoundUp(n, 256) \in Size
  BY <1>1, <1>3, <1>4, RoundFacts
<1> QED
  BY <1>3, <1>4, <1>5, <1>6, <1>7, WordAssumption DEF Size, NoSize

-----------------------------------------------------------------------------
(* The policy and the steps *)

\* Resolving once more changes nothing.
LEMMA ResolveTwice ==
  ASSUME NEW c \in Config, NEW p \in Policy
  PROVE  Resolve(c, p) \in Policy /\ Resolve(c, Resolve(c, p)) = Resolve(c, p)
<1>1. CASE p.attention = "online" /\ OnlineSupported(c, p)
  <2> DEFINE mode == DecodeMode(c, p)
             q == [p EXCEPT !.decode = mode]
  <2>1. c.maxContext \in Nat
    BY FieldFacts, WordAssumption DEF Positive, NoSize
  <2>2. mode \in {"single_block", "split_k_256", "split_k_512"}
    BY DEF DecodeMode, Policy
  <2>3. mode # "single_block" => c.maxContext >= PartitionTokens(mode)
    BY <2>1 DEF DecodeMode, PartitionTokens
  <2> HIDE DEF mode
  <2>4. /\ q \in Policy /\ q.decode = mode
        /\ q.attention = p.attention /\ q.cache = p.cache
    BY <2>2 DEF Policy
  <2>5. Resolve(c, p) = q
    BY <1>1 DEF Resolve, mode
  <2>6. OnlineSupported(c, q)
    BY <1>1, <2>4 DEF OnlineSupported, CacheBytes
  <2>7. DecodeMode(c, q) = mode
    BY <2>1, <2>2, <2>3, <2>4 DEF DecodeMode, PartitionTokens
  <2>8. [q EXCEPT !.decode = mode] = q
    BY <2>4 DEF Policy
  <2> HIDE DEF q
  <2>9. Resolve(c, q) = q
    BY <1>1, <2>4, <2>6, <2>7, <2>8 DEF Resolve
  <2> QED
    BY <2>4, <2>5, <2>9
<1>2. CASE ~(p.attention = "online" /\ OnlineSupported(c, p))
  BY <1>2 DEF Resolve, Policy
<1> QED
  BY <1>1, <1>2

LEMMA StepFacts ==
  ASSUME NEW c \in Config
  PROVE  /\ Steps(c) \in Nat /\ Steps(c) >= 28
         /\ \A i \in 1..Steps(c) :
              \/ \E b \in Buffer : BuffersOf(c, i) = <<b>>
              \/ BuffersOf(c, i) = <<"convolution", "recurrent">>
<1>1. c.blocks \in Seq({"full", "linear"})
  BY FieldFacts
<1>2. Steps(c) \in Nat /\ Steps(c) >= 28
  BY <1>1 DEF Steps
<1>3. ASSUME NEW i \in 1..Steps(c)
      PROVE  \/ \E b \in Buffer : BuffersOf(c, i) = <<b>>
             \/ BuffersOf(c, i) = <<"convolution", "recurrent">>
  <2>1. CASE i <= 28
    <3>1. i \in 1..28
      BY <1>2, <2>1
    <3>2. \A k \in 1..28 : FixedBuffers[k] \in Buffer
      BY SMT DEF FixedBuffers, Buffer, Activations
    <3> QED
      BY <2>1, <3>1, <3>2 DEF BuffersOf
  <2>2. CASE ~(i <= 28)
    BY <2>2 DEF BuffersOf, Buffer
  <2> QED
    BY <2>1, <2>2
<1> QED
  BY <1>2, <1>3

\* What a step adds, and that it does not lower the estimate.
LEMMA AfterFacts ==
  ASSUME NEW c \in Config, NEW p \in Policy, NEW i \in 1..Steps(c),
         NEW m \in 0..WordMax
  PROVE  /\ After(c, p, i, m) \in Size
         /\ After(c, p, i, m) # NoSize => m <= After(c, p, i, m)
         /\ \A b \in Buffer : BuffersOf(c, i) = <<b>> =>
              After(c, p, i, m) = Sum(m, Estimated(c, p, b))
         /\ BuffersOf(c, i) = <<"convolution", "recurrent">> =>
              /\ After(c, p, i, m) =
                   Sum(Sum(m, Estimated(c, p, "convolution")),
                       Estimated(c, p, "recurrent"))
              /\ After(c, p, i, m) # NoSize =>
                   /\ Sum(m, Estimated(c, p, "convolution")) \in 0..WordMax
                   /\ Sum(m, Estimated(c, p, "convolution")) <= After(c, p, i, m)
<1>0. m \in Size /\ NoSize \notin 0..WordMax
  BY Literals, WordAssumption DEF NoSize
<1>1. ASSUME NEW b \in Buffer, BuffersOf(c, i) = <<b>>
      PROVE  /\ After(c, p, i, m) = Sum(m, Estimated(c, p, b))
             /\ After(c, p, i, m) \in Size
             /\ After(c, p, i, m) # NoSize => m <= After(c, p, i, m)
  <2>1. After(c, p, i, m) = Sum(m, Estimated(c, p, b))
    BY <1>1 DEF After
  <2> DEFINE e == Estimated(c, p, b)
  <2>2. e \in Size
    BY EstimatedFacts
  <2> HIDE DEF e
  <2>3. Sum(m, e) \in Size /\ (Sum(m, e) # NoSize => m <= Sum(m, e))
    BY <1>0, <2>2, SumFacts
  <2> QED
    BY <2>1, <2>3 DEF e
<1>2. ASSUME BuffersOf(c, i) = <<"convolution", "recurrent">>
      PROVE  LET one == Sum(m, Estimated(c, p, "convolution")) IN
             /\ After(c, p, i, m) = Sum(one, Estimated(c, p, "recurrent"))
             /\ After(c, p, i, m) \in Size
             /\ After(c, p, i, m) # NoSize =>
                  /\ one \in 0..WordMax /\ one <= After(c, p, i, m)
                  /\ m <= After(c, p, i, m)
  <2> DEFINE one == Sum(m, Estimated(c, p, "convolution"))
             two == Sum(one, Estimated(c, p, "recurrent"))
  <2>1. After(c, p, i, m) = two
    BY <1>2 DEF After
  <2>2. /\ Estimated(c, p, "convolution") \in Size
        /\ Estimated(c, p, "recurrent") \in Size
    BY EstimatedFacts DEF Buffer
  <2>3. one \in Size /\ (one # NoSize => m <= one)
    <3> DEFINE e == Estimated(c, p, "convolution")
    <3>1. e \in Size
      BY <2>2
    <3> HIDE DEF e
    <3>2. Sum(m, e) \in Size /\ (Sum(m, e) # NoSize => m <= Sum(m, e))
      BY ONLY <1>0, <3>1, SumFacts
    <3> QED
      BY <3>2 DEF e
  <2> HIDE DEF one
  <2>4. two \in Size /\ (two # NoSize => one \in 0..WordMax /\ one <= two)
    BY <2>2, <2>3, SumFacts
  <2> HIDE DEF two
  <2>5. two # NoSize => m <= two
    BY <1>0, <2>3, <2>4, WordAssumption DEF Size, NoSize
  <2> QED
    BY <2>1, <2>4, <2>5 DEF one, two
<1> QED
  BY <1>1, <1>2, StepFacts

-----------------------------------------------------------------------------
(* The invariant *)

\* What the proofs of the steps use of the state.
LEMMA StateFacts ==
  ASSUME TypeOK
  PROVE  /\ config \in Config /\ EstimatePolicy \in Policy
         /\ Len(marks) \in Nat
         /\ \A i \in 1..Len(marks) : marks[i] \in 0..WordMax
         /\ \A i \in 0..Len(marks) : Mark(i) \in 0..WordMax
<1>0. marks \in Seq(0..WordMax)
  BY DEF TypeOK
<1>1. \A i \in 1..Len(marks) : marks[i] \in 0..WordMax
  BY <1>0, ElementOfSeq
<1>2. \A i \in 0..Len(marks) : Mark(i) \in 0..WordMax
  BY <1>1, WordAssumption DEF Mark, TypeOK
<1> QED
  BY <1>1, <1>2, ResolveTwice DEF TypeOK, EstimatePolicy

LEMMA InitHolds == Init => WorkspaceInv
<1> SUFFICES ASSUME Init PROVE WorkspaceInv
  OBVIOUS
<1>1. config \in Config /\ Steps(config) \in Nat
  BY StepFacts DEF Init
<1>2. TypeOK
  BY <1>1, WordAssumption DEF Init, TypeOK, Phases
<1>3. Checked /\ NothingTaken /\ MarksChain /\ QueueOK /\ RoomLeft
  BY DEF Init, Checked, NothingTaken, MarksChain, QueueOK, RoomLeft
<1> QED
  BY <1>2, <1>3 DEF WorkspaceInv

LEMMA BeginStep == WorkspaceInv /\ Begin => WorkspaceInv'
<1> SUFFICES ASSUME WorkspaceInv, Begin PROVE WorkspaceInv'
  OBVIOUS
<1>1. Steps(config) \in Nat
  BY StepFacts DEF WorkspaceInv, TypeOK
<1>2. TypeOK'
  BY <1>1 DEF WorkspaceInv, TypeOK, Begin, Goto, Phases, Steps
<1>3. Checked' /\ NothingTaken'
  BY DEF WorkspaceInv, Checked, NothingTaken, Begin, Goto
<1>4. MarksChain'
  BY DEF MarksChain, Begin, Goto
<1>5. QueueOK' /\ RoomLeft'
  BY DEF QueueOK, RoomLeft, Begin, Goto
<1> QED
  BY <1>2, <1>3, <1>4, <1>5 DEF WorkspaceInv

LEMMA EstimateStep == WorkspaceInv /\ Estimate => WorkspaceInv'
<1> SUFFICES ASSUME WorkspaceInv, Estimate PROVE WorkspaceInv'
  OBVIOUS
<1> DEFINE n == Len(marks)
           total == After(config, EstimatePolicy, n + 1, Mark(n))
<1>1. Steps(config) \in Nat /\ n \in Nat /\ n < Steps(config)
  BY StepFacts DEF WorkspaceInv, TypeOK, Estimate
<1>2. /\ n + 1 \in 1..Steps(config) /\ Mark(n) \in 0..WordMax
      /\ config \in Config /\ EstimatePolicy \in Policy
  BY <1>1, StateFacts DEF WorkspaceInv
<1>3. total \in Size /\ (total # NoSize => Mark(n) <= total)
  BY <1>2, AfterFacts
<1>4. /\ Len(marks) < Steps(config) /\ phase = "estimate"
      /\ \/ total = NoSize /\ phase' = "refused" /\ marks' = marks
         \/ total # NoSize /\ marks' = Append(marks, total) /\ phase' = phase
  BY DEF Estimate, Goto
<1>5. EstimatePolicy' = EstimatePolicy
  BY DEF EstimatePolicy, Estimate
<1>6. UNCHANGED <<config, requested, policy, asker, capacity, used, done, queue, placed>>
  BY DEF Estimate
<1> HIDE DEF total
<1>7. total # NoSize => total \in 0..WordMax
  BY <1>3, WordAssumption DEF Size, NoSize
<1>8. TypeOK'
  <2>0. marks \in Seq(0..WordMax)
    BY DEF WorkspaceInv, TypeOK
  <2>3. ASSUME total # NoSize
        PROVE  /\ Append(marks, total) \in Seq(0..WordMax)
               /\ Len(Append(marks, total)) = n + 1
    BY <1>7, <2>3, <2>0, AppendProperties
  <2>1. marks' \in Seq(0..WordMax) /\ Len(marks') <= Steps(config)
    <3>1. CASE total = NoSize
      BY <1>1, <1>4, <2>0, <3>1
    <3>2. CASE total # NoSize
      <4>1. marks' = Append(marks, total)
        BY <1>4, <3>2
      <4>2. marks' \in Seq(0..WordMax) /\ Len(marks') = n + 1
        BY <2>3, <3>2, <4>1
      <4> QED
        BY <1>1, <4>2
    <3> QED
      BY <3>1, <3>2
  <2> QED
    BY <1>4, <1>6, <2>1 DEF WorkspaceInv, TypeOK, Phases, Steps
<1>9. Checked' /\ NothingTaken'
  BY <1>4, <1>6 DEF WorkspaceInv, Checked, NothingTaken
<1>10. MarksChain'
  <2>1. CASE total = NoSize
    BY <1>4, <2>1 DEF MarksChain
  <2>2. CASE total # NoSize
    <3>1. /\ marks' = Append(marks, total) /\ phase' = "estimate"
          /\ Len(marks') = n + 1 /\ marks'[n + 1] = total
          /\ \A i \in 1..n : marks'[i] = marks[i]
      <4>1. marks \in Seq(0..WordMax)
        BY DEF WorkspaceInv, TypeOK
      <4> QED
        BY <1>1, <1>4, <1>7, <2>2, <4>1
    <3>2. \A i \in 0..n : Mark(i)' = Mark(i)
      BY <3>1, <1>1 DEF Mark
    <3>3. ASSUME NEW i \in 1..(n + 1)
          PROVE  marks'[i] = After(config, EstimatePolicy, i, Mark(i - 1)')
      <4>1. CASE i = n + 1
        BY <1>1, <3>1, <3>2, <4>1 DEF total
      <4>2. CASE i # n + 1
        <5>1. i \in 1..n /\ i - 1 \in 0..n
          BY <1>1, <4>2
        <5>2. marks[i] = After(config, EstimatePolicy, i, Mark(i - 1))
          BY <5>1, <1>4 DEF WorkspaceInv, MarksChain
        <5> QED
          BY <3>1, <3>2, <5>1, <5>2
      <4> QED
        BY <4>1, <4>2
    <3>4. ASSUME NEW i \in 1..n PROVE marks[i] <= total
      <4>1. n \in 1..n /\ i <= n /\ Mark(n) = marks[n]
        BY <1>1 DEF Mark
      <4>2. marks[i] <= marks[n]
        BY <4>1, <1>4 DEF WorkspaceInv, MarksChain
      <4>3. marks[i] \in 0..WordMax /\ marks[n] \in 0..WordMax
        BY <4>1, StateFacts DEF WorkspaceInv
      <4> QED
        BY <1>3, <1>7, <2>2, <4>1, <4>2, <4>3, WordAssumption
    <3>5. ASSUME NEW i \in 1..(n + 1), NEW j \in 1..(n + 1), i <= j
          PROVE  marks'[i] <= marks'[j]
      <4>1. CASE i = n + 1
        BY <1>1, <1>7, <2>2, <3>1, <3>5, <4>1, WordAssumption
      <4>2. CASE i # n + 1 /\ j = n + 1
        <5>1. i \in 1..n
          BY <1>1, <4>2
        <5> QED
          BY <3>1, <3>4, <4>2, <5>1
      <4>3. CASE i # n + 1 /\ j # n + 1
        <5>1. i \in 1..n /\ j \in 1..n
          BY <1>1, <4>3
        <5>2. marks[i] <= marks[j]
          BY <5>1, <1>4, <3>5 DEF WorkspaceInv, MarksChain
        <5> QED
          BY <3>1, <5>1, <5>2
      <4> QED
        BY <4>1, <4>2, <4>3
    <3>6. MarksChain' = (phase' \in {"estimate", "allocate"} =>
            /\ \A i \in 1..Len(marks') :
                 marks'[i] = After(config', EstimatePolicy', i, Mark(i - 1)')
            /\ \A i, j \in 1..Len(marks') : i <= j => marks'[i] <= marks'[j]
            /\ phase' = "allocate" =>
                 /\ Len(marks') = Steps(config')
                 /\ marks'[Steps(config')] <= capacity')
      BY DEF MarksChain
    <3> QED
      BY <1>5, <1>6, <3>1, <3>3, <3>5, <3>6
  <2> QED
    BY <2>1, <2>2
<1>11. QueueOK' /\ RoomLeft'
  BY <1>4 DEF QueueOK, RoomLeft
<1> QED
  BY <1>8, <1>9, <1>10, <1>11 DEF WorkspaceInv

LEMMA TotalFacts ==
  ASSUME TypeOK, Len(marks) = Steps(config)
  PROVE  /\ marks[Steps(config)] \in 0..WordMax
         /\ Total \in Size
         /\ Total # NoSize => marks[Steps(config)] <= Total
<1>1. marks[Steps(config)] \in 0..WordMax
  BY StepFacts, StateFacts DEF TypeOK
<1> QED
  BY <1>1, RoundFacts DEF Total, WorkspaceAlignment

LEMMA MakeArenaStep == WorkspaceInv /\ MakeArena => WorkspaceInv'
<1> SUFFICES ASSUME WorkspaceInv, MakeArena PROVE WorkspaceInv'
  OBVIOUS
<1>1. /\ phase' \in {"refused", "resolve"} /\ asker' = "executor"
      /\ policy' \in Policy /\ capacity' \in 0..WordMax /\ used \in 0..capacity'
  <2>1. used = 0 /\ TypeOK /\ Len(marks) = Steps(config)
    BY DEF WorkspaceInv, NothingTaken, MakeArena, AllAdded
  <2>2. Total \in Size
    BY <2>1, TotalFacts
  <2>3. Total # NoSize => Larger(Total, 1) \in 1..WordMax
    BY <2>2, WordAssumption DEF Larger, Size, NoSize
  <2>4. Resolve(config, requested) \in Policy
    BY ResolveTwice DEF WorkspaceInv, TypeOK
  <2> QED
    BY <2>1, <2>3, <2>4, WordAssumption DEF WorkspaceInv, TypeOK, MakeArena, Goto
<1>2. TypeOK'
  BY <1>1 DEF WorkspaceInv, TypeOK, MakeArena, Phases, Steps
<1>3. Checked' /\ NothingTaken'
  BY <1>1 DEF WorkspaceInv, Checked, NothingTaken, MakeArena, AllAdded, Goto
<1>4. MarksChain' /\ QueueOK' /\ RoomLeft'
  BY <1>1 DEF MarksChain, QueueOK, RoomLeft
<1> QED
  BY <1>2, <1>3, <1>4 DEF WorkspaceInv

LEMMA CheckArenaStep == WorkspaceInv /\ CheckArena => WorkspaceInv'
<1> SUFFICES ASSUME WorkspaceInv, CheckArena PROVE WorkspaceInv'
  OBVIOUS
<1>1. /\ phase = "estimate" /\ Len(marks) = Steps(config) /\ asker = "executor"
      /\ used = 0 /\ done = 0 /\ queue = <<>> /\ placed = <<>>
      /\ phase' \in {"refused", "allocate", "exhausted"}
      /\ phase' = "allocate" => Total # NoSize /\ capacity >= Total
  BY DEF WorkspaceInv, NothingTaken, CheckArena, AllAdded, Goto
<1>2. TypeOK'
  BY <1>1 DEF WorkspaceInv, TypeOK, CheckArena, Phases, Steps
<1>3. Checked' /\ NothingTaken'
  BY <1>1 DEF WorkspaceInv, Checked, NothingTaken, CheckArena
<1>4. MarksChain'
  <2>1. Total # NoSize /\ capacity >= Total => marks[Steps(config)] <= capacity
    BY <1>1, TotalFacts, WordAssumption DEF WorkspaceInv, TypeOK, Size, NoSize
  <2> QED
    BY <1>1, <2>1 DEF WorkspaceInv, MarksChain, CheckArena, EstimatePolicy, Mark, Steps
<1>5. QueueOK' /\ RoomLeft'
  BY <1>1, WordAssumption DEF QueueOK, RoomLeft, Reached, Mark, CheckArena
<1> QED
  BY <1>2, <1>3, <1>4, <1>5 DEF WorkspaceInv

LEMMA ShortQueues ==
  /\ \A b \in Buffer : <<b>> \in Seq(Buffer)
  /\ <<"convolution", "recurrent">> \in Seq(Buffer)
  /\ <<"recurrent">> \in Seq(Buffer) /\ <<>> \in Seq(Buffer)
<1>1. \A x, y \in Buffer :
        <<x>> \in Seq(Buffer) /\ <<x, y>> \in Seq(Buffer) /\ <<>> \in Seq(Buffer)
  OBVIOUS
<1>2. "convolution" \in Buffer /\ "recurrent" \in Buffer
  BY DEF Buffer
<1> QED
  BY <1>1, <1>2

\* The buffer at the head of the queue, the mark before it and the one after.
LEMMA HeadFacts ==
  ASSUME WorkspaceInv, phase = "allocate", queue # <<>>
  PROVE  /\ Head(queue) \in Buffer /\ done \in 1..Steps(config)
         /\ Tail(queue) \in Seq(Buffer) /\ EstimatePolicy = policy
         /\ LET after == Sum(Reached, Estimated(config, policy, Head(queue)))
            IN /\ Reached \in 0..WordMax /\ after \in 0..capacity
               /\ \/ Tail(queue) = <<>> /\ after = Mark(done)
                  \/ /\ Tail(queue) = <<"recurrent">>
                     /\ BuffersOf(config, done) = <<"convolution", "recurrent">>
                     /\ after = Sum(Mark(done - 1),
                                    Estimated(config, policy, "convolution"))
<1> DEFINE m == Mark(done - 1)
           after == Sum(Reached, Estimated(config, policy, Head(queue)))
<1>1. /\ config \in Config /\ policy \in Policy /\ requested \in Policy
      /\ Len(marks) = Steps(config) /\ Steps(config) \in Nat
      /\ marks[Steps(config)] <= capacity /\ capacity \in 0..WordMax
  BY StepFacts DEF WorkspaceInv, TypeOK, MarksChain
<1>2. EstimatePolicy = policy
  BY <1>1, ResolveTwice DEF WorkspaceInv, Checked, EstimatePolicy
<1>3. done \in 1..Steps(config)
  BY <1>1 DEF WorkspaceInv, QueueOK, TypeOK
<1>4. m \in 0..WordMax /\ marks[done] \in 0..WordMax
      /\ marks[Steps(config)] \in 0..WordMax
  BY <1>1, <1>3, StateFacts DEF WorkspaceInv
<1>5. marks[done] = After(config, policy, done, m)
  BY <1>1, <1>2, <1>3 DEF WorkspaceInv, MarksChain
<1>6. marks[done] \in 0..capacity
  <2>1. marks[done] <= marks[Steps(config)]
    BY <1>1, <1>3 DEF WorkspaceInv, MarksChain
  <2> QED
    BY <1>1, <1>4, <2>1, WordAssumption
<1>7. Mark(done) = marks[done]
  BY <1>3 DEF Mark
<1>8. marks[done] # NoSize
  BY <1>4, WordAssumption DEF NoSize
<1> HIDE DEF m
<1>9. CASE queue = BuffersOf(config, done)
  <2>1. Reached = m
    BY <1>9 DEF Reached, m
  <2>2. CASE \E b \in Buffer : BuffersOf(config, done) = <<b>>
    <3>1. PICK b \in Buffer : BuffersOf(config, done) = <<b>>
      BY <2>2
    <3>2. queue = <<b>> /\ Head(queue) = b /\ Tail(queue) = <<>>
      BY <1>9, <3>1
    <3>5. Tail(queue) \in Seq(Buffer)
      BY <3>2, ShortQueues
    <3>3. Sum(m, Estimated(config, policy, b)) = marks[done]
      BY <1>1, <1>3, <1>4, <1>5, <3>1, AfterFacts
    <3> QED
      BY <1>2, <1>3, <1>4, <1>6, <1>7, <2>1, <3>2, <3>3, <3>5
  <2>3. CASE BuffersOf(config, done) = <<"convolution", "recurrent">>
    <3>1. /\ Head(queue) = "convolution" /\ Tail(queue) = <<"recurrent">>
          /\ "convolution" \in Buffer /\ "recurrent" \in Buffer
      BY <1>9, <2>3 DEF Buffer
    <3>2. /\ Sum(m, Estimated(config, policy, "convolution")) \in 0..WordMax
          /\ Sum(m, Estimated(config, policy, "convolution")) <= marks[done]
      BY <1>1, <1>3, <1>4, <1>5, <1>8, <2>3, AfterFacts
    <3>3. Sum(m, Estimated(config, policy, "convolution")) \in 0..capacity
      BY <1>1, <1>6, <3>2, WordAssumption
    <3>4. Tail(queue) \in Seq(Buffer)
      BY <3>1, ShortQueues
    <3> QED
      BY <1>2, <1>3, <1>4, <2>1, <2>3, <3>1, <3>3, <3>4 DEF m
  <2> QED
    BY <1>1, <1>3, <2>2, <2>3, StepFacts
<1>10. CASE queue # BuffersOf(config, done)
  <2>1. /\ queue = <<"recurrent">>
        /\ BuffersOf(config, done) = <<"convolution", "recurrent">>
    BY <1>10 DEF WorkspaceInv, QueueOK
  <2>2. Reached = Sum(m, Estimated(config, policy, "convolution"))
    BY <1>2, <1>10 DEF Reached, m
  <2>3. /\ Head(queue) = "recurrent" /\ Tail(queue) = <<>>
        /\ "recurrent" \in Buffer
    BY <2>1 DEF Buffer
  <2>4. /\ Reached \in 0..WordMax
        /\ Sum(Reached, Estimated(config, policy, "recurrent")) = marks[done]
    BY <1>1, <1>3, <1>4, <1>5, <1>8, <2>1, <2>2, AfterFacts
  <2> QED
    BY <1>2, <1>3, <1>6, <1>7, <2>3, <2>4, ShortQueues
<1> QED
  BY <1>9, <1>10

LEMMA NextStepStep == WorkspaceInv /\ NextStep => WorkspaceInv'
<1> SUFFICES ASSUME WorkspaceInv, NextStep PROVE WorkspaceInv'
  OBVIOUS
<1>1. /\ config \in Config /\ Steps(config) \in Nat /\ done \in Nat
      /\ done' = done + 1 /\ done + 1 \in 1..Steps(config)
      /\ phase = "allocate" /\ phase' = phase /\ queue = <<>>
      /\ queue' = BuffersOf(config, done + 1)
  BY StepFacts DEF WorkspaceInv, TypeOK, NextStep
<1>2. UNCHANGED <<config, requested, policy, asker, marks, capacity, used, placed>>
  BY DEF NextStep
<1>3. queue' \in Seq(Buffer) /\ queue' # <<>>
  <2>1. CASE \E b \in Buffer : BuffersOf(config, done + 1) = <<b>>
    <3>1. PICK b \in Buffer : BuffersOf(config, done + 1) = <<b>>
      BY <2>1
    <3>2. queue' = <<b>>
      BY <1>1, <3>1
    <3> QED
      BY <3>2, ShortQueues
  <2>2. CASE BuffersOf(config, done + 1) = <<"convolution", "recurrent">>
    <3>1. queue' = <<"convolution", "recurrent">>
      BY <1>1, <2>2
    <3> QED
      BY <3>1, ShortQueues
  <2> QED
    BY <1>1, <2>1, <2>2, StepFacts
<1>4. TypeOK'
  BY <1>1, <1>2, <1>3 DEF WorkspaceInv, TypeOK, Steps
<1>5. Checked' /\ NothingTaken'
  BY <1>1, <1>2 DEF WorkspaceInv, Checked, NothingTaken
<1>6. MarksChain'
  BY <1>1, <1>2 DEF WorkspaceInv, MarksChain, EstimatePolicy, Mark, Steps
<1>7. QueueOK' /\ RoomLeft'
  BY <1>1, <1>2, <1>3 DEF WorkspaceInv, QueueOK, RoomLeft, Reached, Mark, BuffersOf
<1> QED
  BY <1>4, <1>5, <1>6, <1>7 DEF WorkspaceInv

LEMMA FinishStep == WorkspaceInv /\ Finish => WorkspaceInv'
<1> SUFFICES ASSUME WorkspaceInv, Finish PROVE WorkspaceInv'
  OBVIOUS
<1>1. phase = "allocate" /\ phase' = "ready"
  BY DEF Finish, Goto
<1>2. TypeOK'
  BY <1>1 DEF WorkspaceInv, TypeOK, Finish, Phases, Steps
<1>3. Checked' /\ NothingTaken'
  BY <1>1 DEF WorkspaceInv, Checked, NothingTaken, Finish
<1>4. MarksChain' /\ QueueOK' /\ RoomLeft'
  BY <1>1 DEF MarksChain, QueueOK, RoomLeft
<1> QED
  BY <1>2, <1>3, <1>4 DEF WorkspaceInv

\* What the estimate has reached once the buffer at the head is done with.
ReachedNext == Sum(Reached, Estimated(config, policy, Head(queue)))

\* The offset and the bytes of a buffer that has both.
LEMMA OffsetFacts ==
  ASSUME WorkspaceInv, phase = "allocate", queue # <<>>,
         NEW b, b = Head(queue), NEW asked, asked = Allocated(config, policy, b),
         NEW bytes, bytes = IF asked = 0 THEN 1 ELSE RoundUp(asked, AlignmentOf(b)),
         NEW offset, offset = RoundUp(used, AlignmentOf(b)),
         NoSize \notin {asked, bytes, offset, Add(offset, bytes)}
  PROVE  /\ b \in Buffer /\ asked \in 0..WordMax
         /\ offset \in 0..WordMax /\ bytes \in 1..WordMax
         /\ used <= offset /\ offset % AlignmentOf(b) = 0
<1>1. /\ b \in Buffer /\ config \in Config /\ policy \in Policy
      /\ used \in 0..WordMax
  <2>1. b \in Buffer
    BY HeadFacts
  <2>2. /\ config \in Config /\ policy \in Policy
        /\ used \in 0..capacity /\ capacity \in 0..WordMax
    BY DEF WorkspaceInv, TypeOK
  <2> QED
    BY <2>1, <2>2, WordAssumption
<1>2. AlignmentOf(b) \in {4, 16, 256}
  BY DEF AlignmentOf, WorkspaceAlignment
<1>3. asked \in Size
  BY <1>1, AllocatedFacts
<1>4. asked \in 0..WordMax
  BY <1>3, WordAssumption DEF Size, NoSize
<1>5. offset \in Size /\ used <= offset /\ offset % AlignmentOf(b) = 0
  BY <1>1, <1>2, RoundFacts
<1>6. bytes \in Size /\ bytes >= 1
  <2>1. CASE asked = 0
    BY <2>1, WordAssumption DEF Size, NoSize
  <2>2. CASE asked # 0
    <3>1. bytes \in Size /\ asked <= bytes
      BY <1>2, <1>4, <2>2, RoundFacts
    <3> QED
      BY <1>4, <2>2, <3>1, WordAssumption DEF Size, NoSize
  <2> QED
    BY <2>1, <2>2
<1> QED
  BY <1>1, <1>4, <1>5, <1>6, WordAssumption DEF Size, NoSize

\* Where a convolution keeps a state, the buffer ends before what the estimate
\* has reached with it.
LEMMA BehindEstimate ==
  ASSUME WorkspaceInv, phase = "allocate", queue # <<>>, config.convWidth > 1,
         NEW b, b = Head(queue), NEW asked, asked = Allocated(config, policy, b),
         asked # NoSize, ~(asked = 0 /\ b = "attention_workspace")
  PROVE  /\ asked # 0
         /\ RoundUp(used, AlignmentOf(b)) + RoundUp(asked, AlignmentOf(b)) <= ReachedNext
<1>1. /\ b \in Buffer /\ config \in Config /\ policy \in Policy
      /\ config.weight # "f32"
      /\ used \in 0..WordMax /\ used <= Reached
      /\ Reached \in 0..WordMax /\ ReachedNext \in 0..capacity /\ capacity \in 0..WordMax
  <2>1. /\ b \in Buffer /\ Reached \in 0..WordMax /\ ReachedNext \in 0..capacity
    BY HeadFacts DEF ReachedNext
  <2>2. /\ config \in Config /\ policy \in Policy
        /\ used \in 0..capacity /\ capacity \in 0..WordMax
    BY DEF WorkspaceInv, TypeOK
  <2>3. config.weight # "f32" /\ used <= Reached
    BY DEF WorkspaceInv, Checked, RoomLeft
  <2> QED
    BY <2>1, <2>2, <2>3, WordAssumption
<1>2. asked \in Size
  BY <1>1, AllocatedFacts
<1>3. asked \in Positive
  <2>1. b # "attention_workspace" => asked \in Positive
    BY <1>1, AllocatedFacts
  <2>2. b = "attention_workspace" => asked \in Positive
    BY <1>2, WordAssumption DEF Size, Positive, NoSize
  <2> QED
    BY <2>1, <2>2
<1>4. ReachedNext # NoSize
  BY <1>1, WordAssumption DEF NoSize
<1>5. ReachedNext = Sum(Reached, Estimated(config, policy, b))
  BY DEF ReachedNext
<1>6. asked # 0
  BY <1>3 DEF Positive
<1> QED
  BY <1>1, <1>3, <1>4, <1>5, <1>6, StepBehind

\* The ways to allocate, with names for the sizes the guards speak of.
Allocates(b, asked, bytes, offset) ==
  /\ b = Head(queue) /\ asked = Allocated(config, policy, b)
  /\ bytes = IF asked = 0 THEN 1 ELSE RoundUp(asked, AlignmentOf(b))
  /\ offset = RoundUp(used, AlignmentOf(b))
  /\ \/ UNCHANGED <<phase, used, placed>>
     \/ phase' = "refused" /\ UNCHANGED <<used, placed>>
     \/ /\ ~(asked = 0 /\ b = "attention_workspace")
        /\ NoSize \notin {asked, bytes, offset, Add(offset, bytes)}
        /\ \/ /\ offset + bytes > capacity /\ phase' = "exceeded"
              /\ UNCHANGED <<used, placed>>
           \/ /\ ~(offset + bytes > capacity) /\ phase' = phase
              /\ used' = offset + bytes
              /\ placed' = Append(placed, [buffer |-> b, offset |-> offset,
                                           bytes |-> bytes])

LEMMA AllocateCases ==
  ASSUME Allocate
  PROVE  \E b, asked, bytes, offset : Allocates(b, asked, bytes, offset)
BY DEF Allocate, Allocates, Goto, Place

LEMMA AllocateStep == WorkspaceInv /\ Allocate => WorkspaceInv'
<1> SUFFICES ASSUME WorkspaceInv, Allocate PROVE WorkspaceInv'
  OBVIOUS
<1>1. PICK b, asked, bytes, offset : Allocates(b, asked, bytes, offset)
  BY AllocateCases
<1> USE DEF Allocates
<1>2. /\ phase = "allocate" /\ queue # <<>> /\ queue' = Tail(queue)
      /\ UNCHANGED <<config, requested, policy, asker, marks, capacity, done>>
  BY DEF Allocate
<1>3. /\ Tail(queue) \in Seq(Buffer) /\ done \in 1..Steps(config)
      /\ EstimatePolicy = policy
      /\ Reached \in 0..WordMax /\ ReachedNext \in 0..capacity
      /\ \/ Tail(queue) = <<>> /\ ReachedNext = Mark(done)
         \/ /\ Tail(queue) = <<"recurrent">>
            /\ BuffersOf(config, done) = <<"convolution", "recurrent">>
            /\ ReachedNext = Sum(Mark(done - 1), Estimated(config, policy, "convolution"))
  BY <1>2, HeadFacts DEF ReachedNext
<1>4. /\ capacity \in 0..WordMax /\ used \in 0..capacity
      /\ phase' \in {"allocate", "refused", "exceeded"}
      /\ config \in Config /\ policy \in Policy
  BY <1>1, <1>2 DEF WorkspaceInv, TypeOK
<1>5. /\ used' \in 0..capacity
      /\ placed' \in Seq([buffer : Buffer, offset : 0..WordMax, bytes : 1..WordMax])
  <2> DEFINE Taken == [buffer : Buffer, offset : 0..WordMax, bytes : 1..WordMax]
  <2>1. CASE UNCHANGED <<used, placed>>
    BY <1>4, <2>1 DEF WorkspaceInv, TypeOK
  <2>2. CASE ~UNCHANGED <<used, placed>>
    <3>1. /\ NoSize \notin {asked, bytes, offset, Add(offset, bytes)}
          /\ ~(offset + bytes > capacity) /\ used' = offset + bytes
          /\ placed' = Append(placed, [buffer |-> b, offset |-> offset,
                                       bytes |-> bytes])
      BY <1>1, <2>2
    <3>2. b \in Buffer /\ offset \in 0..WordMax /\ bytes \in 1..WordMax
      BY <1>1, <1>2, <3>1, OffsetFacts
    <3>3. [buffer |-> b, offset |-> offset, bytes |-> bytes] \in Taken
      BY <3>2
    <3>4. placed \in Seq(Taken)
      BY DEF WorkspaceInv, TypeOK
    <3> HIDE DEF Taken
    <3>5. placed' \in Seq(Taken)
      BY <3>1, <3>3, <3>4, AppendProperties
    <3>6. used' \in 0..capacity
      BY <1>4, <3>1, <3>2, WordAssumption
    <3> QED
      BY <3>5, <3>6 DEF Taken
  <2> QED
    BY <2>1, <2>2
<1>6. TypeOK'
  BY <1>2, <1>3, <1>4, <1>5 DEF WorkspaceInv, TypeOK, Phases, Steps
<1>7. Checked' /\ NothingTaken'
  BY <1>2, <1>4 DEF WorkspaceInv, Checked, NothingTaken
<1>8. MarksChain'
  BY <1>2, <1>4 DEF WorkspaceInv, MarksChain, EstimatePolicy, Mark, Steps
<1>9. QueueOK'
  <2>1. BuffersOf(config, done)' = BuffersOf(config, done)
    BY <1>2 DEF BuffersOf
  <2>2. done \in 1..Steps(config) => done > 0
    BY <1>4, StepFacts
  <2> QED
    BY <1>2, <1>3, <2>1, <2>2 DEF QueueOK
<1>10. Reached' = ReachedNext
  <2>1. Mark(done)' = Mark(done) /\ Mark(done - 1)' = Mark(done - 1)
    BY <1>2 DEF Mark
  <2>2. BuffersOf(config, done)' = BuffersOf(config, done)
    BY <1>2 DEF BuffersOf
  <2>3. /\ EstimatePolicy' = policy
        /\ Estimated(config, EstimatePolicy, "convolution")'
             = Estimated(config, policy, "convolution")
    BY <1>2, <1>3 DEF EstimatePolicy
  <2> QED
    BY <1>2, <1>3, <2>1, <2>2, <2>3, SMTT(30) DEF Reached
<1>11. RoomLeft'
  <2> SUFFICES ASSUME phase' = "allocate", config.convWidth > 1
               PROVE  used' <= ReachedNext
    BY <1>2, <1>10 DEF RoomLeft
  <2>1. CASE UNCHANGED <<used, placed>>
    <3>1. used <= Reached
      BY <1>2 DEF WorkspaceInv, RoomLeft
    <3>2. Reached <= ReachedNext
      <4> DEFINE e == Estimated(config, policy, Head(queue))
      <4>1. e \in Size
        BY <1>2, <1>4, HeadFacts, EstimatedFacts
      <4>2. Reached \in Size /\ ReachedNext # NoSize
        BY <1>3, <1>4, Literals, WordAssumption DEF NoSize
      <4>3. ReachedNext = Sum(Reached, e)
        BY DEF ReachedNext
      <4> HIDE DEF e
      <4> QED
        BY <4>1, <4>2, <4>3, SumFacts
    <3> QED
      BY <1>3, <1>4, <2>1, <3>1, <3>2, WordAssumption
  <2>2. CASE ~UNCHANGED <<used, placed>>
    <3>1. /\ ~(asked = 0 /\ b = "attention_workspace") /\ asked # NoSize
          /\ used' = offset + bytes
      BY <1>1, <2>2
    <3> QED
      BY <1>1, <1>2, <3>1, BehindEstimate
  <2> QED
    BY <2>1, <2>2
<1> QED
  BY <1>6, <1>7, <1>8, <1>9, <1>11 DEF WorkspaceInv

-----------------------------------------------------------------------------
(* The theorems *)

\* The invariant of the construction: the estimate is a chain of sums which the
\* arena covers, and allocation stays behind it, for every configuration, word
\* size, budget and bucket.
THEOREM WorkspaceInvariant == Spec => []WorkspaceInv
<1>1. WorkspaceInv /\ [Next]_vars => WorkspaceInv'
  <2> SUFFICES ASSUME WorkspaceInv, [Next]_vars PROVE WorkspaceInv'
    OBVIOUS
  <2>1. CASE UNCHANGED vars
    <3>1. TypeOK' = TypeOK
      BY <2>1 DEF vars, TypeOK, Steps
    <3>2. Checked' = Checked /\ NothingTaken' = NothingTaken
      BY <2>1 DEF vars, Checked, NothingTaken
    <3>3. MarksChain' = MarksChain
      BY <2>1 DEF vars, MarksChain, EstimatePolicy, Mark, Steps
    <3>4. QueueOK' = QueueOK /\ RoomLeft' = RoomLeft
      BY <2>1 DEF vars, QueueOK, RoomLeft, Reached, Mark, EstimatePolicy, BuffersOf
    <3> QED
      BY <3>1, <3>2, <3>3, <3>4 DEF WorkspaceInv
  <2> QED
    BY <2>1, BeginStep, EstimateStep, MakeArenaStep, CheckArenaStep, NextStepStep,
       AllocateStep, FinishStep DEF Next
<1> QED
  BY InitHolds, <1>1, PTL DEF Spec

\* Whatever the model, the context and the policy: the executor does not run out
\* of the arena the session sized, unless the convolution keeps no state.
THEOREM EstimateIsEnough == Spec => []EstimateSuffices
<1>1. Init => EstimateSuffices
  BY DEF Init, EstimateSuffices
<1>2. WorkspaceInv /\ EstimateSuffices /\ [Next]_vars => EstimateSuffices'
  <2> SUFFICES ASSUME WorkspaceInv, EstimateSuffices, [Next]_vars,
                      phase' = "exceeded", config' # config \/ config.convWidth # 1
               PROVE  FALSE
    BY DEF EstimateSuffices
  <2>1. CASE UNCHANGED vars
    BY <2>1 DEF vars, EstimateSuffices
  <2>2. CASE Begin \/ Estimate \/ MakeArena \/ CheckArena \/ NextStep \/ Finish
    BY <2>2 DEF Begin, Estimate, MakeArena, CheckArena, AllAdded, NextStep, Finish, Goto
  <2>3. CASE Allocate
    <3>1. PICK b, asked, bytes, offset : Allocates(b, asked, bytes, offset)
      BY <2>3, AllocateCases
    <3> USE DEF Allocates
    <3>2. phase = "allocate" /\ queue # <<>> /\ config' = config
      BY <2>3 DEF Allocate
    <3>3. /\ ~(asked = 0 /\ b = "attention_workspace")
          /\ NoSize \notin {asked, bytes, offset, Add(offset, bytes)}
          /\ offset + bytes > capacity
      BY <3>1, <3>2
    <3>4. config.convWidth > 1
      BY <3>2, FieldFacts, WordAssumption DEF WorkspaceInv, TypeOK
    <3>5. /\ asked # 0
          /\ RoundUp(used, AlignmentOf(b)) + RoundUp(asked, AlignmentOf(b)) <= ReachedNext
      BY <3>1, <3>2, <3>3, <3>4, BehindEstimate
    <3>6. /\ offset \in 0..WordMax /\ bytes \in 1..WordMax
          /\ ReachedNext \in 0..capacity /\ capacity \in 0..WordMax
      <4>1. ReachedNext \in 0..capacity
        BY <3>2, HeadFacts DEF ReachedNext
      <4>2. capacity \in 0..WordMax
        BY DEF WorkspaceInv, TypeOK
      <4> QED
        BY <3>1, <3>2, <3>3, <4>1, <4>2, OffsetFacts
    <3> QED
      BY <3>1, <3>3, <3>5, <3>6, WordAssumption
  <2> QED
    BY <2>1, <2>2, <2>3 DEF Next
<1> QED
  BY WorkspaceInvariant, <1>1, <1>2, PTL DEF Spec

\* No two buffers of an executor share a byte, and each is as aligned as asked.
THEOREM BuffersNeverOverlap == Spec => []BuffersDisjoint
<1>1. Init => BuffersDisjoint
  BY DEF Init, BuffersDisjoint
<1>2. WorkspaceInv /\ BuffersDisjoint /\ [Next]_vars => BuffersDisjoint'
  <2> SUFFICES ASSUME WorkspaceInv, BuffersDisjoint, [Next]_vars
               PROVE  BuffersDisjoint'
    OBVIOUS
  <2>1. CASE UNCHANGED <<used, placed>>
    BY <2>1 DEF BuffersDisjoint
  <2>2. CASE ~UNCHANGED <<used, placed>>
    <3>1. Allocate
      BY <2>2 DEF Next, vars, Begin, Estimate, MakeArena, CheckArena, NextStep, Finish
    <3>2. PICK b, asked, bytes, offset : Allocates(b, asked, bytes, offset)
      BY <3>1, AllocateCases
    <3> USE DEF Allocates
    <3>3. phase = "allocate" /\ queue # <<>>
      BY <3>1 DEF Allocate
    <3> DEFINE Taken == [buffer : Buffer, offset : 0..WordMax, bytes : 1..WordMax]
               new == [buffer |-> b, offset |-> offset, bytes |-> bytes]
               n == Len(placed)
    <3>4. /\ NoSize \notin {asked, bytes, offset, Add(offset, bytes)}
          /\ used' = offset + bytes /\ placed' = Append(placed, new)
      BY <2>2, <3>2
    <3>5. /\ b \in Buffer /\ offset \in 0..WordMax /\ bytes \in 1..WordMax
          /\ used <= offset /\ offset % AlignmentOf(b) = 0
      BY <3>2, <3>3, <3>4, OffsetFacts
    <3>6. placed \in Seq(Taken) /\ new \in Taken /\ used \in Nat
      <4>1. placed \in Seq(Taken) /\ used \in 0..capacity
        BY DEF WorkspaceInv, TypeOK
      <4> QED
        BY <3>5, <4>1
    <3>7. new.buffer = b /\ new.offset = offset /\ new.bytes = bytes
      OBVIOUS
    <3>8. \A i \in 1..n : placed[i] \in Taken
      BY <3>6, ElementOfSeq
    <3>9. \A i \in 1..n : placed[i].offset \in Nat /\ placed[i].bytes \in Nat
      BY <3>8, WordAssumption
    <3> HIDE DEF Taken, new
    <3>10. /\ n \in Nat /\ Len(placed') = n + 1 /\ placed'[n + 1] = new
           /\ \A i \in 1..n : placed'[i] = placed[i]
      BY <3>4, <3>6, AppendProperties, LenProperties
    <3>11. \A i \in 1..n : placed[i].offset + placed[i].bytes <= used
      BY DEF BuffersDisjoint
    <3>12. ASSUME NEW i \in 1..(n + 1)
           PROVE  /\ placed'[i].offset % AlignmentOf(placed'[i].buffer) = 0
                  /\ placed'[i].offset + placed'[i].bytes <= used'
                  /\ \A j \in 1..(i - 1) :
                       placed'[j].offset + placed'[j].bytes <= placed'[i].offset
      <4>1. CASE i = n + 1
        <5>1. \A j \in 1..(i - 1) : placed'[j] = placed[j] /\ j \in 1..n
          BY <3>10, <4>1
        <5>2. \A j \in 1..(i - 1) :
                placed[j].offset + placed[j].bytes <= offset
          BY <3>5, <3>6, <3>9, <3>11, <5>1, WordAssumption, SMTT(30)
        <5> QED
          BY <3>4, <3>5, <3>7, <3>10, <4>1, <5>1, <5>2
      <4>2. CASE i # n + 1
        <5>1. i \in 1..n /\ \A j \in 1..(i - 1) : j \in 1..n
          BY <3>10, <4>2
        <5>2. placed[i].offset + placed[i].bytes <= used'
          BY <3>4, <3>5, <3>6, <3>9, <3>11, <5>1, WordAssumption
        <5> QED
          BY <3>10, <5>1, <5>2 DEF BuffersDisjoint
      <4> QED
        BY <4>1, <4>2
    <3> QED
      BY <3>10, <3>12 DEF BuffersDisjoint
  <2> QED
    BY <2>1, <2>2
<1> QED
  BY WorkspaceInvariant, <1>1, <1>2, PTL DEF Spec

-----------------------------------------------------------------------------
(* The second estimate *)

\* The estimate of a policy that is resolved already: a chain of sums of which
\* the arena holds the last.
IsEstimate(m) ==
  /\ m \in Seq(0..WordMax) /\ Len(m) = Steps(config)
  /\ \A i \in 1..Steps(config) :
       m[i] = After(config, policy, i, IF i = 1 THEN 0 ELSE m[i - 1])
  /\ RoundUp(m[Steps(config)], WorkspaceAlignment) # NoSize
  /\ RoundUp(m[Steps(config)], WorkspaceAlignment) <= capacity

\* While the executor estimates, it repeats the session's estimate.
EstimatesAgree ==
  asker = "executor" /\ phase \in {"resolve", "estimate"} =>
    \E m : /\ IsEstimate(m)
           /\ phase = "estimate" => \A i \in 1..Len(marks) : marks[i] = m[i]

\* The session hands on the estimate it made.
LEMMA ArenaHoldsEstimate ==
  ASSUME WorkspaceInv, MakeArena, phase' # "refused"
  PROVE  IsEstimate(marks)'
<1>1. /\ phase = "estimate" /\ asker = "session" /\ Len(marks) = Steps(config)
      /\ UNCHANGED <<config, requested, marks>>
      /\ policy' = Resolve(config, requested) /\ Total # NoSize
      /\ capacity' = Larger(Total, 1)
  BY DEF MakeArena, AllAdded, Goto
<1>2. /\ marks \in Seq(0..WordMax) /\ Steps(config) \in Nat /\ Steps(config) >= 28
      /\ Total \in Size
  BY <1>1, StepFacts, TotalFacts DEF WorkspaceInv, TypeOK
<1>3. Total <= capacity'
  BY <1>1, <1>2, WordAssumption DEF Larger, Size, NoSize
<1>4. Total = RoundUp(marks[Steps(config)], WorkspaceAlignment)
  BY <1>1 DEF Total
<1>5. ASSUME NEW i \in 1..Steps(config)
      PROVE  marks[i] = After(config, policy', i, IF i = 1 THEN 0 ELSE marks[i - 1])
  <2>1. marks[i] = After(config, EstimatePolicy, i, Mark(i - 1))
    BY <1>1 DEF WorkspaceInv, MarksChain
  <2>2. EstimatePolicy = policy'
    BY <1>1 DEF EstimatePolicy
  <2>3. Mark(i - 1) = IF i = 1 THEN 0 ELSE marks[i - 1]
    BY <1>2 DEF Mark
  <2> QED
    BY <2>1, <2>2, <2>3
<1>6. Steps(config)' = Steps(config)
  BY <1>1 DEF Steps
<1> QED
  BY <1>1, <1>2, <1>3, <1>4, <1>5, <1>6 DEF IsEstimate

\* An estimate depends on nothing a step of estimating changes.
LEMMA SameEstimate ==
  ASSUME UNCHANGED <<config, policy, capacity>>, NEW m, IsEstimate(m)
  PROVE  IsEstimate(m)'
BY DEF IsEstimate, Steps

LEMMA ResolvedPolicy ==
  ASSUME WorkspaceInv, asker = "executor", phase # "refused"
  PROVE  EstimatePolicy = policy
BY ResolveTwice DEF WorkspaceInv, TypeOK, Checked, EstimatePolicy

LEMMA AgreeOverEstimate ==
  ASSUME WorkspaceInv, EstimatesAgree, Estimate
  PROVE  EstimatesAgree'
<1> SUFFICES ASSUME asker = "executor", phase' = "estimate" PROVE EstimatesAgree'
  BY DEF EstimatesAgree, Estimate, Goto
<1> DEFINE n == Len(marks)
           total == After(config, EstimatePolicy, n + 1, Mark(n))
<1>1. /\ phase = "estimate" /\ n < Steps(config) /\ marks' = Append(marks, total)
      /\ UNCHANGED <<config, policy, capacity, asker>>
  BY DEF Estimate, Goto
<1>2. PICK m : IsEstimate(m) /\ \A i \in 1..n : marks[i] = m[i]
  BY <1>1 DEF EstimatesAgree
<1>3. Steps(config) \in Nat /\ n \in Nat /\ n + 1 \in 1..Steps(config)
  BY <1>1, StepFacts DEF WorkspaceInv, TypeOK
<1>4. EstimatePolicy = policy
  BY <1>1, ResolvedPolicy
<1>5. Mark(n) = IF n + 1 = 1 THEN 0 ELSE m[n]
  BY <1>2, <1>3 DEF Mark
<1>6. m[n + 1] = After(config, policy, n + 1, IF n + 1 = 1 THEN 0 ELSE m[n])
  <2>1. (n + 1) - 1 = n
    BY <1>3
  <2> QED
    BY <1>2, <1>3, <2>1 DEF IsEstimate
<1>7. total = m[n + 1]
  BY <1>4, <1>5, <1>6
<1>8. IsEstimate(m)'
  BY <1>1, <1>2, SameEstimate
<1>9. marks \in Seq(0..WordMax) /\ m[n + 1] \in 0..WordMax
  BY <1>2, <1>3, ElementOfSeq DEF WorkspaceInv, TypeOK, IsEstimate
<1> HIDE DEF total
<1>10. /\ Len(marks') = n + 1 /\ marks'[n + 1] = m[n + 1]
       /\ \A i \in 1..n : marks'[i] = marks[i]
  BY <1>1, <1>7, <1>9, AppendProperties
<1>11. \A i \in 1..Len(marks') : marks'[i] = m[i]
  BY <1>2, <1>3, <1>10
<1> QED
  BY <1>8, <1>11 DEF EstimatesAgree

LEMMA AgreeStep ==
  WorkspaceInv /\ EstimatesAgree /\ [Next]_vars => EstimatesAgree'
<1> SUFFICES ASSUME WorkspaceInv, EstimatesAgree, [Next]_vars PROVE EstimatesAgree'
  OBVIOUS
<1>1. CASE UNCHANGED vars
  <2>1. UNCHANGED <<config, policy, capacity, asker, phase, marks>>
    BY <1>1 DEF vars
  <2> QED
    BY <2>1, SameEstimate DEF EstimatesAgree
<1>2. CASE Begin
  <2> SUFFICES ASSUME asker = "executor", phase' = "estimate" PROVE EstimatesAgree'
    BY <1>2 DEF EstimatesAgree, Begin, Goto
  <2>1. /\ phase = "resolve" /\ marks' = <<>>
        /\ UNCHANGED <<config, policy, capacity, asker>>
    BY <1>2 DEF Begin
  <2>2. PICK m : IsEstimate(m)
    BY <2>1 DEF EstimatesAgree
  <2>3. IsEstimate(m)' /\ \A i \in 1..Len(marks') : marks'[i] = m[i]
    BY <2>1, <2>2, SameEstimate
  <2> QED
    BY <2>3 DEF EstimatesAgree
<1>3. CASE Estimate
  BY <1>3, AgreeOverEstimate
<1>4. CASE MakeArena
  <2> SUFFICES ASSUME phase' # "refused" PROVE EstimatesAgree'
    BY DEF EstimatesAgree
  <2>1. phase' = "resolve"
    BY <1>4 DEF MakeArena, Goto
  <2> QED
    BY <1>4, <2>1, ArenaHoldsEstimate DEF EstimatesAgree
<1>5. CASE CheckArena \/ NextStep \/ Allocate \/ Finish
  <2>1. phase' \notin {"resolve", "estimate"}
    <3>1. CASE CheckArena \/ NextStep \/ Finish
      BY <3>1 DEF CheckArena, NextStep, Finish, Goto
    <3>2. CASE Allocate
      <4>1. PICK b, asked, bytes, offset : Allocates(b, asked, bytes, offset)
        BY <3>2, AllocateCases
      <4>2. phase = "allocate"
        BY <3>2 DEF Allocate
      <4> QED
        BY <4>1, <4>2 DEF Allocates
    <3> QED
      BY <1>5, <3>1, <3>2
  <2> QED
    BY <2>1 DEF EstimatesAgree
<1> QED
  BY <1>1, <1>2, <1>3, <1>4, <1>5 DEF Next

\* The executor's own check of the arena never refuses the arena its session
\* made: the two estimates are of the same policy, however it was resolved.
THEOREM ArenaIsAccepted == Spec => []ArenaPassesCheck
<1>1. Init => EstimatesAgree /\ ArenaPassesCheck
  BY DEF Init, EstimatesAgree, ArenaPassesCheck
<1>2. WorkspaceInv /\ EstimatesAgree /\ ArenaPassesCheck /\ [Next]_vars
        => ArenaPassesCheck'
  <2> SUFFICES ASSUME WorkspaceInv, EstimatesAgree, phase # "exhausted", [Next]_vars
               PROVE  phase' # "exhausted"
    BY DEF ArenaPassesCheck
  <2>1. CASE UNCHANGED vars \/ Begin \/ Estimate \/ MakeArena \/ NextStep \/ Finish
    BY <2>1 DEF vars, Begin, Estimate, MakeArena, AllAdded, NextStep, Finish, Goto
  <2>2. CASE Allocate
    <3>1. PICK b, asked, bytes, offset : Allocates(b, asked, bytes, offset)
      BY <2>2, AllocateCases
    <3> QED
      BY <3>1 DEF Allocates
  <2>3. CASE CheckArena
    <3>1. /\ phase = "estimate" /\ Len(marks) = Steps(config) /\ asker = "executor"
          /\ phase' = IF Total = NoSize THEN "refused"
                      ELSE IF capacity >= Total THEN "allocate" ELSE "exhausted"
      BY <2>3 DEF CheckArena, AllAdded, Goto
    <3>2. PICK m : IsEstimate(m) /\ \A i \in 1..Len(marks) : marks[i] = m[i]
      BY <3>1 DEF EstimatesAgree
    <3>3. marks[Steps(config)] = m[Steps(config)]
      BY <3>1, <3>2, StepFacts DEF WorkspaceInv, TypeOK
    <3>4. Total = RoundUp(m[Steps(config)], WorkspaceAlignment)
      BY <3>1, <3>3 DEF Total
    <3>5. /\ Total # NoSize /\ Total <= capacity
          /\ Total \in Size /\ capacity \in 0..WordMax
      BY <3>1, <3>2, <3>4, TotalFacts DEF IsEstimate, WorkspaceInv, TypeOK
    <3>6. capacity >= Total
      BY <3>5, WordAssumption DEF Size, NoSize
    <3> QED
      BY <3>1, <3>5, <3>6
  <2> QED
    BY <2>1, <2>2, <2>3 DEF Next
<1> QED
  BY WorkspaceInvariant, AgreeStep, <1>1, <1>2, PTL DEF Spec

-----------------------------------------------------------------------------
(* What is taken *)

Taken(b) == \E i \in 1..Len(placed) : placed[i].buffer = b
Waits(b) == \E i \in 1..Len(queue) : queue[i] = b

\* Step k is for buffer b.
StepTakes(k, b) ==
  \/ BuffersOf(config, k) = <<b>>
  \/ /\ BuffersOf(config, k) = <<"convolution", "recurrent">>
     /\ b \in {"convolution", "recurrent"}

\* The workspace an online policy without partitions does without.
DoneWithout(b) == b = "attention_workspace" /\ Allocated(config, policy, b) = 0

\* A buffer has the bytes that were asked for.
LargeEnough ==
  \A i \in 1..Len(placed) :
    /\ placed[i].buffer \in Buffer /\ placed[i].bytes \in 0..WordMax
    /\ Allocated(config, policy, placed[i].buffer) # NoSize
    /\ Allocated(config, policy, placed[i].buffer) <= placed[i].bytes

\* Every buffer of the steps begun is taken, or still to take.
AllTaken ==
  /\ phase \in {"allocate", "ready"} =>
       \A k \in 1..done : \A b \in Buffer :
         StepTakes(k, b) => Taken(b) \/ Waits(b) \/ DoneWithout(b)
  /\ phase = "ready" => queue = <<>> /\ done = Steps(config)

\* Allocation does without the buffer, fails, or takes it.
LEMMA AllocateOutcomes ==
  ASSUME WorkspaceInv, Allocate
  PROVE  LET b == Head(queue) IN
         \/ DoneWithout(b) /\ UNCHANGED placed
         \/ phase' \in {"refused", "exceeded"} /\ UNCHANGED placed
         \/ \E bytes, offset :
              /\ bytes \in 0..WordMax
              /\ placed' = Append(placed, [buffer |-> b, offset |-> offset,
                                           bytes |-> bytes])
              /\ Allocated(config, policy, b) # NoSize
              /\ Allocated(config, policy, b) <= bytes
<1> DEFINE b == Head(queue)
           asked == Allocated(config, policy, b)
           bytes == IF asked = 0 THEN 1 ELSE RoundUp(asked, AlignmentOf(b))
           offset == RoundUp(used, AlignmentOf(b))
<1>1. /\ phase = "allocate" /\ queue # <<>>
      /\ \/ asked = 0 /\ b = "attention_workspace" /\ placed' = placed
         \/ phase' \in {"refused", "exceeded"} /\ placed' = placed
         \/ /\ NoSize \notin {asked, bytes, offset, Add(offset, bytes)}
            /\ placed' = Append(placed, [buffer |-> b, offset |-> offset,
                                         bytes |-> bytes])
  BY DEF Allocate, Goto, Place
<1>2. CASE NoSize \notin {asked, bytes, offset, Add(offset, bytes)}
  <2>1. asked \in 0..WordMax /\ bytes \in 1..WordMax
    <3> HIDE DEF asked
    <3>1. asked = Allocated(config, policy, b)
      BY DEF asked
    <3> QED
      BY <1>1, <1>2, <3>1, OffsetFacts
  <2>2. AlignmentOf(b) \in {4, 16, 256}
    BY DEF AlignmentOf, WorkspaceAlignment
  <2>3. asked <= bytes
    <3> HIDE DEF asked
    <3>1. CASE asked = 0
      BY <3>1
    <3>2. CASE asked # 0
      <4>1. RoundUp(asked, AlignmentOf(b)) # NoSize
        BY <1>2, <3>2
      <4>2. asked <= RoundUp(asked, AlignmentOf(b))
        BY <2>1, <2>2, <4>1, RoundFacts
      <4> QED
        BY <3>2, <4>2
    <3> QED
      BY <3>1, <3>2
  <2>4. asked # NoSize /\ bytes \in 0..WordMax
    BY <1>2, <2>1, WordAssumption
  <2> HIDE DEF bytes, offset
  <2> QED
    BY <1>1, <2>3, <2>4 DEF DoneWithout
<1>3. CASE NoSize \in {asked, bytes, offset, Add(offset, bytes)}
  BY <1>1, <1>3 DEF DoneWithout
<1> QED
  BY <1>2, <1>3

\* A step that takes nothing leaves what is taken as it is.
LEMMA NothingMoves ==
  ASSUME WorkspaceInv, LargeEnough, [Next]_vars, ~Allocate
  PROVE  LargeEnough' /\ placed' = placed
<1>1. CASE UNCHANGED <<config, policy, placed>>
  BY <1>1 DEF LargeEnough
<1>2. CASE MakeArena
  <2>1. placed = <<>> /\ placed' = placed
    BY <1>2 DEF WorkspaceInv, NothingTaken, MakeArena, AllAdded
  <2> QED
    BY <2>1 DEF LargeEnough
<1> QED
  BY <1>1, <1>2 DEF Next, vars, Begin, Estimate, CheckArena, NextStep, Finish

LEMMA LargeEnoughStep ==
  WorkspaceInv /\ LargeEnough /\ [Next]_vars => LargeEnough'
<1> SUFFICES ASSUME WorkspaceInv, LargeEnough, Allocate PROVE LargeEnough'
  BY NothingMoves
<1>1. /\ phase = "allocate" /\ queue # <<>> /\ UNCHANGED <<config, policy>>
  BY DEF Allocate
<1>2. CASE UNCHANGED placed
  BY <1>1, <1>2 DEF LargeEnough
<1>3. CASE placed' # placed
  <2> DEFINE b == Head(queue)
             n == Len(placed)
  <2>1. PICK bytes, offset :
          /\ bytes \in 0..WordMax
          /\ placed' = Append(placed, [buffer |-> b, offset |-> offset,
                                       bytes |-> bytes])
          /\ Allocated(config, policy, b) # NoSize
          /\ Allocated(config, policy, b) <= bytes
    BY <1>3, AllocateOutcomes
  <2>2. b \in Buffer
    BY <1>1, HeadFacts
  <2> DEFINE R == [buffer : Buffer, offset : 0..WordMax, bytes : 1..WordMax]
             new == [buffer |-> b, offset |-> offset, bytes |-> bytes]
  <2>3. placed \in Seq(R)
    BY DEF WorkspaceInv, TypeOK
  <2>4. new.buffer = b /\ new.bytes = bytes
    OBVIOUS
  <2> HIDE DEF R, new, b
  <2>5. placed' = Append(placed, new)
    BY <2>1 DEF new
  <2>6. /\ n \in Nat /\ Len(placed') = n + 1 /\ placed'[n + 1] = new
        /\ \A i \in 1..n : placed'[i] = placed[i]
    BY <2>3, <2>5, LenProperties
  <2>7. \A i \in 1..(n + 1) : i \in 1..n \/ i = n + 1
    BY <2>6
  <2> QED
    BY <1>1, <2>1, <2>2, <2>4, <2>6, <2>7 DEF LargeEnough
<1> QED
  BY <1>2, <1>3

LEMMA AllTakenNext ==
  ASSUME WorkspaceInv, AllTaken, NextStep
  PROVE  AllTaken'
<1>1. /\ phase = "allocate" /\ phase' = phase /\ queue = <<>> /\ done' = done + 1
      /\ queue' = BuffersOf(config, done + 1)
      /\ UNCHANGED <<config, policy, placed>>
  BY DEF NextStep
<1>2. done \in Nat
  BY StepFacts DEF WorkspaceInv, TypeOK
<1> SUFFICES ASSUME NEW k \in 1..(done + 1), NEW b \in Buffer, StepTakes(k, b)
             PROVE  Taken(b)' \/ Waits(b)' \/ DoneWithout(b)'
  BY <1>1 DEF AllTaken, StepTakes, BuffersOf
<1>3. CASE k = done + 1
  <2>1. \/ queue' = <<b>>
        \/ queue' = <<"convolution", "recurrent">> /\ b \in {"convolution", "recurrent"}
    BY <1>1, <1>3 DEF StepTakes
  <2> QED
    BY <2>1 DEF Waits
<1>4. CASE k # done + 1
  <2>1. k \in 1..done
    BY <1>2, <1>4
  <2>2. Taken(b) \/ Waits(b) \/ DoneWithout(b)
    BY <1>1, <2>1 DEF AllTaken
  <2>3. ~Waits(b)
    BY <1>1 DEF Waits
  <2> QED
    BY <1>1, <2>2, <2>3 DEF Taken, DoneWithout
<1> QED
  BY <1>3, <1>4

LEMMA AllTakenAllocate ==
  ASSUME WorkspaceInv, AllTaken, Allocate
  PROVE  AllTaken'
<1>1. /\ phase = "allocate" /\ queue # <<>> /\ queue' = Tail(queue)
      /\ UNCHANGED <<config, policy, done>>
  BY DEF Allocate
<1>0. PICK h : h = Head(queue)
  OBVIOUS
<1>2. /\ \A b : Taken(b) => Taken(b)'
      /\ phase' = "allocate" => Taken(h)' \/ DoneWithout(h)
  <2> DEFINE n == Len(placed)
  <2>1. CASE \E bytes, offset :
               placed' = Append(placed, [buffer |-> h, offset |-> offset,
                                         bytes |-> bytes])
    <3>1. PICK bytes, offset :
            placed' = Append(placed, [buffer |-> h, offset |-> offset,
                                      bytes |-> bytes])
      BY <2>1
    <3> DEFINE R == [buffer : Buffer, offset : 0..WordMax, bytes : 1..WordMax]
               new == [buffer |-> h, offset |-> offset, bytes |-> bytes]
    <3>2. placed \in Seq(R) /\ new.buffer = h
      BY DEF WorkspaceInv, TypeOK
    <3> HIDE DEF R, new
    <3>3. placed' = Append(placed, new)
      BY <3>1 DEF new
    <3>4. /\ n \in Nat /\ Len(placed') = n + 1 /\ placed'[n + 1] = new
          /\ \A i \in 1..n : placed'[i] = placed[i] /\ i \in 1..(n + 1)
      BY <3>2, <3>3, LenProperties
    <3>5. n + 1 \in 1..Len(placed')
      BY <3>4
    <3>6. \A b : Taken(b) => Taken(b)'
      BY <3>4 DEF Taken
    <3>7. Taken(h)'
      BY <3>2, <3>4, <3>5 DEF Taken
    <3> QED
      BY <3>6, <3>7
  <2>2. CASE UNCHANGED placed
    <3>1. \A b : Taken(b) => Taken(b)'
      BY <2>2 DEF Taken
    <3>2. CASE DoneWithout(h) \/ phase' \in {"refused", "exceeded"}
      BY <3>1, <3>2
    <3>3. CASE ~(DoneWithout(h) \/ phase' \in {"refused", "exceeded"})
      BY <1>0, <2>1, <3>3, AllocateOutcomes
    <3> QED
      BY <3>2, <3>3
  <2> QED
    BY <1>0, <2>1, <2>2, AllocateOutcomes
<1>3. ASSUME NEW b, Waits(b) PROVE b = h \/ Waits(b)'
  <2>1. PICK i \in 1..Len(queue) : queue[i] = b
    BY <1>3 DEF Waits
  <2>2. queue \in Seq(Buffer)
    BY DEF WorkspaceInv, TypeOK
  <2>3. /\ Len(queue) \in Nat /\ Len(Tail(queue)) = Len(queue) - 1
        /\ \A j \in 1..Len(Tail(queue)) : Tail(queue)[j] = queue[j + 1]
        /\ h = queue[1]
    BY <1>0, <1>1, <2>2, HeadTailProperties
  <2>4. CASE i = 1
    BY <2>1, <2>3, <2>4
  <2>5. CASE i # 1
    <3>1. i - 1 \in 1..Len(Tail(queue)) /\ (i - 1) + 1 = i
      BY <2>3, <2>5
    <3>2. Tail(queue)[i - 1] = b
      BY <2>1, <2>3, <3>1
    <3> QED
      BY <1>1, <3>1, <3>2 DEF Waits
  <2> QED
    BY <2>4, <2>5
<1>4. phase' # "ready"
  <2>1. PICK b, asked, bytes, offset : Allocates(b, asked, bytes, offset)
    BY AllocateCases
  <2> QED
    BY <1>1, <2>1 DEF Allocates
<1> SUFFICES ASSUME phase' = "allocate",
                    NEW k \in 1..done, NEW b \in Buffer, StepTakes(k, b)
             PROVE  Taken(b)' \/ Waits(b)' \/ DoneWithout(b)'
  BY <1>1, <1>4 DEF AllTaken, StepTakes, BuffersOf
<1>5. Taken(b) \/ Waits(b) \/ DoneWithout(b)
  BY <1>1 DEF AllTaken
<1>6. \A x : DoneWithout(x)' = DoneWithout(x)
  BY <1>1 DEF DoneWithout
<1> QED
  BY <1>2, <1>3, <1>5, <1>6

LEMMA AllTakenStep ==
  WorkspaceInv /\ AllTaken /\ [Next]_vars => AllTaken'
<1> SUFFICES ASSUME WorkspaceInv, AllTaken, [Next]_vars PROVE AllTaken'
  OBVIOUS
<1>1. CASE UNCHANGED vars
  BY <1>1 DEF vars, AllTaken, StepTakes, BuffersOf, Taken, Waits, DoneWithout, Steps
<1>2. CASE Begin \/ Estimate \/ MakeArena
  BY <1>2 DEF AllTaken, Begin, Estimate, MakeArena, AllAdded, Goto
<1>3. CASE CheckArena
  <2>1. done' = 0 /\ phase' # "ready"
    BY <1>3 DEF WorkspaceInv, NothingTaken, CheckArena, AllAdded, Goto
  <2> QED
    BY <2>1 DEF AllTaken
<1>4. CASE Finish
  <2>1. /\ phase = "allocate" /\ queue = <<>> /\ done = Steps(config)
        /\ UNCHANGED <<config, policy, placed, queue, done>>
    BY <1>4 DEF Finish
  <2> QED
    BY <2>1 DEF AllTaken, StepTakes, BuffersOf, Taken, Waits, DoneWithout, Steps
<1> QED
  BY <1>1, <1>2, <1>3, <1>4, AllTakenNext, AllTakenAllocate DEF Next

-----------------------------------------------------------------------------
(* What the kernels touch fits *)

\* A checked product covers the products of what its factors cover.
LEMMA MulCovers ==
  ASSUME NEW a \in Size, NEW b \in Size, Mul(a, b) # NoSize,
         NEW x \in Nat, NEW y \in Nat, x <= a, y <= b
  PROVE  /\ x * y <= Mul(a, b) /\ x * y \in Nat
         /\ Mul(a, b) \in Size /\ a # NoSize /\ b # NoSize
<1>1. a \in Nat /\ b \in Nat
  BY WordAssumption DEF Size, NoSize
<1>2. Mul(a, b) = a * b /\ Mul(a, b) \in Size /\ a # NoSize /\ b # NoSize
  BY MulFacts
<1>3. x * y <= x * b
  BY <1>1, ProductMonotone
<1>4. b * x <= b * a
  BY <1>1, ProductMonotone
<1>5. x * b = b * x /\ a * b = b * a /\ x * y \in Nat /\ x * b \in Nat /\ a * b \in Nat
  BY <1>1, SMT
<1> QED
  BY <1>2, <1>3, <1>4, <1>5

LEMMA AddCovers ==
  ASSUME NEW a \in Size, NEW b \in Size, Add(a, b) # NoSize,
         NEW x \in Nat, NEW y \in Nat, x <= a, y <= b
  PROVE  /\ x + y <= Add(a, b) /\ x + y \in Nat
         /\ Add(a, b) \in Size /\ a # NoSize /\ b # NoSize
<1>1. Add(a, b) = a + b /\ Add(a, b) \in Size /\ a # NoSize /\ b # NoSize
  BY AddFacts
<1> QED
  BY <1>1, WordAssumption DEF Size, NoSize

\* Factors may be grouped.
LEMMA Grouping ==
  ASSUME NEW a \in Nat, NEW b \in Nat, NEW d \in Nat
  PROVE  a * b * d = a * (b * d) /\ a * b \in Nat /\ b * d \in Nat
BY SMT

\* Three factors, as both lists multiply them.
LEMMA TripleCovers ==
  ASSUME NEW a \in Size, NEW b \in Size, NEW k \in Size, Mul(Mul(a, b), k) # NoSize,
         NEW x \in Nat, NEW y \in Nat, NEW z \in Nat, x <= a, y <= b, z <= k
  PROVE  /\ x * y * z <= Mul(Mul(a, b), k) /\ x * y * z \in Nat
         /\ a # NoSize /\ b # NoSize
<1>1. Mul(a, b) \in Size
  BY MulFacts
<1>2. Mul(a, b) # NoSize
  BY <1>1, MulFacts
<1>3. x * y <= Mul(a, b) /\ x * y \in Nat /\ a # NoSize /\ b # NoSize
  BY <1>2, MulCovers
<1> QED
  BY <1>1, <1>3, MulCovers

\* If a buffer has a size at all, it has n bytes.
Holds(c, p, b, n) == Allocated(c, p, b) # NoSize => n <= Allocated(c, p, b)

\* The fields as numbers, and what validate_config has compared.
LEMMA Numbers ==
  ASSUME NEW c \in Config, Sound(c)
  PROVE  /\ c.vocabulary \in Nat /\ c.hidden \in Nat /\ c.intermediate \in Nat
         /\ c.maxContext \in Nat /\ c.heads \in Nat /\ c.kvHeads \in Nat
         /\ c.headDim \in Nat /\ c.keyHeads \in Nat /\ c.valueHeads \in Nat
         /\ c.linearDim \in Nat /\ c.convWidth - 1 \in Size /\ c.convWidth - 1 \in Nat
         /\ MaxTokens(c) \in Nat
         /\ c.heads * c.headDim = c.hidden /\ c.valueHeads * c.linearDim = c.hidden
<1>1. \A n \in Positive : n \in Nat
  BY WordAssumption DEF Positive, NoSize
<1>2. /\ c.vocabulary \in Positive /\ c.hidden \in Positive
      /\ c.intermediate \in Positive /\ c.maxContext \in Positive
      /\ c.heads \in Positive /\ c.kvHeads \in Positive
      /\ c.headDim \in Positive /\ c.keyHeads \in Positive
      /\ c.valueHeads \in Positive /\ c.linearDim \in Positive
      /\ c.convWidth \in 1..WordMax /\ MaxTokens(c) \in Positive
  BY FieldFacts
<1>3. c.convWidth - 1 \in Size /\ c.convWidth - 1 \in Nat
  BY <1>2, WordAssumption DEF Size, NoSize
<1>4. c.heads * c.headDim = c.hidden /\ c.valueHeads * c.linearDim = c.hidden
  BY DEF Sound
<1> QED
  BY <1>1, <1>2, <1>3, <1>4

\* The channels the convolution runs over, as the kernels count them.
Channels(c) == 2 * c.keyHeads * c.linearDim + c.valueHeads * c.linearDim

\* A width that has a value is the width the kernels work with.
LEMMA WidthsCover ==
  ASSUME NEW c \in Config, Sound(c)
  PROVE  /\ Channels(c) \in Nat
         /\ QkvWidth(c) # NoSize => Channels(c) <= QkvWidth(c)
         /\ GateWidth(c) # NoSize => c.hidden <= GateWidth(c)
         /\ QueryWidth(c) # NoSize => c.hidden <= QueryWidth(c)
         /\ KvWidth(c) # NoSize => c.kvHeads * c.headDim <= KvWidth(c)
         /\ PackWidth(c) # NoSize =>
              Channels(c) + 2 * c.valueHeads + c.hidden <= PackWidth(c)
<1> DEFINE k == c.keyHeads
           v == c.valueHeads
           d == c.linearDim
<1>1. /\ k \in Size /\ v \in Size /\ d \in Size /\ 2 \in Size
      /\ c.heads \in Size /\ c.headDim \in Size /\ c.kvHeads \in Size
  BY FieldFacts, Literals
<1>2. /\ k \in Nat /\ v \in Nat /\ d \in Nat /\ v * d = c.hidden /\ c.hidden \in Nat
      /\ c.heads \in Nat /\ c.headDim \in Nat /\ c.kvHeads \in Nat
      /\ c.heads * c.headDim = c.hidden
  BY Numbers
<1>3. /\ Channels(c) = 2 * k * d + v * d /\ Mul(v, d) = GateWidth(c)
      /\ QkvWidth(c) = Add(Mul(2, Mul(k, d)), Mul(v, d))
  BY DEF Channels, GateWidth, QkvWidth
<1>4. /\ QueryWidth(c) # NoSize => c.hidden <= QueryWidth(c)
      /\ KvWidth(c) # NoSize => c.kvHeads * c.headDim <= KvWidth(c)
  BY <1>1, <1>2, MulCovers DEF QueryWidth, KvWidth
<1>5. 2 * k * d = 2 * (k * d) /\ k * d \in Nat /\ v * d \in Nat
  BY <1>2, Grouping
<1>6. Channels(c) \in Nat /\ Channels(c) = 2 * (k * d) + v * d
  BY <1>3, <1>5
<1> HIDE DEF k, v, d
<1>7. GateWidth(c) # NoSize => v * d <= GateWidth(c)
  BY <1>1, <1>2, <1>3, MulCovers
<1>8. QkvWidth(c) # NoSize => Channels(c) <= QkvWidth(c)
  <2> SUFFICES ASSUME QkvWidth(c) # NoSize PROVE Channels(c) <= QkvWidth(c)
    OBVIOUS
  <2>1. Mul(k, d) \in Size /\ Mul(v, d) \in Size
    BY <1>1, MulFacts
  <2>2. Mul(2, Mul(k, d)) \in Size
    BY <1>1, <2>1, MulFacts
  <2>3. Mul(2, Mul(k, d)) # NoSize /\ Mul(v, d) # NoSize
    BY <1>3, <2>1, <2>2, AddFacts
  <2>4. Mul(k, d) # NoSize
    BY <1>1, <2>1, <2>3, MulFacts
  <2>5. k * d <= Mul(k, d)
    BY <1>1, <1>2, <2>4, MulCovers
  <2>6. 2 * (k * d) <= Mul(2, Mul(k, d))
    BY <1>1, <1>5, <2>1, <2>3, <2>5, MulCovers
  <2>7. v * d <= Mul(v, d)
    BY <1>3, <1>7, <2>3
  <2>8. 2 * (k * d) \in Nat
    BY <1>5
  <2> QED
    BY <1>3, <1>5, <1>6, <2>1, <2>2, <2>6, <2>7, <2>8, AddCovers
<1>9. PackWidth(c) # NoSize => Channels(c) + 2 * v + c.hidden <= PackWidth(c)
  <2> SUFFICES ASSUME PackWidth(c) # NoSize
               PROVE  Channels(c) + 2 * v + c.hidden <= PackWidth(c)
    OBVIOUS
  <2> DEFINE q == QkvWidth(c)
             g == GateWidth(c)
  <2>1. PackWidth(c) = Add(Add(q, v), Add(v, g))
    BY DEF PackWidth, v
  <2>2. q \in Size /\ g \in Size
    BY WidthFacts, Literals
  <2> HIDE DEF q, g
  <2>3. Add(q, v) \in Size /\ Add(v, g) \in Size
    BY <1>1, <2>2, AddFacts
  <2>4. Add(q, v) # NoSize /\ Add(v, g) # NoSize
    BY <2>1, <2>3, AddFacts
  <2>5. q # NoSize /\ g # NoSize
    BY <1>1, <2>2, <2>4, AddFacts
  <2>6. Channels(c) <= q /\ v * d <= g
    BY <1>7, <1>8, <2>5 DEF q, g
  <2>7. Channels(c) + v <= Add(q, v) /\ Channels(c) + v \in Nat
    <3>1. v \in Size /\ v \in Nat /\ v <= v
      BY <1>1, <1>2
    <3> QED
      BY <1>6, <2>2, <2>4, <2>6, <3>1, AddCovers
  <2>8. v + v * d <= Add(v, g) /\ v + v * d \in Nat
    <3>1. v \in Size /\ v \in Nat /\ v <= v /\ v * d \in Nat
      BY <1>1, <1>2, <1>5
    <3> QED
      BY <2>2, <2>4, <2>6, <3>1, AddCovers
  <2>9. (Channels(c) + v) + (v + v * d) <= PackWidth(c)
    BY <2>1, <2>3, <2>7, <2>8, AddCovers
  <2> QED
    BY <1>2, <1>6, <2>9, SMT DEF v, d
<1> QED
  BY <1>2, <1>4, <1>6, <1>7, <1>8, <1>9 DEF v, d

\* So many tokens of so many elements lie inside an activation as wide.
LEMMA ActivationHolds ==
  ASSUME NEW c \in Config, NEW p, NEW b \in Activations,
         NEW t \in Nat, t <= MaxTokens(c), NEW w \in Nat,
         ActivationWidth(c, b) # NoSize => w <= ActivationWidth(c, b)
  PROVE  Holds(c, p, b, t * w * 4)
<1> SUFFICES ASSUME Allocated(c, p, b) # NoSize
             PROVE  t * w * 4 <= Allocated(c, p, b)
  BY DEF Holds
<1> DEFINE T == MaxTokens(c)
           W == ActivationWidth(c, b)
<1>1. Allocated(c, p, b) = Mul(Mul(T, W), 4)
  BY DEF Allocated, Activations
<1>2. T \in Size /\ W \in Size /\ 4 \in Size
  BY FieldFacts, ActivationFacts, Literals
<1> HIDE DEF T, W
<1>3. Mul(T, W) \in Size
  BY <1>2, MulFacts
<1>4. Mul(T, W) # NoSize
  BY <1>1, <1>2, <1>3, MulFacts
<1>5. W # NoSize
  BY <1>2, <1>4, MulFacts
<1> QED
  BY <1>1, <1>2, <1>5, TripleCovers DEF T, W

\* A chunk as the properties mean it.
Chunk(c, t) == t \in Nat /\ t <= MaxTokens(c)

LEMMA InputHolds ==
  ASSUME NEW c \in Config, NEW p, Sound(c), NEW t, Chunk(c, t),
         NEW n \in Nat, n <= Larger(c.hidden, c.intermediate)
  PROVE  Holds(c, p, "matmul_input", t * n * WeightBytes(c))
<1> SUFFICES ASSUME Allocated(c, p, "matmul_input") # NoSize
             PROVE  t * n * WeightBytes(c) <= Allocated(c, p, "matmul_input")
  BY DEF Holds
<1> DEFINE T == MaxTokens(c)
           L == Larger(c.hidden, c.intermediate)
           k == WeightBytes(c)
<1>1. Allocated(c, p, "matmul_input") = Mul(Mul(T, L), k)
  BY DEF Allocated, Activations
<1>2. T \in Size /\ L \in Size
  BY FieldFacts, Literals
<1>3. k \in Size /\ k \in Nat /\ k <= k
  BY Literals DEF WeightBytes
<1>4. t \in Nat /\ t <= T
  BY DEF Chunk
<1> HIDE DEF T, L, k
<1>5. n <= L
  BY DEF L
<1> QED
  BY <1>1, <1>2, <1>3, <1>4, <1>5, TripleCovers DEF k

LEMMA CommonFits ==
  ASSUME NEW c \in Config, NEW p, Sound(c), NEW t, Chunk(c, t)
  PROVE  \A o \in CommonOperands(c, t) : Holds(c, p, o[1], o[2])
<1> DEFINE H(b, n) == Holds(c, p, b, n)
<1>1. t \in Nat /\ t <= MaxTokens(c)
  BY DEF Chunk
<1>2. /\ H("hidden_a", t * c.hidden * 4) /\ H("hidden_b", t * c.hidden * 4)
      /\ H("mixer_projected", t * c.hidden * 4)
  <2>1. ASSUME NEW b \in {"hidden_a", "hidden_b", "mixer_projected"}
        PROVE  H(b, t * c.hidden * 4)
    <3>1. b \in Activations /\ ActivationWidth(c, b) = c.hidden /\ c.hidden \in Nat
      BY Numbers DEF Activations, ActivationWidth
    <3>2. c.hidden <= ActivationWidth(c, b)
      BY <3>1
    <3> QED
      BY <1>1, <3>1, <3>2, ActivationHolds
  <2> QED
    BY <2>1
<1>3. /\ H("intermediate_a", t * c.intermediate * 4)
      /\ H("intermediate_b", t * c.intermediate * 4)
  <2>1. ASSUME NEW b \in {"intermediate_a", "intermediate_b"}
        PROVE  H(b, t * c.intermediate * 4)
    <3>1. /\ b \in Activations /\ ActivationWidth(c, b) = c.intermediate
          /\ c.intermediate \in Nat
      BY Numbers DEF Activations, ActivationWidth
    <3>2. c.intermediate <= ActivationWidth(c, b)
      BY <3>1
    <3> QED
      BY <1>1, <3>1, <3>2, ActivationHolds
  <2> QED
    BY <2>1
<1>4. /\ H("matmul_input", t * c.hidden * WeightBytes(c))
      /\ H("matmul_input", t * c.intermediate * WeightBytes(c))
  <2>1. /\ c.hidden \in Nat /\ c.hidden <= Larger(c.hidden, c.intermediate)
        /\ c.intermediate \in Nat /\ c.intermediate <= Larger(c.hidden, c.intermediate)
    BY Numbers DEF Larger
  <2> QED
    BY <2>1, InputHolds
<1>5. /\ H("tokens", c.maxContext * 4) /\ H("decode_results", c.maxContext * 4)
      /\ H("logits", c.vocabulary * 4)
  <2>1. /\ c.maxContext \in Size /\ c.vocabulary \in Size /\ 4 \in Size
        /\ c.maxContext \in Nat /\ c.vocabulary \in Nat
    BY FieldFacts, Literals, Numbers
  <2>2. /\ Mul(c.maxContext, 4) # NoSize => c.maxContext * 4 <= Mul(c.maxContext, 4)
        /\ Mul(c.vocabulary, 4) # NoSize => c.vocabulary * 4 <= Mul(c.vocabulary, 4)
    BY <2>1, MulCovers
  <2>3. /\ Allocated(c, p, "tokens") = Mul(c.maxContext, 4)
        /\ Allocated(c, p, "decode_results") = Mul(c.maxContext, 4)
        /\ Allocated(c, p, "logits") = Mul(c.vocabulary, 4)
    BY DEF Allocated, SharedBytes, Activations
  <2> QED
    BY <2>2, <2>3 DEF Holds
<1>6. H("argmax", ArgmaxBytes(c))
  <2>1. Allocated(c, p, "argmax") = ArgmaxBytes(c)
    BY DEF Allocated, SharedBytes, Activations
  <2>2. ArgmaxBytes(c) \in Size
    BY ArgmaxFacts, Literals
  <2>3. ArgmaxBytes(c) <= ArgmaxBytes(c)
    BY <2>2, WordAssumption DEF Size, NoSize
  <2> QED
    BY <2>1, <2>3 DEF Holds
<1> HIDE DEF H
<1>7. \A o \in CommonOperands(c, t) : H(o[1], o[2])
  BY <1>2, <1>3, <1>4, <1>5, <1>6 DEF CommonOperands
<1> QED
  BY <1>7 DEF H

LEMMA CacheHolds ==
  ASSUME NEW c \in Config, NEW p, Sound(c)
  PROVE  Holds(c, p, "kv_cache", 2 * c.maxContext * c.kvHeads * c.headDim
                                   * (IF p.cache = "f32" THEN 4 ELSE 2))
<1> DEFINE m == c.maxContext
           h == c.kvHeads
           d == c.headDim
           k == IF p.cache = "f32" THEN 4 ELSE 2
<1>1. Allocated(c, p, "kv_cache") = Mul(Mul(2, Mul(m, Mul(h, d))), k)
  BY DEF Allocated, SharedBytes, CacheBytes, Activations
<1>2. /\ m \in Size /\ h \in Size /\ d \in Size /\ k \in Size /\ 2 \in Size
      /\ m \in Nat /\ h \in Nat /\ d \in Nat /\ k \in Nat
  BY FieldFacts, Literals, Numbers
<1> SUFFICES ASSUME Mul(Mul(2, Mul(m, Mul(h, d))), k) # NoSize
             PROVE  2 * m * h * d * k <= Mul(Mul(2, Mul(m, Mul(h, d))), k)
  BY <1>1 DEF Holds
<1> HIDE DEF m, h, d, k
<1>3. /\ Mul(h, d) \in Size /\ Mul(m, Mul(h, d)) \in Size
      /\ Mul(2, Mul(m, Mul(h, d))) \in Size
  BY <1>2, MulFacts
<1>4. Mul(m, Mul(h, d)) # NoSize
  <2>1. Mul(2, Mul(m, Mul(h, d))) # NoSize
    BY <1>2, <1>3, MulFacts
  <2> QED
    BY <1>2, <1>3, <2>1, MulFacts
<1>5. Mul(h, d) # NoSize
  BY <1>2, <1>3, <1>4, MulFacts
<1>6. h * d <= Mul(h, d) /\ h * d \in Nat
  BY <1>2, <1>5, MulCovers
<1>7. m * (h * d) <= Mul(m, Mul(h, d)) /\ m * (h * d) \in Nat
  <2>1. m <= m
    BY <1>2
  <2> QED
    BY <1>2, <1>3, <1>4, <1>6, <2>1, MulCovers
<1>8. 2 * (m * (h * d)) * k <= Mul(Mul(2, Mul(m, Mul(h, d))), k)
  <2>1. 2 \in Nat /\ 2 <= 2 /\ k <= k
    BY <1>2
  <2> QED
    BY <1>2, <1>3, <1>7, <2>1, TripleCovers
<1>9. 2 * m * h * d = 2 * (m * (h * d))
  <2>1. 2 * m \in Nat /\ 2 * m * h * d = 2 * m * (h * d)
    BY <1>2, Grouping
  <2>2. 2 * m * (h * d) = 2 * (m * (h * d))
    BY <1>2, <1>6, Grouping
  <2> QED
    BY <2>1, <2>2
<1> QED
  BY <1>8, <1>9

\* The logits of the reference.
LEMMA LogitsHold ==
  ASSUME NEW c \in Config, NEW p, Sound(c), NEW t, Chunk(c, t),
         p.attention = "materialized"
  PROVE  Holds(c, p, "attention_workspace", t * c.heads * c.maxContext * 4)
<1> DEFINE T == MaxTokens(c)
           h == c.heads
           m == c.maxContext
<1>1. Allocated(c, p, "attention_workspace") = Mul(Mul(Mul(T, h), m), 4)
  BY DEF Allocated, SharedBytes, AttentionWorkspace, Activations
<1>2. /\ T \in Size /\ h \in Size /\ m \in Size /\ 4 \in Size
      /\ h \in Nat /\ m \in Nat /\ t \in Nat /\ t <= T
  BY FieldFacts, Literals, Numbers DEF Chunk
<1> SUFFICES ASSUME Mul(Mul(Mul(T, h), m), 4) # NoSize
             PROVE  t * h * m * 4 <= Mul(Mul(Mul(T, h), m), 4)
  BY <1>1 DEF Holds
<1> HIDE DEF T, h, m
<1>3. Mul(T, h) \in Size /\ Mul(Mul(T, h), m) \in Size
  BY <1>2, MulFacts
<1>4. Mul(Mul(T, h), m) # NoSize
  BY <1>2, <1>3, MulFacts
<1>5. Mul(T, h) # NoSize
  BY <1>2, <1>3, <1>4, MulFacts
<1>6. t * h <= Mul(T, h) /\ t * h \in Nat
  BY <1>2, <1>5, MulCovers
<1> QED
  <2>1. 4 \in Nat /\ 4 <= 4 /\ m <= m
    BY <1>2
  <2> DEFINE a == Mul(T, h)
             x == t * h
  <2>2. a \in Size /\ x \in Nat /\ x <= a /\ Mul(Mul(a, m), 4) # NoSize
    BY <1>3, <1>6
  <2> HIDE DEF a, x
  <2>3. x * m * 4 <= Mul(Mul(a, m), 4)
    BY <1>2, <2>1, <2>2, TripleCovers
  <2> QED
    BY <2>3 DEF a, x

\* The partial results of split-K, two words a partition and one an element.
LEMMA PartialsHold ==
  ASSUME NEW c \in Config, NEW p, Sound(c), p.attention # "materialized",
         NEW n, n = PartitionTokens(p.decode), n # 0
  PROVE  Holds(c, p, "attention_workspace",
               c.heads * ((c.maxContext + n - 1) \div n) * (2 + c.headDim) * 4)
<1> DEFINE h == c.heads
           d == c.headDim
           q == (c.maxContext + n - 1) \div n
           P == Mul(h, q)
           A == Mul(2, Mul(P, 4))
           B == Mul(Mul(P, d), 4)
<1>1. Allocated(c, p, "attention_workspace") = Add(A, B)
  BY DEF Allocated, SharedBytes, AttentionWorkspace, Activations
<1>2. n \in {256, 512}
  BY DEF PartitionTokens
<1>3. /\ h \in Size /\ d \in Size /\ 2 \in Size /\ 4 \in Size
      /\ h \in Nat /\ d \in Nat /\ c.maxContext \in 1..NoSize
  BY FieldFacts, Literals, Numbers DEF Positive
<1>4. q \in Size /\ q \in Nat
  <2>1. CASE n = 256
    BY <1>3, <2>1, WordAssumption, SMT DEF Size, NoSize
  <2>2. CASE n = 512
    BY <1>3, <2>2, WordAssumption, SMT DEF Size, NoSize
  <2> QED
    BY <1>2, <2>1, <2>2
<1> SUFFICES ASSUME Add(A, B) # NoSize PROVE h * q * (2 + d) * 4 <= Add(A, B)
  BY <1>1 DEF Holds
<1> HIDE DEF h, d, q
<1>5. P \in Size
  BY <1>3, <1>4, MulFacts
<1> HIDE DEF P
<1>6. Mul(P, 4) \in Size /\ Mul(P, d) \in Size
  BY <1>3, <1>5, MulFacts
<1>7. A \in Size /\ B \in Size
  BY <1>3, <1>6, MulFacts
<1>8. A # NoSize /\ B # NoSize
  <2> HIDE DEF A, B
  <2> QED
    BY <1>7, AddFacts
<1>9. Mul(P, 4) # NoSize
  BY <1>3, <1>6, <1>8, MulFacts
<1>10. P # NoSize
  BY <1>3, <1>5, <1>9, MulFacts
<1> DEFINE x == h * q
<1>11. x <= P /\ x \in Nat
  BY <1>3, <1>4, <1>10, MulCovers DEF P
<1> HIDE DEF x
<1>12. x * 4 <= Mul(P, 4) /\ x * 4 \in Nat
  BY <1>3, <1>5, <1>9, <1>11, MulCovers
<1>13. 2 * (x * 4) <= A /\ 2 * (x * 4) \in Nat
  <2>1. 2 \in Nat /\ 2 <= 2
    OBVIOUS
  <2> QED
    BY <1>3, <1>6, <1>8, <1>12, <2>1, MulCovers
<1>14. x * d * 4 <= B /\ x * d * 4 \in Nat
  <2>1. 4 \in Nat /\ 4 <= 4 /\ d <= d
    BY <1>3
  <2> QED
    BY <1>3, <1>5, <1>8, <1>11, <2>1, TripleCovers
<1> HIDE DEF A, B
<1>15. 2 * (x * 4) + x * d * 4 <= Add(A, B)
  BY <1>7, <1>13, <1>14, AddCovers
<1>16. x * (2 + d) * 4 = 2 * (x * 4) + x * d * 4
  BY <1>3, <1>11, SMT
<1> QED
  BY <1>15, <1>16 DEF x

LEMMA FullFits ==
  ASSUME NEW c \in Config, NEW p, Sound(c), NEW t, Chunk(c, t)
  PROVE  \A o \in FullOperands(c, p, t) : Holds(c, p, o[1], o[2])
<1> DEFINE H(b, n) == Holds(c, p, b, n)
           query == t * c.heads * c.headDim
           keys == t * c.kvHeads * c.headDim
           n == PartitionTokens(p.decode)
           cache == 2 * c.maxContext * c.kvHeads * c.headDim
                      * (IF p.cache = "f32" THEN 4 ELSE 2)
           logits == t * c.heads * c.maxContext * 4
           partials == c.heads * ((c.maxContext + n - 1) \div n) * (2 + c.headDim) * 4
<1>1. t \in Nat /\ t <= MaxTokens(c)
  BY DEF Chunk
<1>2. /\ c.heads \in Nat /\ c.headDim \in Nat /\ c.kvHeads \in Nat /\ c.hidden \in Nat
      /\ c.heads * c.headDim = c.hidden
  BY Numbers
<1>3. /\ query = t * c.hidden
      /\ keys = t * (c.kvHeads * c.headDim) /\ c.kvHeads * c.headDim \in Nat
  BY <1>1, <1>2, Grouping
<1>4. \A b \in {"full_query", "full_query_norm", "linear_gate", "attention_out"} :
        H(b, query * 4)
  <2> TAKE b \in {"full_query", "full_query_norm", "linear_gate", "attention_out"}
  <2>1. /\ b \in Activations
        /\ ActivationWidth(c, b) \in {QueryWidth(c), GateWidth(c), c.hidden}
    BY DEF Activations, ActivationWidth
  <2>2. ActivationWidth(c, b) # NoSize => c.hidden <= ActivationWidth(c, b)
    BY <1>2, <2>1, WidthsCover
  <2>3. H(b, t * c.hidden * 4)
    BY <1>1, <1>2, <2>1, <2>2, ActivationHolds
  <2> QED
    BY <1>3, <2>3
<1>5. H("full_query_gate", query * 8)
  <2> DEFINE b == "full_query_gate"
             w == c.hidden * 2
  <2>1. b \in Activations /\ ActivationWidth(c, b) = Mul(QueryWidth(c), 2)
    BY DEF Activations, ActivationWidth
  <2>2. QueryWidth(c) \in Size /\ 2 \in Size /\ 2 \in Nat /\ 2 <= 2 /\ w \in Nat
    BY <1>2, WidthFacts, Literals
  <2>3. ActivationWidth(c, b) # NoSize => w <= ActivationWidth(c, b)
    <3> SUFFICES ASSUME Mul(QueryWidth(c), 2) # NoSize
                 PROVE  w <= Mul(QueryWidth(c), 2)
      BY <2>1
    <3>1. QueryWidth(c) # NoSize
      BY <2>2, MulFacts
    <3>2. c.hidden <= QueryWidth(c)
      BY <3>1, WidthsCover
    <3> QED
      BY <1>2, <2>2, <3>2, MulCovers
  <2>4. H(b, t * w * 4)
    <3> HIDE DEF w
    <3> QED
      BY <1>1, <2>1, <2>2, <2>3, ActivationHolds
  <2>5. t * w * 4 = query * 8
    BY <1>1, <1>2, <1>3, SMT
  <2> QED
    BY <2>4, <2>5
<1>6. \A b \in {"full_key", "full_key_norm", "full_value"} : H(b, keys * 4)
  <2> TAKE b \in {"full_key", "full_key_norm", "full_value"}
  <2> DEFINE w == c.kvHeads * c.headDim
  <2>1. b \in Activations /\ ActivationWidth(c, b) = KvWidth(c)
    BY DEF Activations, ActivationWidth
  <2>2. w \in Nat /\ (ActivationWidth(c, b) # NoSize => w <= ActivationWidth(c, b))
    BY <1>3, <2>1, WidthsCover
  <2>3. H(b, t * w * 4)
    <3> HIDE DEF w
    <3> QED
      BY <1>1, <2>1, <2>2, ActivationHolds
  <2> QED
    BY <1>3, <2>3
<1>7. H("matmul_input", query * WeightBytes(c))
  <2>1. c.hidden <= Larger(c.hidden, c.intermediate)
    BY Numbers DEF Larger
  <2>2. H("matmul_input", t * c.hidden * WeightBytes(c))
    BY <1>2, <2>1, InputHolds
  <2> QED
    BY <1>3, <2>2
<1>8. H("kv_cache", cache)
  BY CacheHolds
<1>9. p.attention = "materialized" => H("attention_workspace", logits)
  BY LogitsHold
<1>10. p.attention # "materialized" /\ n # 0 => H("attention_workspace", partials)
  BY PartialsHold
<1>11. ASSUME NEW o \in FullOperands(c, p, t)
       PROVE  \/ o \in {<<b, query * 4>> : b \in {"full_query", "full_query_norm",
                                                  "linear_gate", "attention_out"}}
              \/ o \in {<<b, keys * 4>> : b \in {"full_key", "full_key_norm",
                                                 "full_value"}}
              \/ o = <<"full_query_gate", query * 8>>
              \/ o = <<"matmul_input", query * WeightBytes(c)>>
              \/ o = <<"kv_cache", cache>>
              \/ p.attention = "materialized" /\ o = <<"attention_workspace", logits>>
              \/ /\ p.attention # "materialized" /\ n # 0
                 /\ o = <<"attention_workspace", partials>>
  <2> DEFINE part == c.heads * ((c.maxContext + n - 1) \div n)
  <2>1. partials = part * (2 + c.headDim) * 4
    OBVIOUS
  <2> HIDE DEF n, query, keys, logits, cache, partials, part
  <2> QED
    BY <1>11, <2>1 DEF FullOperands, n, query, keys, logits, cache, part
<1> HIDE DEF H, query, keys, logits, cache, partials, n
<1>12. \A o \in FullOperands(c, p, t) : H(o[1], o[2])
  BY <1>4, <1>5, <1>6, <1>7, <1>8, <1>9, <1>10, <1>11
<1> QED
  BY <1>12 DEF H

LEMMA LinearFits ==
  ASSUME NEW c \in Config, NEW p, Sound(c), NEW t, Chunk(c, t)
  PROVE  \A o \in LinearOperands(c, t) : Holds(c, p, o[1], o[2])
<1> DEFINE H(b, n) == Holds(c, p, b, n)
           conv == Channels(c)
           gate == t * c.valueHeads * c.linearDim
           v == c.valueHeads
           d == c.linearDim
<1>1. t \in Nat /\ t <= MaxTokens(c)
  BY DEF Chunk
<1>2. /\ v \in Nat /\ d \in Nat /\ c.hidden \in Nat /\ v * d = c.hidden /\ conv \in Nat
  BY Numbers, WidthsCover
<1>3. gate = t * c.hidden
  BY <1>1, <1>2, Grouping
<1>4. H("linear_qkv", t * conv * 4)
  <2>1. "linear_qkv" \in Activations /\ ActivationWidth(c, "linear_qkv") = QkvWidth(c)
    BY DEF Activations, ActivationWidth
  <2> HIDE DEF conv
  <2>2. QkvWidth(c) # NoSize => conv <= QkvWidth(c)
    BY WidthsCover DEF conv
  <2> QED
    BY <1>1, <1>2, <2>1, <2>2, ActivationHolds
<1>5. \A b \in {"linear_beta", "linear_alpha"} : H(b, t * v * 4)
  <2> TAKE b \in {"linear_beta", "linear_alpha"}
  <2>1. b \in Activations /\ ActivationWidth(c, b) = v /\ v <= v
    BY <1>2 DEF Activations, ActivationWidth
  <2> QED
    BY <1>1, <1>2, <2>1, ActivationHolds
<1>6. \A b \in {"linear_gate", "attention_out"} : H(b, t * c.hidden * 4)
  <2> TAKE b \in {"linear_gate", "attention_out"}
  <2>1. b \in Activations /\ ActivationWidth(c, b) \in {GateWidth(c), c.hidden}
    BY DEF Activations, ActivationWidth
  <2>2. ActivationWidth(c, b) # NoSize => c.hidden <= ActivationWidth(c, b)
    BY <1>2, <2>1, WidthsCover
  <2> QED
    BY <1>1, <1>2, <2>1, <2>2, ActivationHolds
<1>7. H("linear_pack", t * (conv + 2 * v + c.hidden) * 4)
  <2> DEFINE w == conv + 2 * v + c.hidden
  <2>1. "linear_pack" \in Activations /\ ActivationWidth(c, "linear_pack") = PackWidth(c)
    BY DEF Activations, ActivationWidth
  <2>2. w \in Nat /\ (PackWidth(c) # NoSize => w <= PackWidth(c))
    BY <1>2, WidthsCover
  <2> HIDE DEF w
  <2>3. H("linear_pack", t * w * 4)
    BY <1>1, <2>1, <2>2, ActivationHolds
  <2> QED
    BY <2>3 DEF w
<1>8. H("delta_workspace", t * (conv + c.hidden) * 4)
  <2> DEFINE T == MaxTokens(c)
             q == QkvWidth(c)
             h == c.hidden
             a == Add(q, h)
             x == conv + h
  <2>1. Allocated(c, p, "delta_workspace") = Mul(Mul(T, a), 4)
    BY DEF Allocated, SharedBytes, DeltaWorkspace, Activations
  <2>2. T \in Size /\ q \in Size /\ h \in Size /\ 4 \in Size /\ 4 \in Nat /\ 4 <= 4
    BY FieldFacts, WidthFacts, Literals
  <2>3. q # NoSize => conv <= q
    BY WidthsCover
  <2> HIDE DEF T, q, conv
  <2>4. a \in Size
    BY <2>2, AddFacts
  <2> SUFFICES ASSUME Mul(Mul(T, a), 4) # NoSize
               PROVE  t * (conv + c.hidden) * 4 <= Mul(Mul(T, a), 4)
    BY <2>1 DEF Holds
  <2>5. Mul(T, a) \in Size
    BY <2>2, <2>4, MulFacts
  <2>6. Mul(T, a) # NoSize
    BY <2>2, <2>5, MulFacts
  <2>7. a # NoSize
    BY <2>2, <2>4, <2>6, MulFacts
  <2>8. q # NoSize
    BY <2>2, <2>7, AddFacts
  <2>9. x <= a /\ x \in Nat
    <3>1. h \in Nat /\ h <= h
      BY <1>2
    <3> HIDE DEF h
    <3> QED
      BY <1>2, <2>2, <2>3, <2>7, <2>8, <3>1, AddCovers
  <2> HIDE DEF a, x
  <2>10. t * x * 4 <= Mul(Mul(T, a), 4)
    BY <1>1, <2>2, <2>4, <2>9, TripleCovers DEF T
  <2> QED
    BY <2>10 DEF x
<1>9. H("matmul_input", t * c.hidden * WeightBytes(c))
  <2>1. c.hidden <= Larger(c.hidden, c.intermediate)
    BY Numbers DEF Larger
  <2> QED
    BY <1>2, <2>1, InputHolds
<1>10. H("convolution", (c.convWidth - 1) * conv * 4)
  <2> DEFINE n == c.convWidth - 1
             q == QkvWidth(c)
  <2>1. Allocated(c, p, "convolution") = Mul(Mul(n, q), 4)
    BY DEF Allocated, Activations
  <2>2. /\ n \in Size /\ n \in Nat /\ n <= n
        /\ q \in Size /\ 4 \in Size /\ 4 \in Nat /\ 4 <= 4
    BY Numbers, WidthFacts, Literals
  <2>3. q # NoSize => conv <= q
    BY WidthsCover
  <2> HIDE DEF n, q, conv
  <2> SUFFICES ASSUME Mul(Mul(n, q), 4) # NoSize
               PROVE  n * conv * 4 <= Mul(Mul(n, q), 4)
    BY <2>1 DEF Holds, n
  <2>4. Mul(n, q) \in Size
    BY <2>2, MulFacts
  <2>5. Mul(n, q) # NoSize
    BY <2>2, <2>4, MulFacts
  <2>6. q # NoSize
    BY <2>2, <2>5, MulFacts
  <2> QED
    BY <1>2, <2>2, <2>3, <2>6, TripleCovers
<1>11. H("recurrent", v * d * d * 4)
  <2>1. Allocated(c, p, "recurrent") = Mul(Mul(v, Mul(d, d)), 4)
    BY DEF Allocated, SharedBytes, RecurrentBytes, Activations
  <2>2. /\ v \in Size /\ d \in Size /\ v <= v /\ d <= d
        /\ 4 \in Size /\ 4 \in Nat /\ 4 <= 4
    BY <1>2, FieldFacts, Literals
  <2> HIDE DEF v, d
  <2> SUFFICES ASSUME Mul(Mul(v, Mul(d, d)), 4) # NoSize
               PROVE  v * d * d * 4 <= Mul(Mul(v, Mul(d, d)), 4)
    BY <2>1 DEF Holds
  <2>3. Mul(d, d) \in Size
    BY <2>2, MulFacts
  <2>4. Mul(v, Mul(d, d)) \in Size
    BY <2>2, <2>3, MulFacts
  <2>5. Mul(v, Mul(d, d)) # NoSize
    BY <2>2, <2>4, MulFacts
  <2>6. Mul(d, d) # NoSize
    BY <2>2, <2>3, <2>5, MulFacts
  <2> DEFINE s == d * d
             S == Mul(d, d)
  <2>7. s <= S /\ s \in Nat
    BY <1>2, <2>2, <2>6, MulCovers
  <2>8. v * d * d = v * s
    BY <1>2, Grouping
  <2> HIDE DEF s, S
  <2>9. v * s * 4 <= Mul(Mul(v, S), 4)
    BY <1>2, <2>2, <2>3, <2>7, TripleCovers DEF S
  <2> QED
    BY <2>8, <2>9 DEF S
<1>12. ASSUME NEW o \in LinearOperands(c, t)
       PROVE  \/ o = <<"linear_qkv", t * conv * 4>>
              \/ o \in {<<b, t * v * 4>> : b \in {"linear_beta", "linear_alpha"}}
              \/ o = <<"linear_gate", gate * 4>>
              \/ o = <<"attention_out", t * c.hidden * 4>>
              \/ o = <<"linear_pack", t * (conv + 2 * v + c.hidden) * 4>>
              \/ o = <<"delta_workspace", t * (conv + c.hidden) * 4>>
              \/ o = <<"matmul_input", gate * WeightBytes(c)>>
              \/ o = <<"convolution", (c.convWidth - 1) * conv * 4>>
              \/ o = <<"recurrent", v * d * d * 4>>
  BY <1>12 DEF LinearOperands, Channels
<1> HIDE DEF H, conv, v, d, gate
<1>13. \A o \in LinearOperands(c, t) : H(o[1], o[2])
  BY <1>3, <1>4, <1>5, <1>6, <1>7, <1>8, <1>9, <1>10, <1>11, <1>12
<1> QED
  BY <1>13 DEF H

\* Each buffer the kernels touch has a step that takes it.
LEMMA EveryBufferHasAStep ==
  ASSUME config \in Config, NEW p, NEW t, NEW o \in Operands(config, p, t)
  PROVE  o[1] \in Buffer /\ \E k \in 1..Steps(config) : StepTakes(k, o[1])
<1> DEFINE b == o[1]
           Fixed == Activations \cup
             {"tokens", "result", "argmax", "decode_token", "decode_position",
              "decode_results", "logits", "matmul_input", "matmul_workspace",
              "attention_workspace", "delta_workspace"}
<1>1. config.blocks \in Seq({"full", "linear"}) /\ Len(config.blocks) \in Nat
  BY FieldFacts, LenProperties
<1>2. Steps(config) = 28 + Len(config.blocks)
  BY DEF Steps
<1>3. ASSUME NEW x \in Fixed
      PROVE  x \in Buffer /\ \E k \in 1..Steps(config) : StepTakes(k, x)
  <2>1. \E k \in 1..28 : FixedBuffers[k] = x
    BY DEF FixedBuffers, Activations
  <2>2. PICK k \in 1..28 : FixedBuffers[k] = x
    BY <2>1
  <2>3. k \in 1..Steps(config) /\ k <= 28
    BY <1>1, <1>2, <2>2
  <2>4. BuffersOf(config, k) = <<x>>
    BY <2>2, <2>3 DEF BuffersOf
  <2> QED
    BY <2>3, <2>4 DEF StepTakes, Buffer
<1>4. ASSUME NEW kind \in Kinds(config)
      PROVE  \E k \in 1..Steps(config) :
               BuffersOf(config, k) = IF kind = "full" THEN <<"kv_cache">>
                                      ELSE <<"convolution", "recurrent">>
  <2>1. PICK i \in DOMAIN config.blocks : config.blocks[i] = kind
    BY DEF Kinds
  <2>2. i \in 1..Len(config.blocks)
    BY <1>1
  <2>3. 28 + i \in 1..Steps(config) /\ ~(28 + i <= 28) /\ (28 + i) - 28 = i
    BY <1>1, <1>2, <2>2
  <2>4. BuffersOf(config, 28 + i) = IF kind = "full" THEN <<"kv_cache">>
                                    ELSE <<"convolution", "recurrent">>
    BY <2>1, <2>3 DEF BuffersOf
  <2> QED
    BY <2>3, <2>4
<1>5. CASE b \in Fixed
  BY <1>3, <1>5
<1>6. CASE b \notin Fixed
  <2>1. \/ "full" \in Kinds(config) /\ b = "kv_cache"
        \/ "linear" \in Kinds(config) /\ b \in {"convolution", "recurrent"}
    <3>1. CASE o \in CommonOperands(config, t)
      BY <1>6, <3>1 DEF CommonOperands, Activations
    <3>2. CASE "full" \in Kinds(config) /\ o \in FullOperands(config, p, t)
      <4>1. b \in Fixed \cup {"kv_cache"}
        BY <3>2 DEF FullOperands, Activations
      <4> QED
        BY <1>6, <3>2, <4>1
    <3>3. CASE "linear" \in Kinds(config) /\ o \in LinearOperands(config, t)
      <4>1. b \in Fixed \cup {"convolution", "recurrent"}
        BY <3>3 DEF LinearOperands, Activations
      <4> QED
        BY <1>6, <3>3, <4>1
    <3> QED
      BY <3>1, <3>2, <3>3 DEF Operands
  <2>2. b \in Buffer
    BY <2>1 DEF Buffer
  <2>3. CASE "full" \in Kinds(config) /\ b = "kv_cache"
    BY <1>4, <2>2, <2>3 DEF StepTakes
  <2>4. CASE "linear" \in Kinds(config) /\ b \in {"convolution", "recurrent"}
    <3>1. \E k \in 1..Steps(config) :
            BuffersOf(config, k) = <<"convolution", "recurrent">>
      BY <1>4, <2>4
    <3> QED
      BY <2>2, <2>4, <3>1 DEF StepTakes
  <2> QED
    BY <2>1, <2>3, <2>4
<1> QED
  BY <1>5, <1>6

\* Every operand has a size that is a number.
LEMMA OperandSizes ==
  ASSUME NEW c \in Config, NEW p \in Policy, Sound(c), NEW t, Chunk(c, t),
         NEW o \in Operands(c, p, t)
  PROVE  o[2] \in Nat
<1>1. /\ t \in Nat /\ WeightBytes(c) \in Nat
      /\ c.vocabulary \in Nat /\ c.hidden \in Nat /\ c.intermediate \in Nat
      /\ c.maxContext \in Nat /\ c.heads \in Nat /\ c.kvHeads \in Nat
      /\ c.headDim \in Nat /\ c.keyHeads \in Nat /\ c.valueHeads \in Nat
      /\ c.linearDim \in Nat /\ c.convWidth - 1 \in Nat
  BY Numbers DEF Chunk, WeightBytes
<1>2. \A x, y \in Nat : x * y \in Nat /\ x + y \in Nat
  BY SMT
<1>3. ArgmaxBytes(c) \in Nat
  BY ArgmaxFacts, WordAssumption DEF Positive, NoSize
<1>4. CASE o \in CommonOperands(c, t)
  BY <1>1, <1>2, <1>3, <1>4 DEF CommonOperands
<1>5. CASE o \in FullOperands(c, p, t)
  <2> DEFINE n == PartitionTokens(p.decode)
             parts == (c.maxContext + n - 1) \div n
             size == IF p.cache = "f32" THEN 4 ELSE 2
  <2>1. n # 0 => parts \in Nat
    <3>1. n \in {0, 256, 512}
      BY DEF PartitionTokens
    <3> QED
      BY <1>1, <3>1, SMT
  <2>2. size \in Nat
    OBVIOUS
  <2> HIDE DEF n, parts, size
  <2> QED
    BY <1>1, <1>2, <1>5, <2>1, <2>2, SMTT(30) DEF FullOperands, n, parts, size
<1>6. CASE o \in LinearOperands(c, t)
  <2> DEFINE conv == 2 * c.keyHeads * c.linearDim + c.valueHeads * c.linearDim
             gate == t * c.valueHeads * c.linearDim
  <2>1. conv \in Nat
    BY WidthsCover DEF Channels
  <2>2. /\ gate \in Nat /\ t * conv * 4 \in Nat /\ t * c.valueHeads * 4 \in Nat
        /\ t * (conv + 2 * c.valueHeads + c.hidden) * 4 \in Nat
        /\ t * (conv + c.hidden) * 4 \in Nat
        /\ (c.convWidth - 1) * conv * 4 \in Nat
        /\ t * c.hidden * 4 \in Nat
        /\ c.valueHeads * c.linearDim * c.linearDim * 4 \in Nat
    <3> HIDE DEF conv
    <3>1. 2 * c.valueHeads \in Nat /\ conv + 2 * c.valueHeads + c.hidden \in Nat
      BY <1>1, <2>1
    <3> QED
      BY <1>1, <1>2, <2>1, <3>1
  <2>3. gate * 4 \in Nat /\ gate * WeightBytes(c) \in Nat
    BY <1>1, <1>2, <2>2
  <2> HIDE DEF conv, gate
  <2> QED
    BY <1>6, <2>2, <2>3 DEF LinearOperands, conv, gate
<1> QED
  BY <1>4, <1>5, <1>6 DEF Operands

LEMMA ReadyFits ==
  WorkspaceInv /\ LargeEnough /\ AllTaken /\ BuffersDisjoint => OperandsStayInBuffers
<1> SUFFICES ASSUME WorkspaceInv, LargeEnough, AllTaken, phase = "ready",
                    NEW tokens \in Bucket, tokens <= config.maxContext,
                    NEW o \in Operands(config, policy, tokens), o[2] > 0
             PROVE  /\ Taken(o[1])
                    /\ \A i \in 1..Len(placed) :
                         placed[i].buffer = o[1] => o[2] <= placed[i].bytes
  BY DEF OperandsStayInBuffers, Taken
<1>1. config \in Config /\ policy \in Policy /\ Sound(config)
  BY DEF WorkspaceInv, TypeOK, Checked
<1>2. Chunk(config, tokens)
  <2>1. tokens \in Nat /\ tokens <= MaxPrefillTokens
    BY BucketAssumption, PrefillAssumption
  <2> QED
    BY <2>1 DEF Chunk, MaxTokens, Smaller
<1>3. Holds(config, policy, o[1], o[2])
  <2>1. CASE o \in CommonOperands(config, tokens)
    BY <1>1, <1>2, <2>1, CommonFits
  <2>2. CASE o \in FullOperands(config, policy, tokens)
    BY <1>1, <1>2, <2>2, FullFits
  <2>3. CASE o \in LinearOperands(config, tokens)
    BY <1>1, <1>2, <2>3, LinearFits
  <2> QED
    BY <2>1, <2>2, <2>3 DEF Operands
<1>4. PICK k \in 1..Steps(config) : StepTakes(k, o[1])
  BY <1>1, EveryBufferHasAStep
<1>5. o[1] \in Buffer
  BY <1>1, EveryBufferHasAStep
<1>6. queue = <<>> /\ done = Steps(config)
  BY DEF AllTaken
<1>7. Taken(o[1]) \/ Waits(o[1]) \/ DoneWithout(o[1])
  BY <1>4, <1>5, <1>6 DEF AllTaken
<1>8. ~Waits(o[1])
  BY <1>6 DEF Waits
<1>9. ~DoneWithout(o[1])
  <2> SUFFICES ASSUME Allocated(config, policy, o[1]) = 0 PROVE FALSE
    BY DEF DoneWithout
  <2>1. o[2] <= 0
    BY <1>3, WordAssumption DEF Holds, NoSize
  <2>2. o[2] \in Nat
    BY <1>1, <1>2, OperandSizes
  <2> QED
    BY <2>1, <2>2
<1>10. ASSUME NEW i \in 1..Len(placed), placed[i].buffer = o[1]
       PROVE  o[2] <= placed[i].bytes
  <2>1. /\ placed[i].bytes \in Nat /\ Allocated(config, policy, o[1]) # NoSize
        /\ Allocated(config, policy, o[1]) <= placed[i].bytes
    BY <1>10 DEF LargeEnough
  <2>2. o[2] <= Allocated(config, policy, o[1])
    BY <1>3, <2>1 DEF Holds
  <2>3. Allocated(config, policy, o[1]) \in Nat /\ o[2] \in Nat
    BY <1>1, <1>2, <1>5, AllocatedFacts, OperandSizes, WordAssumption DEF Size, NoSize
  <2> QED
    BY <2>1, <2>2, <2>3
<1> QED
  BY <1>7, <1>8, <1>9, <1>10

\* No chunk, tuning run or replay of an executor that was constructed reaches
\* outside the buffers it works on, and these share nothing: for every
\* configuration that validate_config lets pass, context and policy.
THEOREM OperandsAlwaysFit == Spec => []OperandsStayInBuffers
<1>1. Init => LargeEnough /\ AllTaken
  BY DEF Init, LargeEnough, AllTaken
<1>2. LargeEnough /\ AllTaken /\ WorkspaceInv /\ [Next]_vars => LargeEnough' /\ AllTaken'
  BY LargeEnoughStep, AllTakenStep
<1> QED
  BY WorkspaceInvariant, BuffersNeverOverlap, ReadyFits, <1>1, <1>2, PTL DEF Spec

-----------------------------------------------------------------------------
(* Decode graphs *)

\* A graph of all launches of a decode step, with the plan of a variant.
WholeGraph(v) == [plan |-> v, launches |-> Launches]

\* What the driver holds for an owner, and for a capture that is not kept yet.
HeldBy(v) == {<<"graph", v>>, <<"exec", v>>}
HeldByOwners == UNION {HeldBy(v) : v \in {w \in Variant : graphs[w] # NoPair}}
HeldByCapture ==
  IF captureAt \in {"instantiate", "discard"} THEN {<<"graph", "draft">>} ELSE {}

\* An owner has a whole graph twice or nothing, and nothing while it captures;
\* the stream records in the body of a capture only.
GraphInv ==
  /\ captureAt \in {"idle", "body", "thrown", "instantiate", "discard", "destroyed"}
  /\ graphs \in [Variant -> [graph : {NoGraph} \cup {WholeGraph(v) : v \in Variant},
                             exec : {NoGraph} \cup {WholeGraph(v) : v \in Variant}]]
  /\ \A v \in Variant :
       graphs[v] = NoPair \/ graphs[v] = [graph |-> WholeGraph(v), exec |-> WholeGraph(v)]
  /\ captureAt \notin {"idle", "destroyed"} => capturedFor \in Variant /\ graphs[capturedFor] = NoPair
  /\ captureAt = "body" =>
       recording \in [plan : {capturedFor}, launches : 0..Launches]
  /\ captureAt \notin {"body", "thrown"} => recording = NoGraph
  /\ captureAt = "instantiate" => drafted = WholeGraph(capturedFor)
  /\ alive = HeldByOwners \cup HeldByCapture
  /\ captureAt = "destroyed" => \A v \in Variant : graphs[v] = NoPair
  /\ launched # NoGraph =>
       launched.by \in Variant /\ launched.ran = WholeGraph(launched.by)

LEMMA WholeIsAGraph ==
  ASSUME GraphAssumption, NEW v \in Variant
  PROVE  WholeGraph(v) # NoGraph /\ v # "draft"
BY DEF GraphAssumption, WholeGraph

LEMMA GraphStarts == GraphInit => GraphInv
BY DEF GraphInit, GraphInv, NoPair, HeldByOwners, HeldByCapture

\* What one owner gains or loses, the driver gains or loses.
LEMMA OwnersHold ==
  ASSUME GraphAssumption, GraphInv, NEW v \in Variant
  PROVE  /\ graphs' = [graphs EXCEPT ![v] = NoPair] =>
              HeldByOwners' = HeldByOwners \ HeldBy(v)
         /\ graphs' = [graphs EXCEPT ![v] = [graph |-> WholeGraph(v),
                                             exec |-> WholeGraph(v)]] =>
              HeldByOwners' = HeldByOwners \cup HeldBy(v)
         /\ <<"graph", "draft">> \notin HeldByOwners
<1>1. WholeGraph(v) # NoGraph /\ v # "draft"
  BY WholeIsAGraph
<1>2. \A w \in Variant : w # "draft"
  BY WholeIsAGraph
<1>3. DOMAIN graphs = Variant
  BY DEF GraphInv
<1>4. ASSUME graphs' = [graphs EXCEPT ![v] = NoPair]
      PROVE  HeldByOwners' = HeldByOwners \ HeldBy(v)
  <2>1. \A w \in Variant : graphs'[w] # NoPair <=> w # v /\ graphs[w] # NoPair
    BY <1>3, <1>4
  <2> QED BY <2>1 DEF HeldByOwners, HeldBy
<1>5. ASSUME graphs' = [graphs EXCEPT ![v] = [graph |-> WholeGraph(v),
                                              exec |-> WholeGraph(v)]]
      PROVE  HeldByOwners' = HeldByOwners \cup HeldBy(v)
  <2>1. \A w \in Variant : graphs'[w] # NoPair <=> w = v \/ graphs[w] # NoPair
    BY <1>1, <1>3, <1>5 DEF NoPair
  <2> QED BY <2>1 DEF HeldByOwners, HeldBy
<1> QED BY <1>2, <1>4, <1>5 DEF HeldByOwners, HeldBy

LEMMA BeginCaptureKeeps ==
  ASSUME GraphAssumption, GraphInv, BeginCapture
  PROVE  GraphInv'
<1>1. PICK v \in Variant :
        /\ capturedFor' = v /\ graphs' = [graphs EXCEPT ![v] = NoPair] /\ alive' = Emptied(v)
        /\ \/ recording' = [plan |-> v, launches |-> 0] /\ captureAt' = "body"
           \/ UNCHANGED <<recording, captureAt>>
  BY DEF BeginCapture
<1>2. captureAt = "idle" /\ UNCHANGED <<drafted, launched>>
  BY DEF BeginCapture
<1>3. HeldByOwners' = HeldByOwners \ HeldBy(v)
  BY <1>1, OwnersHold
<1>4. alive' = HeldByOwners' \cup HeldByCapture'
  BY <1>1, <1>2, <1>3 DEF GraphInv, Emptied, HeldBy, HeldByCapture
<1>5. \A w \in Variant : graphs'[w] = IF w = v THEN NoPair ELSE graphs[w]
  BY <1>1 DEF GraphInv
<1>6. graphs' \in [Variant -> [graph : {NoGraph} \cup {WholeGraph(w) : w \in Variant},
                               exec : {NoGraph} \cup {WholeGraph(w) : w \in Variant}]]
  BY <1>1 DEF GraphInv, NoPair
<1>7. \A w \in Variant :
        graphs'[w] = NoPair \/ graphs'[w] = [graph |-> WholeGraph(w), exec |-> WholeGraph(w)]
  BY <1>5 DEF GraphInv
<1>8. captureAt' = "body" => recording' \in [plan : {capturedFor'}, launches : 0..Launches]
  BY <1>1, <1>2 DEF GraphAssumption
<1> QED
  BY <1>1, <1>2, <1>4, <1>5, <1>6, <1>7, <1>8 DEF GraphInv, WholeGraph

LEMMA BodyKeeps ==
  ASSUME GraphAssumption, GraphInv, Body
  PROVE  GraphInv'
<1>1. HeldByOwners' = HeldByOwners /\ HeldByCapture' = HeldByCapture
  BY DEF Body, HeldByOwners, HeldByCapture
<1>2. captureAt' = "body" => recording' \in [plan : {capturedFor'}, launches : 0..Launches]
  BY DEF Body, GraphInv, GraphAssumption
<1> QED
  BY <1>1, <1>2 DEF Body, GraphInv, WholeGraph

LEMMA EndedKeeps ==
  ASSUME GraphAssumption, GraphInv, captureAt \in {"body", "thrown"},
         Abandon \/ EndCapture
  PROVE  GraphInv'
<1>1. /\ recording' = NoGraph /\ UNCHANGED <<capturedFor, plan, graphs, launched>>
      /\ \/ /\ drafted' = recording /\ alive' = alive \cup {<<"graph", "draft">>}
            /\ captureAt' \in {"instantiate", "discard"}
            /\ captureAt' = "instantiate" => captureAt = "body" /\ recording.launches = Launches
         \/ captureAt' = "idle" /\ UNCHANGED <<drafted, alive>>
  BY DEF Abandon, EndCapture, Ended
<1>2. HeldByOwners' = HeldByOwners
  BY <1>1 DEF HeldByOwners
<1>3. alive' = HeldByOwners' \cup HeldByCapture'
  BY <1>1, <1>2 DEF GraphInv, HeldByCapture
<1>4. captureAt' = "instantiate" => drafted' = WholeGraph(capturedFor')
  BY <1>1 DEF GraphInv, WholeGraph
<1> QED
  BY <1>1, <1>3, <1>4 DEF GraphInv, WholeGraph

LEMMA DiscardKeeps ==
  ASSUME GraphAssumption, GraphInv, Discard
  PROVE  GraphInv'
<1>1. PICK v \in Variant : v = capturedFor
  BY DEF Discard, GraphInv
<1>2. HeldByOwners' = HeldByOwners /\ <<"graph", "draft">> \notin HeldByOwners
  BY <1>1, OwnersHold DEF Discard, HeldByOwners
<1>3. alive' = HeldByOwners' \cup HeldByCapture'
  BY <1>2 DEF Discard, GraphInv, HeldByCapture
<1> QED
  BY <1>3 DEF Discard, GraphInv, WholeGraph

LEMMA InstantiateKeeps ==
  ASSUME GraphAssumption, GraphInv, Instantiate
  PROVE  GraphInv'
<1>1. capturedFor \in Variant /\ drafted = WholeGraph(capturedFor) /\ captureAt = "instantiate"
      /\ recording = NoGraph /\ graphs[capturedFor] = NoPair
  BY DEF Instantiate, GraphInv
<1>2. CASE /\ graphs' = [graphs EXCEPT ![capturedFor] = [graph |-> drafted, exec |-> drafted]]
           /\ alive' = (alive \ {<<"graph", "draft">>})
                        \cup {<<"graph", capturedFor>>, <<"exec", capturedFor>>}
           /\ captureAt' = "idle" /\ UNCHANGED <<capturedFor, recording, launched>>
  <2>1. /\ HeldByOwners' = HeldByOwners \cup HeldBy(capturedFor)
        /\ <<"graph", "draft">> \notin HeldByOwners
    BY <1>1, <1>2, OwnersHold
  <2>2. alive' = HeldByOwners' \cup HeldByCapture'
    BY <1>1, <1>2, <2>1 DEF GraphInv, HeldByCapture, HeldBy
  <2>3. \A w \in Variant :
          graphs'[w] = IF w = capturedFor THEN [graph |-> WholeGraph(capturedFor),
                                          exec |-> WholeGraph(capturedFor)] ELSE graphs[w]
    BY <1>1, <1>2 DEF GraphInv
  <2>4. graphs' \in [Variant -> [graph : {NoGraph} \cup {WholeGraph(w) : w \in Variant},
                                 exec : {NoGraph} \cup {WholeGraph(w) : w \in Variant}]]
    BY <1>1, <1>2 DEF GraphInv
  <2>5. \A w \in Variant :
          \/ graphs'[w] = NoPair
          \/ graphs'[w] = [graph |-> WholeGraph(w), exec |-> WholeGraph(w)]
    BY <2>3 DEF GraphInv
  <2> QED
    BY <1>1, <1>2, <2>2, <2>4, <2>5 DEF GraphInv, WholeGraph
<1>3. CASE captureAt' = "discard" /\ UNCHANGED <<graphs, alive, drafted, capturedFor, recording, launched>>
  <2>1. HeldByOwners' = HeldByOwners /\ HeldByCapture' = HeldByCapture
    BY <1>1, <1>3 DEF HeldByOwners, HeldByCapture
  <2> QED
    BY <1>1, <1>3, <2>1 DEF GraphInv, WholeGraph
<1> QED
  BY <1>2, <1>3 DEF Instantiate

LEMMA ReplayKeeps ==
  ASSUME GraphAssumption, GraphInv, Replay
  PROVE  GraphInv'
<1>1. PICK v \in Variant : Captured(v) /\ capturedFor' = v
                            /\ launched' = [by |-> v, ran |-> graphs[v].exec]
  BY DEF Replay
<1>2. graphs[v].exec = WholeGraph(v)
  BY <1>1 DEF GraphInv, Captured, NoPair
<1>3. HeldByOwners' = HeldByOwners /\ HeldByCapture' = HeldByCapture
  BY DEF Replay, HeldByOwners, HeldByCapture
<1> QED
  BY <1>1, <1>2, <1>3 DEF Replay, GraphInv, WholeGraph

LEMMA DestroyKeeps ==
  ASSUME GraphAssumption, GraphInv, Destroy
  PROVE  GraphInv'
<1>1. /\ captureAt = "idle" /\ captureAt' = "destroyed" /\ graphs' = [v \in Variant |-> NoPair]
      /\ alive' = alive \ ({"exec", "graph"} \X Variant)
      /\ UNCHANGED <<capturedFor, plan, recording, drafted, launched>>
  BY DEF Destroy
<1>2. HeldByOwners' = {} /\ HeldByCapture' = {} /\ HeldByCapture = {}
  BY <1>1 DEF HeldByOwners, HeldByCapture
<1>3. HeldByOwners \subseteq {"exec", "graph"} \X Variant
  BY DEF HeldByOwners, HeldBy
<1>4. alive' = {}
  BY <1>1, <1>2, <1>3 DEF GraphInv
<1> QED
  BY <1>1, <1>2, <1>4 DEF GraphInv, NoPair, WholeGraph

LEMMA GraphStep ==
  ASSUME GraphAssumption, GraphInv, [GraphNext]_graphVars
  PROVE  GraphInv'
<1>1. CASE Abandon \/ EndCapture
  BY <1>1, EndedKeeps DEF Abandon, EndCapture
<1>2. CASE UNCHANGED graphVars
  <2>1. HeldByOwners' = HeldByOwners /\ HeldByCapture' = HeldByCapture
    BY <1>2 DEF graphVars, HeldByOwners, HeldByCapture
  <2> QED BY <1>2, <2>1 DEF graphVars, GraphInv, WholeGraph
<1> QED
  BY <1>1, <1>2, BeginCaptureKeeps, BodyKeeps, DiscardKeeps, InstantiateKeeps,
     ReplayKeeps, DestroyKeeps DEF GraphNext

LEMMA GraphInvServes ==
  ASSUME GraphAssumption, GraphInv
  PROVE  GraphsServe
<1>1. \A v \in Variant : Captured(v) <=> graphs[v] # NoPair
  <2> SUFFICES ASSUME NEW v \in Variant PROVE Captured(v) <=> graphs[v] # NoPair
    OBVIOUS
  <2>1. WholeGraph(v) # NoGraph
    BY WholeIsAGraph
  <2>2. CASE graphs[v] = NoPair
    BY <2>2 DEF Captured, NoPair
  <2>3. CASE graphs[v] = [graph |-> WholeGraph(v), exec |-> WholeGraph(v)]
    BY <2>1, <2>3 DEF Captured, NoPair
  <2> QED BY <2>2, <2>3 DEF GraphInv
<1>2. captureAt \in {"idle", "destroyed"} =>
        alive = UNION {{<<"graph", v>>, <<"exec", v>>} : v \in {w \in Variant : Captured(w)}}
  <2>1. {w \in Variant : Captured(w)} = {w \in Variant : graphs[w] # NoPair}
    BY <1>1
  <2> QED BY <2>1 DEF GraphInv, HeldByOwners, HeldByCapture, HeldBy
<1>3. captureAt = "destroyed" => alive = {}
  BY DEF GraphInv, HeldByOwners, HeldByCapture
<1>4. GraphsGiveBack
  BY <1>2, <1>3 DEF GraphsGiveBack, GraphInv
<1>5. ReplaysWholeStep
  BY DEF ReplaysWholeStep, GraphInv, WholeGraph
<1> QED BY <1>4, <1>5 DEF GraphsServe

\* For any number of variants and launches, and wherever captures fail, a graph
\* that is replayed (cuda_graph_decode.cu, replay_on_current_device) is a whole
\* decode step of its variant, and every graph object is given back once.
THEOREM DecodeGraphsServe ==
  ASSUME GraphAssumption PROVE GraphSpec => []GraphsServe
<1>1. GraphInv => GraphsServe
  BY GraphInvServes
<1>2. GraphInv /\ [GraphNext]_graphVars => GraphInv'
  BY GraphStep
<1> QED
  BY <1>1, <1>2, GraphStarts, PTL DEF GraphSpec
=============================================================================
