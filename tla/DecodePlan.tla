----------------------------- MODULE DecodePlan -----------------------------
(***************************************************************************)
(* How one decode step is planned: the context bucket, the split-K plan,   *)
(* the partial-result workspace, and the map from a cache position to the  *)
(* CUDA graph variant that may be replayed there.  Pure operators; the     *)
(* token counts are the code's, scaled by the constants.                   *)
(***************************************************************************)
EXTENDS Naturals, FiniteSets

CONSTANTS
  MaxContext,        \* max_context_tokens of the session
  MinContextBucket,  \* kMinimumContextBucketTokens (512 in the code)
  Partition          \* partition_tokens of the resolved mode: 256 or 512,
                     \* 0 for the single_block mode

ASSUME DecodePlanAssumption ==
  /\ MaxContext \in Nat \ {0}
  /\ MinContextBucket \in Nat \ {0}
  /\ Partition \in Nat
  /\ Partition <= MaxContext  \* the executor falls back to single_block otherwise

Position == 0 .. MaxContext - 1

CeilDiv(a, b) == a \div b + IF a % b = 0 THEN 0 ELSE 1

\* Mutation: the loop stops one doubling too early.
MutContextBucket(context) ==
  LET grow[b \in Nat] ==
        IF 2 * b < context /\ b < MaxContext THEN grow[2 * b] ELSE b
      bucket == grow[MinContextBucket]
  IN  IF bucket < MaxContext THEN bucket ELSE MaxContext

\* The doubling loop: it stops at the first bucket that holds the context or
\* reaches the session's maximum, and the result is cut to that maximum.
ContextBucket(context) ==
  LET grow[b \in Nat] ==
        IF b < context /\ b < MaxContext THEN grow[2 * b] ELSE b
      bucket == grow[MinContextBucket]
  IN  IF bucket < MaxContext THEN bucket ELSE MaxContext

OnlineDecodePlan(partition, context) ==
  [ partition |-> partition,
    threshold |-> partition,
    bucket    |-> ContextBucket(context),
    capacity  |-> IF partition = 0 THEN 1
                  ELSE CeilDiv(ContextBucket(context), partition) ]

\* The plan of an eager decode: chosen for the context the step will have.
EagerPlan(position) == OnlineDecodePlan(Partition, position + 1)

\* Slots per query head in the partial-result workspace, sized once for the
\* longest context.
MaxPartitions == IF Partition = 0 THEN 0 ELSE CeilDiv(MaxContext, Partition)

\* Mutation: the position map switches one token later than the dispatch.
MutFirstSplitPosition == Partition

\* First position whose decode is planned as split-K: its context, one more
\* than the position, is the threshold.
FirstSplitPosition == Partition - 1

\* A new variant opens at the first split position, and from there on whenever
\* the plan changes.
OpensVariant(position) ==
  /\ Partition # 0 /\ position >= FirstSplitPosition
  /\ position > FirstSplitPosition =>
       EagerPlan(position) # EagerPlan(position - 1)

\* decode_graph_variant_by_position_: variant 0 is single-block, the others are
\* numbered as they open.
VariantIndex[position \in Nat] ==
  Cardinality({p \in 0 .. position : OpensVariant(p)})

Variants == {VariantIndex[p] : p \in Position} \union {0}

\* The plan a variant was created with: variant 0 for a context of one token,
\* the others for the first position they serve.
VariantPlan(variant) ==
  IF variant = 0 THEN OnlineDecodePlan(0, 1)
  ELSE EagerPlan(CHOOSE p \in Position :
                   /\ VariantIndex[p] = variant
                   /\ \A q \in Position : VariantIndex[q] = variant => p <= q)

=============================================================================
